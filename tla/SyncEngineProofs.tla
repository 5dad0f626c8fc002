-------------------------- MODULE SyncEngineProofs --------------------------
(* Proofs about the sync engine: PassControl, for any callers and any        *)
(* bounds, then SyncPass, for any bounds, any faults and any races.          *)
(* The two share this module and no state.                                   *)
EXTENDS PassControl, SyncPass, TLAPS

USE BoundsAssumption

-----------------------------------------------------------------------------
(* The control verbs. *)

LEMMA SetControlKeeps ==
    ASSUME ControlInvariant, NEW c \in Callers,
           NEW control \in Controls \ {"Retired"}, set_control(c, control)
    PROVE  ControlInvariant'
<1>1. TypeOK'
  BY DEF ControlInvariant, TypeOK, Controls, Suspensions, Verbs, Steps, set_control, Begin,
         Idle, CountCall, PassVars, WatchVars
<1>2. RegistryHeld'
  BY DEF ControlInvariant, TypeOK, RegistryHeld, set_control, Begin, Idle, CountCall, PassVars,
         WatchVars
<1>3. FlagIsOwn'
  BY DEF ControlInvariant, TypeOK, FlagIsOwn, RegistryHeld, Controls, Suspensions, set_control,
         Begin, Idle, CountCall, PassVars, WatchVars
<1>4. RetiredStands'
  BY DEF ControlInvariant, TypeOK, RetiredStands, RegistryHeld, FlagIsOwn, Suspensions,
         set_control, Begin, Idle, CountCall, PassVars, WatchVars
<1>5. NoneReads'
  BY DEF ControlInvariant, TypeOK, NoneReads, RetiredStands, Gated, Writing, Phases, Stopped,
         set_control, Begin, Idle, CountCall, PassVars, WatchVars
<1>6. PauseIsPersisted'
  BY DEF ControlInvariant, TypeOK, PauseIsPersisted, is_paused, InVerb, RegistryHeld,
         FlagIsOwn, RetiredStands, Controls, Suspensions, set_control, Begin, Idle, CountCall,
         PassVars, WatchVars
<1> QED
  BY <1>1, <1>2, <1>3, <1>4, <1>5, <1>6 DEF ControlInvariant

LEMMA PersistFlagKeeps ==
    ASSUME ControlInvariant, NEW c \in Callers, PersistFlag(c)
    PROVE  ControlInvariant'
<1>1. TypeOK'
  BY DEF ControlInvariant, TypeOK, Controls, Suspensions, Verbs, Steps, PersistFlag, Return,
         Step, Idle, PassVars, WatchVars
<1>2. RegistryHeld'
  BY DEF ControlInvariant, TypeOK, RegistryHeld, PersistFlag, Return, Step, Idle, PassVars,
         WatchVars
<1>3. FlagIsOwn'
  BY DEF ControlInvariant, TypeOK, FlagIsOwn, RegistryHeld, Controls, Suspensions, PersistFlag,
         Return, Step, Idle, PassVars, WatchVars
<1>4. RetiredStands'
  BY DEF ControlInvariant, TypeOK, RetiredStands, RegistryHeld, FlagIsOwn, Suspensions,
         PersistFlag, Return, Step, Idle, PassVars, WatchVars
<1>5. NoneReads'
  BY DEF ControlInvariant, TypeOK, NoneReads, RetiredStands, Gated, Writing, Phases, Stopped,
         PersistFlag, Return, Step, Idle, PassVars, WatchVars
<1>6. PauseIsPersisted'
  BY DEF ControlInvariant, TypeOK, PauseIsPersisted, is_paused, InVerb, RegistryHeld,
         FlagIsOwn, RetiredStands, Controls, Suspensions, PersistFlag, Return, Step, Idle,
         PassVars, WatchVars
<1> QED
  BY <1>1, <1>2, <1>3, <1>4, <1>5, <1>6 DEF ControlInvariant

LEMMA SendControlKeeps ==
    ASSUME ControlInvariant, NEW c \in Callers, SendControl(c)
    PROVE  ControlInvariant'
<1>1. TypeOK'
  BY DEF ControlInvariant, TypeOK, Controls, Suspensions, Verbs, Steps, SendControl, Return,
         Idle, PassVars, WatchVars, FlagIsOwn
<1>2. RegistryHeld'
  BY DEF ControlInvariant, TypeOK, RegistryHeld, SendControl, Return, Idle, PassVars, WatchVars
<1>3. FlagIsOwn'
  BY DEF ControlInvariant, TypeOK, FlagIsOwn, RegistryHeld, Controls, Suspensions, SendControl,
         Return, Idle, PassVars, WatchVars
<1>4. RetiredStands'
  BY DEF ControlInvariant, TypeOK, RetiredStands, RegistryHeld, FlagIsOwn, Suspensions,
         SendControl, Return, Idle, PassVars, WatchVars
<1>5. NoneReads'
  BY DEF ControlInvariant, TypeOK, NoneReads, RetiredStands, Gated, Writing, Phases, Stopped,
         SendControl, Return, Idle, PassVars, WatchVars
<1>6. PauseIsPersisted'
  BY DEF ControlInvariant, TypeOK, PauseIsPersisted, is_paused, InVerb, RegistryHeld,
         FlagIsOwn, RetiredStands, Controls, Suspensions, SendControl, Return, Idle, PassVars,
         WatchVars
<1> QED
  BY <1>1, <1>2, <1>3, <1>4, <1>5, <1>6 DEF ControlInvariant

LEMMA CancelPausedActionsKeeps ==
    ASSUME ControlInvariant, NEW c \in Callers, cancel_paused_actions(c)
    PROVE  ControlInvariant'
<1>1. TypeOK'
  BY DEF ControlInvariant, TypeOK, Controls, Suspensions, Verbs, Steps, cancel_paused_actions,
         Begin, Idle, CountCall, PassVars, WatchVars
<1>2. RegistryHeld'
  BY DEF ControlInvariant, TypeOK, RegistryHeld, cancel_paused_actions, Begin, Idle, CountCall,
         PassVars, WatchVars
<1>3. FlagIsOwn'
  BY DEF ControlInvariant, TypeOK, FlagIsOwn, RegistryHeld, Controls, Suspensions,
         cancel_paused_actions, Begin, Idle, CountCall, PassVars, WatchVars
<1>4. RetiredStands'
  BY DEF ControlInvariant, TypeOK, RetiredStands, RegistryHeld, FlagIsOwn, Suspensions,
         cancel_paused_actions, Begin, Idle, CountCall, PassVars, WatchVars
<1>5. NoneReads'
  BY DEF ControlInvariant, TypeOK, NoneReads, RetiredStands, Gated, Writing, Phases, Stopped,
         cancel_paused_actions, Begin, Idle, CountCall, PassVars, WatchVars
<1>6. PauseIsPersisted'
  BY DEF ControlInvariant, TypeOK, PauseIsPersisted, is_paused, InVerb, RegistryHeld,
         FlagIsOwn, RetiredStands, Controls, Suspensions, cancel_paused_actions, Begin, Idle,
         CountCall, PassVars, WatchVars
<1> QED
  BY <1>1, <1>2, <1>3, <1>4, <1>5, <1>6 DEF ControlInvariant

LEMMA ConvertPausedKeeps ==
    ASSUME ControlInvariant, NEW c \in Callers, ConvertPaused(c)
    PROVE  ControlInvariant'
<1>1. TypeOK'
  BY DEF ControlInvariant, TypeOK, Controls, Suspensions, Verbs, Steps, ConvertPaused,
         cancel_suspension, Return, Idle, PassVars, WatchVars
<1>2. RegistryHeld'
  BY DEF ControlInvariant, TypeOK, RegistryHeld, ConvertPaused, cancel_suspension, Return,
         Idle, PassVars, WatchVars
<1>3. FlagIsOwn'
  BY DEF ControlInvariant, TypeOK, FlagIsOwn, RegistryHeld, Controls, Suspensions,
         ConvertPaused, cancel_suspension, Return, Idle, PassVars, WatchVars
<1>4. RetiredStands'
  BY DEF ControlInvariant, TypeOK, RetiredStands, RegistryHeld, FlagIsOwn, Suspensions,
         ConvertPaused, cancel_suspension, Return, Idle, PassVars, WatchVars
<1>5. NoneReads'
  BY DEF ControlInvariant, TypeOK, NoneReads, RetiredStands, Gated, Writing, Phases, Stopped,
         ConvertPaused, cancel_suspension, Return, Idle, PassVars, WatchVars
<1>6. PauseIsPersisted'
  BY DEF ControlInvariant, TypeOK, PauseIsPersisted, is_paused, InVerb, RegistryHeld,
         FlagIsOwn, RetiredStands, Controls, Suspensions, ConvertPaused, cancel_suspension,
         Return, Idle, PassVars, WatchVars
<1> QED
  BY <1>1, <1>2, <1>3, <1>4, <1>5, <1>6 DEF ControlInvariant

LEMMA CancelPassInFlightKeeps ==
    ASSUME ControlInvariant, NEW c \in Callers, cancel_pass_in_flight(c)
    PROVE  ControlInvariant'
<1>1. TypeOK'
  BY DEF ControlInvariant, TypeOK, Controls, Suspensions, Verbs, Steps, cancel_pass_in_flight,
         Begin, Idle, CountCall, PassVars, WatchVars
<1>2. RegistryHeld'
  BY DEF ControlInvariant, TypeOK, RegistryHeld, cancel_pass_in_flight, Begin, Idle, CountCall,
         PassVars, WatchVars
<1>3. FlagIsOwn'
  BY DEF ControlInvariant, TypeOK, FlagIsOwn, RegistryHeld, Controls, Suspensions,
         cancel_pass_in_flight, Begin, Idle, CountCall, PassVars, WatchVars
<1>4. RetiredStands'
  BY DEF ControlInvariant, TypeOK, RetiredStands, RegistryHeld, FlagIsOwn, Suspensions,
         cancel_pass_in_flight, Begin, Idle, CountCall, PassVars, WatchVars
<1>5. NoneReads'
  BY DEF ControlInvariant, TypeOK, NoneReads, RetiredStands, Gated, Writing, Phases, Stopped,
         cancel_pass_in_flight, Begin, Idle, CountCall, PassVars, WatchVars
<1>6. PauseIsPersisted'
  BY DEF ControlInvariant, TypeOK, PauseIsPersisted, is_paused, InVerb, RegistryHeld,
         FlagIsOwn, RetiredStands, Controls, Suspensions, cancel_pass_in_flight, Begin, Idle,
         CountCall, PassVars, WatchVars
<1> QED
  BY <1>1, <1>2, <1>3, <1>4, <1>5, <1>6 DEF ControlInvariant

LEMMA GatesClosedKeeps ==
    ASSUME ControlInvariant, NEW c \in Callers, GatesClosed(c)
    PROVE  ControlInvariant'
<1>1. TypeOK'
  BY DEF ControlInvariant, TypeOK, Controls, Suspensions, Verbs, Steps, GatesClosed, Step,
         PassVars, WatchVars
<1>2. RegistryHeld'
  BY DEF ControlInvariant, TypeOK, RegistryHeld, GatesClosed, Step, PassVars, WatchVars
<1>3. FlagIsOwn'
  BY DEF ControlInvariant, TypeOK, FlagIsOwn, RegistryHeld, Controls, Suspensions, GatesClosed,
         Step, PassVars, WatchVars
<1>4. RetiredStands'
  BY DEF ControlInvariant, TypeOK, RetiredStands, RegistryHeld, FlagIsOwn, Suspensions,
         GatesClosed, Step, PassVars, WatchVars
<1>5. NoneReads'
  BY DEF ControlInvariant, TypeOK, NoneReads, RetiredStands, Gated, Writing, Phases, Stopped,
         GatesClosed, Step, PassVars, WatchVars
<1>6. PauseIsPersisted'
  BY DEF ControlInvariant, TypeOK, PauseIsPersisted, is_paused, InVerb, RegistryHeld,
         FlagIsOwn, RetiredStands, Controls, Suspensions, GatesClosed, Step, PassVars,
         WatchVars
<1> QED
  BY <1>1, <1>2, <1>3, <1>4, <1>5, <1>6 DEF ControlInvariant

LEMMA GraceExpiresKeeps ==
    ASSUME ControlInvariant, NEW c \in Callers, GraceExpires(c)
    PROVE  ControlInvariant'
<1>1. TypeOK'
  BY DEF ControlInvariant, TypeOK, Controls, Suspensions, Verbs, Steps, GraceExpires, Step,
         PassVars, WatchVars
<1>2. RegistryHeld'
  BY DEF ControlInvariant, TypeOK, RegistryHeld, GraceExpires, Step, PassVars, WatchVars
<1>3. FlagIsOwn'
  BY DEF ControlInvariant, TypeOK, FlagIsOwn, RegistryHeld, Controls, Suspensions,
         GraceExpires, Step, PassVars, WatchVars
<1>4. RetiredStands'
  BY DEF ControlInvariant, TypeOK, RetiredStands, RegistryHeld, FlagIsOwn, Suspensions,
         GraceExpires, Step, PassVars, WatchVars
<1>5. NoneReads'
  BY DEF ControlInvariant, TypeOK, NoneReads, RetiredStands, Gated, Writing, Phases, Stopped,
         GraceExpires, Step, PassVars, WatchVars
<1>6. PauseIsPersisted'
  BY DEF ControlInvariant, TypeOK, PauseIsPersisted, is_paused, InVerb, RegistryHeld,
         FlagIsOwn, RetiredStands, Controls, Suspensions, GraceExpires, Step, PassVars,
         WatchVars
<1> QED
  BY <1>1, <1>2, <1>3, <1>4, <1>5, <1>6 DEF ControlInvariant

LEMMA PairStoreKeeps ==
    ASSUME ControlInvariant, NEW c \in Callers, pair_store(c)
    PROVE  ControlInvariant'
<1>1. TypeOK'
  BY DEF ControlInvariant, TypeOK, Controls, Suspensions, Verbs, Steps, pair_store, Return,
         Step, Idle, PassVars, WatchVars
<1>2. RegistryHeld'
  BY DEF ControlInvariant, TypeOK, RegistryHeld, pair_store, Return, Step, Idle, PassVars,
         WatchVars
<1>3. FlagIsOwn'
  BY DEF ControlInvariant, TypeOK, FlagIsOwn, RegistryHeld, Controls, Suspensions, pair_store,
         Return, Step, Idle, PassVars, WatchVars
<1>4. RetiredStands'
  BY DEF ControlInvariant, TypeOK, RetiredStands, RegistryHeld, FlagIsOwn, Suspensions,
         pair_store, Return, Step, Idle, PassVars, WatchVars
<1>5. NoneReads'
  BY DEF ControlInvariant, TypeOK, NoneReads, RetiredStands, Gated, Writing, Phases, Stopped,
         pair_store, Return, Step, Idle, PassVars, WatchVars
<1>6. PauseIsPersisted'
  BY DEF ControlInvariant, TypeOK, PauseIsPersisted, is_paused, InVerb, RegistryHeld,
         FlagIsOwn, RetiredStands, Controls, Suspensions, pair_store, Return, Step, Idle,
         PassVars, WatchVars
<1> QED
  BY <1>1, <1>2, <1>3, <1>4, <1>5, <1>6 DEF ControlInvariant

LEMMA TellWatchKeeps ==
    ASSUME ControlInvariant, NEW c \in Callers, TellWatch(c)
    PROVE  ControlInvariant'
<1>1. TypeOK'
  BY DEF ControlInvariant, TypeOK, Controls, Suspensions, Verbs, Steps, TellWatch, Step,
         PassVars, WatchVars
<1>2. RegistryHeld'
  BY DEF ControlInvariant, TypeOK, RegistryHeld, TellWatch, Step, PassVars, WatchVars
<1>3. FlagIsOwn'
  BY DEF ControlInvariant, TypeOK, FlagIsOwn, RegistryHeld, Controls, Suspensions, TellWatch,
         Step, PassVars, WatchVars
<1>4. RetiredStands'
  BY DEF ControlInvariant, TypeOK, RetiredStands, RegistryHeld, FlagIsOwn, Suspensions,
         TellWatch, Step, PassVars, WatchVars
<1>5. NoneReads'
  BY DEF ControlInvariant, TypeOK, NoneReads, RetiredStands, Gated, Writing, Phases, Stopped,
         TellWatch, Step, PassVars, WatchVars
<1>6. PauseIsPersisted'
  BY DEF ControlInvariant, TypeOK, PauseIsPersisted, is_paused, InVerb, RegistryHeld,
         FlagIsOwn, RetiredStands, Controls, Suspensions, TellWatch, Step, PassVars, WatchVars
<1> QED
  BY <1>1, <1>2, <1>3, <1>4, <1>5, <1>6 DEF ControlInvariant

LEMMA DeletePairKeeps ==
    ASSUME ControlInvariant, NEW c \in Callers, DeletePair(c)
    PROVE  ControlInvariant'
<1>1. TypeOK'
  BY DEF ControlInvariant, TypeOK, Controls, Suspensions, Verbs, Steps, DeletePair, Return,
         Step, Idle, PassVars, WatchVars
<1>2. RegistryHeld'
  BY DEF ControlInvariant, TypeOK, RegistryHeld, DeletePair, Return, Step, Idle, PassVars,
         WatchVars
<1>3. FlagIsOwn'
  BY DEF ControlInvariant, TypeOK, FlagIsOwn, RegistryHeld, Controls, Suspensions, DeletePair,
         Return, Step, Idle, PassVars, WatchVars
<1>4. RetiredStands'
  BY DEF ControlInvariant, TypeOK, RetiredStands, RegistryHeld, FlagIsOwn, Suspensions,
         DeletePair, Return, Step, Idle, PassVars, WatchVars
<1>5. NoneReads'
  BY DEF ControlInvariant, TypeOK, NoneReads, RetiredStands, Gated, Writing, Phases, Stopped,
         DeletePair, Return, Step, Idle, PassVars, WatchVars
<1>6. PauseIsPersisted'
  BY DEF ControlInvariant, TypeOK, PauseIsPersisted, is_paused, InVerb, RegistryHeld,
         FlagIsOwn, RetiredStands, Controls, Suspensions, DeletePair, Return, Step, Idle,
         PassVars, WatchVars
<1> QED
  BY <1>1, <1>2, <1>3, <1>4, <1>5, <1>6 DEF ControlInvariant

LEMMA ForgetPairKeeps ==
    ASSUME ControlInvariant, NEW c \in Callers, ForgetPair(c)
    PROVE  ControlInvariant'
<1>1. TypeOK'
  BY DEF ControlInvariant, TypeOK, Controls, Suspensions, Verbs, Steps, ForgetPair, Return,
         Idle, PassVars, WatchVars
<1>2. RegistryHeld'
  BY DEF ControlInvariant, TypeOK, RegistryHeld, ForgetPair, Return, Idle, PassVars, WatchVars
<1>3. FlagIsOwn'
  BY DEF ControlInvariant, TypeOK, FlagIsOwn, RegistryHeld, Controls, Suspensions, ForgetPair,
         Return, Idle, PassVars, WatchVars
<1>4. RetiredStands'
  BY DEF ControlInvariant, TypeOK, RetiredStands, RegistryHeld, FlagIsOwn, Suspensions,
         ForgetPair, Return, Idle, PassVars, WatchVars
<1>5. NoneReads'
  BY DEF ControlInvariant, TypeOK, NoneReads, RetiredStands, Gated, Writing, Phases, Stopped,
         ForgetPair, Return, Idle, PassVars, WatchVars
<1>6. PauseIsPersisted'
  BY DEF ControlInvariant, TypeOK, PauseIsPersisted, is_paused, InVerb, RegistryHeld,
         FlagIsOwn, RetiredStands, Controls, Suspensions, ForgetPair, Return, Idle, PassVars,
         WatchVars
<1> QED
  BY <1>1, <1>2, <1>3, <1>4, <1>5, <1>6 DEF ControlInvariant

-----------------------------------------------------------------------------
(* A pass and the watch loop. *)

(* A step of a pass or of the loop that lets no pass through its gate and  *)
(* none on to its read                                                     *)
Moves ==
    /\ UNCHANGED ControlVars
    /\ pass' \in [Passes -> Phases] /\ left' \in [Passes -> 0..MAX_ACTIONS]
    /\ firing' \subseteq Passes /\ stop' \in BOOLEAN
    /\ loop' \in {"off", "top", "paused", "pass", "wait", "ended"}
    /\ \A p \in Passes :
         /\ pass'[p] \in Gated => pass[p] \in Gated
         /\ pass'[p] \in Writing \cup {"read"} => pass[p] \in Writing \cup {"read"}

LEMMA MoveKeeps ==
    ASSUME ControlInvariant, Moves
    PROVE  ControlInvariant'
<1>1. TypeOK'
  BY DEF ControlInvariant, TypeOK, Controls, Suspensions, Verbs, Steps, ControlVars, Moves
<1>2. RegistryHeld'
  BY DEF ControlInvariant, TypeOK, RegistryHeld, ControlVars, Moves
<1>3. FlagIsOwn'
  BY DEF ControlInvariant, TypeOK, FlagIsOwn, RegistryHeld, Controls, Suspensions, ControlVars,
         Moves
<1>4. RetiredStands'
  BY DEF ControlInvariant, TypeOK, RetiredStands, RegistryHeld, FlagIsOwn, Suspensions,
         ControlVars, Moves
<1>5. NoneReads'
  BY DEF ControlInvariant, TypeOK, NoneReads, RetiredStands, Stopped, ControlVars, Moves
<1>6. PauseIsPersisted'
  BY DEF ControlInvariant, TypeOK, PauseIsPersisted, is_paused, InVerb, RegistryHeld,
         FlagIsOwn, RetiredStands, Controls, Suspensions, ControlVars, Moves
<1> QED
  BY <1>1, <1>2, <1>3, <1>4, <1>5, <1>6 DEF ControlInvariant

LEMMA GotoMoves ==
    ASSUME TypeOK, NEW p \in Passes, NEW phase \in Phases, Goto(p, phase),
           UNCHANGED ControlVars, UNCHANGED WatchVars, firing' \subseteq Passes,
           left' \in [Passes -> 0..MAX_ACTIONS],
           phase \in Gated => pass[p] \in Gated,
           phase \in Writing \cup {"read"} => pass[p] \in Writing \cup {"read"}
    PROVE  Moves
  BY DEF Moves, TypeOK, Goto, WatchVars

LEMMA EndPassMoves ==
    ASSUME TypeOK, NEW p \in Passes, EndPass(p), UNCHANGED WatchVars,
           UNCHANGED ControlVars, firing' \subseteq Passes
    PROVE  Moves
  BY DEF Moves, TypeOK, EndPass, WatchVars, Phases, Gated, Writing

LEMMA ViewKeeps ==
    ASSUME ControlInvariant, NEW p \in Passes,
           IdlePass(p) \/ ViewConverges(p) \/ ViewGivenUp(p) \/ ViewFails(p)
    PROVE  ControlInvariant'
<1> TypeOK
  BY DEF ControlInvariant
<1>1. CASE IdlePass(p)
  <2>1. Moves
    BY <1>1, EndPassMoves DEF IdlePass, At, TypeOK
  <2> QED
    BY <2>1, MoveKeeps
<1>2. CASE ViewConverges(p)
  <2>1. Moves
    BY <1>2, GotoMoves DEF ViewConverges, At, TypeOK, Phases, Gated, Writing
  <2> QED
    BY <2>1, MoveKeeps
<1>3. CASE ViewGivenUp(p)
  <2>1. Moves
    BY <1>3, EndPassMoves DEF ViewGivenUp, At, TypeOK
  <2> QED
    BY <2>1, MoveKeeps
<1>4. CASE ViewFails(p)
  <2>1. Moves
    BY <1>4, EndPassMoves DEF ViewFails, At, TypeOK
  <2> QED
    BY <2>1, MoveKeeps
<1> QED
  BY <1>1, <1>2, <1>3, <1>4

LEMMA ReadKeeps ==
    ASSUME ControlInvariant, NEW p \in Passes,
           ReadEnds(p) \/ RecordRead(p)
    PROVE  ControlInvariant'
<1> TypeOK
  BY DEF ControlInvariant
<1>1. CASE ReadEnds(p)
  <2>1. Moves
    BY <1>1, GotoMoves, EndPassMoves DEF ReadEnds, At, TypeOK, Phases, Gated, Writing
  <2> QED
    BY <2>1, MoveKeeps
<1>2. CASE RecordRead(p)
  <2>1. Moves
    BY <1>2, GotoMoves, EndPassMoves DEF RecordRead, At, TypeOK, Phases, Gated, Writing
  <2> QED
    BY <2>1, MoveKeeps
<1> QED
  BY <1>1, <1>2

LEMMA StartKeeps ==
    ASSUME ControlInvariant, NEW p \in Passes,
           wait_to_start(p) \/ PlanDone(p) \/ Interrupted(p)
    PROVE  ControlInvariant'
<1> TypeOK
  BY DEF ControlInvariant
<1>1. CASE wait_to_start(p)
  <2>1. Moves
    BY <1>1, GotoMoves DEF wait_to_start, At, TypeOK, Phases, Gated, Writing
  <2> QED
    BY <2>1, MoveKeeps
<1>2. CASE PlanDone(p)
  <2>1. Moves
    BY <1>2, GotoMoves DEF PlanDone, At, TypeOK, Phases, Gated, Writing
  <2> QED
    BY <2>1, MoveKeeps
<1>3. CASE Interrupted(p)
  <2>1. Moves
    BY <1>3, GotoMoves DEF Interrupted, At, TypeOK, Phases, Gated, Writing
  <2> QED
    BY <2>1, MoveKeeps
<1> QED
  BY <1>1, <1>2, <1>3

LEMMA OpKeeps ==
    ASSUME ControlInvariant, NEW p \in Passes,
           LockAnswers(p) \/ OpEnds(p) \/ CommitRow(p) \/ TailEnds(p)
    PROVE  ControlInvariant'
<1> TypeOK
  BY DEF ControlInvariant
<1>1. CASE LockAnswers(p)
  <2>1. Moves
    BY <1>1, GotoMoves DEF LockAnswers, At, TypeOK, Phases, Gated, Writing
  <2> QED
    BY <2>1, MoveKeeps
<1>2. CASE OpEnds(p)
  <2>1. Moves
    BY <1>2, GotoMoves DEF OpEnds, At, TypeOK, Phases, Gated, Writing
  <2> QED
    BY <2>1, MoveKeeps
<1>3. CASE CommitRow(p)
  <2>1. Moves
    BY <1>3, GotoMoves DEF CommitRow, At, TypeOK, Phases, Gated, Writing
  <2> QED
    BY <2>1, MoveKeeps
<1>4. CASE TailEnds(p)
  <2>1. Moves
    BY <1>4, EndPassMoves DEF TailEnds, At, TypeOK
  <2> QED
    BY <2>1, MoveKeeps
<1> QED
  BY <1>1, <1>2, <1>3, <1>4

LEMMA GuardKeeps ==
    ASSUME ControlInvariant, NEW p \in Passes,
           guard(p) \/ TimerFires(p)
    PROVE  ControlInvariant'
<1> TypeOK
  BY DEF ControlInvariant
<1>1. CASE guard(p)
  <2>1. Moves
    BY <1>1, GotoMoves, EndPassMoves DEF guard, At, Guarded, TypeOK, Phases, Gated, Writing
  <2> QED
    BY <2>1, MoveKeeps
<1>2. CASE TimerFires(p)
  <2>1. Moves
    BY <1>2 DEF TimerFires, At, Moves, WatchVars, TypeOK
  <2> QED
    BY <2>1, MoveKeeps
<1> QED
  BY <1>1, <1>2

LEMMA LoopKeeps ==
    ASSUME ControlInvariant, 
           watchable_pair \/ StopWatch \/ wait_while_paused \/ PassReturns
             \/ wait_for_next_pass
    PROVE  ControlInvariant'
<1>1. TypeOK
  BY DEF ControlInvariant
<1>2. Moves
  BY <1>1
  DEF Moves, TypeOK, Passes, Phases, Gated, Writing, WatchVars, PassVars, watchable_pair,
      StopWatch, wait_while_paused, PassReturns, wait_for_next_pass
<1> QED
  BY <1>2, MoveKeeps

LEMMA LoopTopKeeps ==
    ASSUME ControlInvariant, LoopTop
    PROVE  ControlInvariant'
<1>1. TypeOK
  BY DEF ControlInvariant
<1>2. Moves
  BY <1>1 DEF Moves, TypeOK, Passes, Phases, Gated, Writing, WatchVars, PassVars, Goto, LoopTop
<1> QED
  BY <1>2, MoveKeeps

LEMMA StopWaitingKeeps ==
    ASSUME ControlInvariant, StopWaiting
    PROVE  ControlInvariant'
<1>1. Moves
  BY EndPassMoves DEF ControlInvariant, TypeOK, StopWaiting
<1> QED
  BY <1>1, MoveKeeps

LEMMA PassGateKeeps ==
    ASSUME ControlInvariant, NEW p \in Passes, pass_gate(p)
    PROVE  ControlInvariant'
<1>1. TypeOK'
  <2>1. pass' \in [Passes -> Phases] /\ left' \in [Passes -> 0..MAX_ACTIONS]
    BY DEF ControlInvariant, TypeOK, pass_gate, Goto, EndPass, Passes, Phases
  <2>2. mapped' \in BOOLEAN
    BY DEF ControlInvariant, TypeOK, pass_gate
  <2> QED
    BY <2>1, <2>2 DEF ControlInvariant, TypeOK, pass_gate, WatchVars
<1>2. RegistryHeld'
  BY DEF ControlInvariant, TypeOK, RegistryHeld, pass_gate, Goto, EndPass, At, WatchVars
<1>3. FlagIsOwn'
  BY DEF ControlInvariant, TypeOK, FlagIsOwn, RegistryHeld, Controls, Suspensions, pass_gate,
         Goto, EndPass, At, WatchVars
<1>4. RetiredStands'
  BY DEF ControlInvariant, TypeOK, RetiredStands, RegistryHeld, FlagIsOwn, Suspensions,
         pass_gate, Goto, EndPass, At, WatchVars, Passes, Phases, Gated
<1>5. NoneReads'
  BY DEF ControlInvariant, TypeOK, NoneReads, RetiredStands, Gated, Writing, Phases, Stopped,
         pass_gate, Goto, EndPass, At, WatchVars
<1>6. PauseIsPersisted'
  BY DEF ControlInvariant, TypeOK, PauseIsPersisted, is_paused, InVerb, RegistryHeld,
         FlagIsOwn, RetiredStands, Controls, Suspensions, pass_gate, Goto, EndPass, At,
         WatchVars
<1> QED
  BY <1>1, <1>2, <1>3, <1>4, <1>5, <1>6 DEF ControlInvariant

LEMMA ReadStartsKeeps ==
    ASSUME ControlInvariant, NEW p \in Passes, ReadStarts(p)
    PROVE  ControlInvariant'
<1>1. TypeOK'
  BY DEF ControlInvariant, TypeOK, Controls, Suspensions, Verbs, Steps, ReadStarts, Goto, At,
         WatchVars, ControlVars, Passes, Phases, Gated
<1>2. RegistryHeld'
  BY DEF ControlInvariant, TypeOK, RegistryHeld, ReadStarts, Goto, At, WatchVars, ControlVars
<1>3. FlagIsOwn'
  BY DEF ControlInvariant, TypeOK, FlagIsOwn, RegistryHeld, Controls, Suspensions, ReadStarts,
         Goto, At, WatchVars, ControlVars
<1>4. RetiredStands'
  BY DEF ControlInvariant, TypeOK, RetiredStands, RegistryHeld, FlagIsOwn, Suspensions,
         ReadStarts, Goto, At, WatchVars, ControlVars, Passes, Phases, Gated, Stopped
<1>5. NoneReads'
  BY DEF ControlInvariant, TypeOK, NoneReads, RetiredStands, Gated, Writing, Phases, Stopped,
         ReadStarts, Goto, At, WatchVars, ControlVars
<1>6. PauseIsPersisted'
  BY DEF ControlInvariant, TypeOK, PauseIsPersisted, is_paused, InVerb, RegistryHeld,
         FlagIsOwn, RetiredStands, Controls, Suspensions, ReadStarts, Goto, At, WatchVars,
         ControlVars
<1> QED
  BY <1>1, <1>2, <1>3, <1>4, <1>5, <1>6 DEF ControlInvariant

LEMMA OnceStartsKeeps ==
    ASSUME ControlInvariant, OnceStarts
    PROVE  ControlInvariant'
<1>1. TypeOK'
  BY DEF ControlInvariant, TypeOK, Controls, Suspensions, Verbs, Steps, OnceStarts, Goto,
         CountCall, WatchVars, Passes, Phases, Gated
<1>2. RegistryHeld'
  BY DEF ControlInvariant, TypeOK, RegistryHeld, OnceStarts, Goto, CountCall, WatchVars
<1>3. FlagIsOwn'
  BY DEF ControlInvariant, TypeOK, FlagIsOwn, RegistryHeld, Controls, Suspensions, OnceStarts,
         Goto, CountCall, WatchVars
<1>4. RetiredStands'
  BY DEF ControlInvariant, TypeOK, RetiredStands, RegistryHeld, FlagIsOwn, Suspensions,
         OnceStarts, Goto, CountCall, WatchVars, Passes, Phases, Gated
<1>5. NoneReads'
  BY DEF ControlInvariant, TypeOK, NoneReads, RetiredStands, Gated, Writing, Phases, Stopped,
         OnceStarts, Goto, CountCall, WatchVars
<1>6. PauseIsPersisted'
  BY DEF ControlInvariant, TypeOK, PauseIsPersisted, is_paused, InVerb, RegistryHeld,
         FlagIsOwn, RetiredStands, Controls, Suspensions, OnceStarts, Goto, CountCall,
         WatchVars
<1> QED
  BY <1>1, <1>2, <1>3, <1>4, <1>5, <1>6 DEF ControlInvariant

LEMMA EscalateKeeps ==
    ASSUME ControlInvariant, NEW p \in Passes, Escalate(p)
    PROVE  ControlInvariant'
<1>1. TypeOK'
  BY DEF ControlInvariant, TypeOK, Controls, Suspensions, Verbs, Steps, Escalate,
         cancel_suspension, WatchVars
<1>2. RegistryHeld'
  BY DEF ControlInvariant, TypeOK, RegistryHeld, Escalate, cancel_suspension, WatchVars
<1>3. FlagIsOwn'
  BY DEF ControlInvariant, TypeOK, FlagIsOwn, RegistryHeld, Controls, Suspensions, Escalate,
         cancel_suspension, WatchVars
<1>4. RetiredStands'
  BY DEF ControlInvariant, TypeOK, RetiredStands, RegistryHeld, FlagIsOwn, Suspensions,
         Escalate, cancel_suspension, WatchVars
<1>5. NoneReads'
  BY DEF ControlInvariant, TypeOK, NoneReads, RetiredStands, Gated, Writing, Phases, Stopped,
         Escalate, cancel_suspension, WatchVars
<1>6. PauseIsPersisted'
  BY DEF ControlInvariant, TypeOK, PauseIsPersisted, is_paused, InVerb, RegistryHeld,
         FlagIsOwn, RetiredStands, Controls, Suspensions, Escalate, cancel_suspension,
         WatchVars
<1> QED
  BY <1>1, <1>2, <1>3, <1>4, <1>5, <1>6 DEF ControlInvariant

LEMMA CutSuspensionKeeps ==
    ASSUME ControlInvariant, CutSuspension
    PROVE  ControlInvariant'
<1>1. TypeOK'
  BY DEF ControlInvariant, TypeOK, Controls, Suspensions, Verbs, Steps, CutSuspension,
         cancel_suspension, WatchVars, PassVars
<1>2. RegistryHeld'
  BY DEF ControlInvariant, TypeOK, RegistryHeld, CutSuspension, cancel_suspension, WatchVars,
         PassVars
<1>3. FlagIsOwn'
  BY DEF ControlInvariant, TypeOK, FlagIsOwn, RegistryHeld, Controls, Suspensions,
         CutSuspension, cancel_suspension, WatchVars, PassVars
<1>4. RetiredStands'
  BY DEF ControlInvariant, TypeOK, RetiredStands, RegistryHeld, FlagIsOwn, Suspensions,
         CutSuspension, cancel_suspension, WatchVars, PassVars
<1>5. NoneReads'
  BY DEF ControlInvariant, TypeOK, NoneReads, RetiredStands, Gated, Writing, Phases, Stopped,
         CutSuspension, cancel_suspension, WatchVars, PassVars
<1>6. PauseIsPersisted'
  BY DEF ControlInvariant, TypeOK, PauseIsPersisted, is_paused, InVerb, RegistryHeld,
         FlagIsOwn, RetiredStands, Controls, Suspensions, CutSuspension, cancel_suspension,
         WatchVars, PassVars
<1> QED
  BY <1>1, <1>2, <1>3, <1>4, <1>5, <1>6 DEF ControlInvariant

LEMMA ReopenKeeps ==
    ASSUME ControlInvariant, Reopen
    PROVE  ControlInvariant'
<1>1. TypeOK'
  <2>1. mapped' \in BOOLEAN /\ chan' \in Controls
    BY DEF Reopen, Controls, Suspensions
  <2>2. call' \in [Callers -> [verb : Verbs, at : Steps]]
    BY DEF Reopen, Idle, Verbs, Steps
  <2>3. /\ pass' \in [Passes -> Phases] /\ left' \in [Passes -> 0..MAX_ACTIONS]
        /\ firing' \subseteq Passes
    BY DEF Reopen, Phases
  <2>4. used' \in 0..MAX_CALLS
    BY DEF ControlInvariant, TypeOK, Reopen, CountCall
  <2> QED
    BY <2>1, <2>2, <2>3, <2>4 DEF ControlInvariant, TypeOK, Reopen
<1>2. RegistryHeld'
  BY DEF ControlInvariant, TypeOK, RegistryHeld, Reopen, Idle, CountCall
<1>3. FlagIsOwn'
  BY DEF ControlInvariant, TypeOK, FlagIsOwn, RegistryHeld, Controls, Suspensions, Reopen,
         Idle, CountCall
<1>4. RetiredStands'
  BY DEF ControlInvariant, TypeOK, RetiredStands, RegistryHeld, FlagIsOwn, Suspensions, Reopen,
         Idle, CountCall, Passes, Phases, Gated
<1>5. NoneReads'
  BY DEF ControlInvariant, TypeOK, NoneReads, RetiredStands, Gated, Writing, Phases, Stopped,
         Reopen, Idle, CountCall
<1>6. PauseIsPersisted'
  BY DEF ControlInvariant, TypeOK, PauseIsPersisted, is_paused, InVerb, RegistryHeld,
         FlagIsOwn, RetiredStands, Controls, Suspensions, Reopen, Idle, CountCall
<1> QED
  BY <1>1, <1>2, <1>3, <1>4, <1>5, <1>6 DEF ControlInvariant

-----------------------------------------------------------------------------

LEMMA InitControls == Init => ControlInvariant
<1> SUFFICES ASSUME Init PROVE ControlInvariant
  OBVIOUS
<1>1. TypeOK
  <2>1. call \in [Callers -> [verb : Verbs, at : Steps]]
    BY DEF Init, Idle, Verbs, Steps
  <2>2. /\ pass \in [Passes -> Phases] /\ left \in [Passes -> 0..MAX_ACTIONS]
        /\ firing \subseteq Passes
    BY DEF Init, Phases
  <2>3. chan \in Controls
    BY DEF Init, Controls
  <2>4. mapped \in BOOLEAN /\ stop \in BOOLEAN /\ removed \in BOOLEAN
    BY DEF Init
  <2>5. grace \in 0..MAX_GRACES /\ used \in 0..MAX_CALLS
    BY DEF Init
  <2>6. /\ row \in {"none", "on", "paused"} /\ reg \in Callers \cup {"free"}
        /\ loop \in {"off", "top", "paused", "pass", "wait", "ended"}
    BY DEF Init
  <2> QED
    BY <2>1, <2>2, <2>3, <2>4, <2>5, <2>6 DEF TypeOK
<1>2. RegistryHeld /\ FlagIsOwn /\ RetiredStands
  BY DEF Init, RegistryHeld, FlagIsOwn, RetiredStands, Idle
<1>3. NoneReads /\ PauseIsPersisted
  BY DEF Init, NoneReads, PauseIsPersisted, is_paused, Idle
<1> QED
  BY <1>1, <1>2, <1>3 DEF ControlInvariant

LEMMA NextControls == ControlInvariant /\ [Next]_vars => ControlInvariant'
<1> SUFFICES ASSUME ControlInvariant, [Next]_vars
             PROVE  ControlInvariant'
  OBVIOUS
<1>1. CASE UNCHANGED vars
  <2>1. Moves
    BY <1>1 DEF Moves, vars, ControlVars, ControlInvariant, TypeOK
  <2> QED
    BY <2>1, MoveKeeps
<1>2. ASSUME NEW c \in Callers, VerbBegins(c)
      PROVE  ControlInvariant'
  <2>1. \A control \in Suspensions \cup {"Cancelled", "Run"} : control \in Controls \ {"Retired"}
    BY DEF Suspensions, Controls
  <2> QED
    BY <1>2, <2>1, SetControlKeeps, CancelPausedActionsKeeps, CancelPassInFlightKeeps,
       GraceExpiresKeeps
    DEF VerbBegins, pause_pair_with, resume_pair
<1>3. ASSUME NEW c \in Callers, VerbStep(c)
      PROVE  ControlInvariant'
  BY <1>3, PersistFlagKeeps, SendControlKeeps, ConvertPausedKeeps, GatesClosedKeeps,
     PairStoreKeeps, TellWatchKeeps, DeletePairKeeps, ForgetPairKeeps
  DEF VerbStep
<1>4. ASSUME NEW p \in Passes, PassStep(p)
      PROVE  ControlInvariant'
  BY <1>4, PassGateKeeps, ReadStartsKeeps, ReadKeeps, StartKeeps, OpKeeps, ViewKeeps, GuardKeeps,
     EscalateKeeps
  DEF PassStep
<1>5. ASSUME NEW p \in Passes,
             TimerFires(p) \/ IdlePass(p) \/ ViewConverges(p) \/ ViewFails(p)
      PROVE  ControlInvariant'
  BY <1>5, GuardKeeps, ViewKeeps
<1>6. CASE OnceStarts \/ watchable_pair \/ StopWatch \/ LoopStep \/ Unpark \/ Reopen
  BY <1>6, OnceStartsKeeps, LoopKeeps, LoopTopKeeps, StopWaitingKeeps,
     CutSuspensionKeeps, ReopenKeeps
  DEF LoopStep, Unpark
<1> QED
  BY <1>1, <1>2, <1>3, <1>4, <1>5, <1>6 DEF Next

(* The paused flag of the database and the channel a pass obeys agree,      *)
(* whichever verbs, removals, stops, timers and restarts interleave         *)
(* (set_control, send_control, remove_pair, open)                           *)
THEOREM ControlIsConsistent == Spec => []ControlInvariant
  BY InitControls, NextControls, PTL DEF Spec

(* Once a pair's row is deleted no pass of it is past its read, unless the  *)
(* removal gave up waiting for it: also the pass that takes its gate after  *)
(* the removal saw them closed never reads (remove_pair, pass_gate, guard)  *)
THEOREM RemovalStopsPasses == Spec => []NothingAfterRemoval
<1>1. ControlInvariant => NothingAfterRemoval
  BY DEF ControlInvariant, NoneReads, NothingAfterRemoval
<1> QED
  BY <1>1, ControlIsConsistent, PTL

-----------------------------------------------------------------------------
(* A pass over one file. *)

LEMMA NoPassIs ==
    /\ DOMAIN NoPass = {"pc", "scan", "complete", "heard", "view", "base", "trusted", "got",
                        "stashed"}
    /\ NoPass.pc = "idle" /\ NoPass.stashed = Nothing
  BY DEF NoPass

(* No pass, and nobody but the users has touched the file *)
LEMMA IdleKeeps ==
    ASSUME work' = NoPass PROVE PassInvariant'
<1>1. work'.pc = "idle" /\ work'.stashed = Nothing
  BY NoPassIs
<1> QED
  BY <1>1 DEF PassInvariant, RowIsPlanned, Acting, DeletionsAreGuarded, DownloadsAreVouched

LEMMA SyncInitKeeps == SyncInit => PassInvariant
  BY NoPassIs DEF SyncInit, PassInvariant, RowIsPlanned, Acting, DeletionsAreGuarded,
     DownloadsAreVouched

(* The record of the files made under a download has its place and only grows *)
RacedIsKept == "raced" \in DOMAIN ghost

LEMMA RacedGrows ==
    ASSUME RacedIsKept, [SyncNext]_syncVars
    PROVE  RacedIsKept' /\ ghost.raced \subseteq ghost'.raced
<1>1. CASE LocalEdit
  BY <1>1 DEF LocalEdit, RacedIsKept
<1>2. CASE LocalDelete \/ OtherEdit \/ OtherDelete
  BY <1>2 DEF LocalDelete, OtherEdit, OtherDelete, RacedIsKept
<1>3. CASE resolve_conflict
  <2>1. DOMAIN ghost' = DOMAIN ghost /\ ghost'.raced = ghost.raced
    BY <1>3 DEF resolve_conflict, ResolveConflicted, ResolveOverwritten, RacedIsKept
  <2> QED
    BY <2>1 DEF RacedIsKept
<1>4. CASE CacheStep \/ CacheResync \/ TenurePasses \/ expire
  BY <1>4 DEF CacheStep, CacheResync, CacheAnnounces, TenurePasses, expire, RacedIsKept
<1>5. CASE Crash \/ CutOff
  BY <1>5 DEF Crash, CutOff, CutShort, RacedIsKept
<1>6. CASE UploadRecorded \/ DownloadLands
  BY <1>6 DEF UploadRecorded, DownloadLands, RacedIsKept
<1>7. CASE UNCHANGED ghost
  BY <1>7 DEF RacedIsKept
<1> QED
  BY <1>1, <1>2, <1>3, <1>4, <1>5, <1>6, <1>7
  DEF SyncNext, Users, Surroundings, FileStep, syncVars, ReadLocal, PlanPass, UploadLands,
      TrashLands, commit_trash, DeleteLocal, delete_baseline, stash_local_target,
      DownloadStarts, upsert_file_baseline, AdoptBaseline

(* Steps of others leave the pass and its row alone, and what they put in    *)
(* the way of a download is recorded                                         *)
LEMMA OthersKeep ==
    ASSUME PassInvariant, UNCHANGED <<work, entry>>, bin \subseteq bin',
           ghost.raced \subseteq ghost'.raced,
           disk' \in {disk, Nothing} \cup ghost'.raced \/ ~InFetchWindow
    PROVE  PassInvariant'
<1>1. RowIsPlanned' /\ DeletionsAreGuarded'
  BY DEF PassInvariant, RowIsPlanned, Acting, DeletionsAreGuarded
<1>2. work'.stashed # Nothing =>
        work'.pc \in {"stashed", "fetching", "downloaded"} /\ work'.stashed \in bin'
  BY DEF PassInvariant, DownloadsAreVouched
<1>3. ASSUME work'.pc = "stashed"
      PROVE  disk' = Nothing \/ Vouched(disk)' \/ disk' \in ghost'.raced
  BY <1>3 DEF PassInvariant, DownloadsAreVouched, InFetchWindow, Vouched
<1>4. ASSUME work'.pc = "fetching"
      PROVE  IF work'.got = Nothing THEN disk' \in {Nothing} \cup ghost'.raced
             ELSE Vouched(work.got)' \/ work'.got \in ghost'.raced
  BY <1>4 DEF PassInvariant, DownloadsAreVouched, InFetchWindow, Vouched
<1> QED
  BY <1>1, <1>2, <1>3, <1>4 DEF PassInvariant, DownloadsAreVouched

LEMMA UsersKeep ==
    ASSUME PassInvariant, RacedIsKept, ghost.raced \subseteq ghost'.raced,
           LocalEdit \/ LocalDelete \/ OtherEdit \/ OtherDelete
    PROVE  PassInvariant'
<1>1. UNCHANGED <<work, entry, bin>>
  BY DEF LocalEdit, LocalDelete, OtherEdit, OtherDelete
<1>2. disk' \in {disk, Nothing} \cup ghost'.raced \/ ~InFetchWindow
  BY DEF LocalEdit, LocalDelete, OtherEdit, OtherDelete, RacedIsKept
<1> QED
  BY <1>1, <1>2, OthersKeep

LEMMA SurroundingsKeep ==
    ASSUME PassInvariant, ghost.raced \subseteq ghost'.raced, Surroundings
    PROVE  PassInvariant'
<1>1. CASE Crash
  BY <1>1, IdleKeeps DEF Crash
<1>2. CASE CacheStep \/ CacheResync \/ TenurePasses \/ expire
  <2>1. UNCHANGED <<work, entry, bin, disk>>
    BY <1>2 DEF CacheStep, CacheResync, CacheAnnounces, TenurePasses, expire
  <2> QED
    BY <2>1, OthersKeep
<1> QED
  BY <1>1, <1>2 DEF Surroundings

(* A conflict is resolved only at a path that no pass is about to change *)
LEMMA ResolveKeeps ==
    ASSUME PassInvariant, resolve_conflict
    PROVE  PassInvariant'
<1>1. entry.state \in {"Conflicted", "Overwritten"} /\ work.pc # "scanned" /\ UNCHANGED work
  BY DEF resolve_conflict, ResolveConflicted, ResolveOverwritten
<1>2. work.pc = "idle"
  BY <1>1 DEF PassInvariant, RowIsPlanned, Acting
<1> QED
  BY <1>1, <1>2 DEF PassInvariant, RowIsPlanned, Acting, DeletionsAreGuarded,
     DownloadsAreVouched

-----------------------------------------------------------------------------
(* What is decided, and from what. *)

(* A local file counts as changed if the row has another, and its absence if *)
(* the row has one                                                           *)
LEMMA LocalSideIs ==
    ASSUME NEW local, NEW base
    PROVE  /\ changed(classify_local(local, base)) /\ local = Nothing => base # NoRow
           /\ ~changed(classify_local(local, base)) /\ local # Nothing =>
                base # NoRow /\ local = base.content
<1>1. CASE local = Nothing /\ base = NoRow
  <2>1. classify_local(local, base) = "Absent"
    BY <1>1 DEF classify_local
  <2> QED
    BY <1>1, <2>1 DEF changed
<1>2. CASE local # Nothing /\ base = NoRow
  <2>1. classify_local(local, base) = "Created"
    BY <1>2 DEF classify_local
  <2> QED
    BY <1>2, <2>1 DEF changed
<1>3. CASE local # Nothing /\ base # NoRow /\ local # base.content
  <2>1. classify_local(local, base) = "Modified"
    BY <1>3 DEF classify_local
  <2> QED
    BY <1>3, <2>1 DEF changed
<1> QED
  BY <1>1, <1>2, <1>3

LEMMA DecisionIs ==
    ASSUME NEW local, NEW node, NEW base, NEW trashed, NEW action,
           action = finish_plan(decide_path(local, node, base), node, trashed),
           action \notin {"none", "conflict"}
    PROVE  /\ action \in {"upload", "trash", "delete", "download", "adopt"}
           /\ base.state \notin {"Conflicted", "Overwritten"}
           /\ action = "trash" => local = Nothing /\ base # NoRow
           /\ action = "delete" => local # Nothing /\ local = base.content /\ base # NoRow
<1>1. /\ base.state \notin {"Conflicted", "Overwritten"}
      /\ action = reconcile_two_way(local, node, base)
  BY DEF finish_plan, decide_path
<1> DEFINE here == changed(classify_local(local, base))
           there == changed(classify_remote(node, base))
<1>2. \/ here /\ ~there /\ action = push_to_remote(local, node)
      \/ ~here /\ there /\ action = pull_to_local(local, node)
      \/ action = "adopt"
  BY <1>1 DEF reconcile_two_way
<1>3. CASE here /\ ~there /\ action = push_to_remote(local, node)
  <2>1. action \in {"trash", "upload", "adopt"} /\ (action = "trash" => local = Nothing)
    BY <1>3 DEF push_to_remote
  <2>2. local = Nothing => base # NoRow
    BY <1>3, LocalSideIs
  <2> QED
    BY <1>1, <2>1, <2>2
<1>4. CASE ~here /\ there /\ action = pull_to_local(local, node)
  <2>1. /\ action \in {"delete", "download", "adopt"}
        /\ action = "delete" => local # Nothing
    BY <1>4 DEF pull_to_local
  <2>2. local # Nothing => base # NoRow /\ local = base.content
    BY <1>4, LocalSideIs
  <2> QED
    BY <1>1, <2>1, <2>2
<1> QED
  BY <1>1, <1>2, <1>3, <1>4

LEMMA GuardIs ==
    ASSUME NEW complete \in BOOLEAN, NEW emptied \in BOOLEAN, ~held_by_guard(complete, emptied)
    PROVE  complete /\ ~emptied
  BY SyncAssumption DEF held_by_guard

LEMMA PlanKeeps ==
    ASSUME PassInvariant, PlanPass
    PROVE  PassInvariant'
<1> PICK emptied \in BOOLEAN, answered \in BOOLEAN : Plans(emptied, answered)
  BY DEF PlanPass
<1> DEFINE raw == IF emptied THEN NoNode ELSE NodeAt(pos)
           base == confirm(entry, raw, answered)
           settled == settle(work.heard, raw)
           writes == retire_superseded_creates(settled, base, raw, answered)
           node == fold_into(writes, base, raw)
           trashed == {w.uuid : w \in {v \in ToSet(settled) : v.kind = "Trashed"}}
           action == finish_plan(decide_path(work.scan, node, base), node, trashed)
<1>1. CASE work' = NoPass
  BY <1>1, IdleKeeps
<1>2. CASE work' # NoPass
  <2>1. /\ action \notin {"none", "conflict"} /\ entry' = base
        /\ work' = [work EXCEPT !.pc = action, !.view = node, !.base = base, !.heard = {},
                                !.trusted = work.complete /\ ~emptied]
        /\ action \in {"trash", "delete"} => ~held_by_guard(work.complete, emptied)
    BY <1>2 DEF Plans
  <2> HIDE DEF base, node, trashed
  <2>2. /\ action \in {"upload", "trash", "delete", "download", "adopt"}
        /\ base.state \notin {"Conflicted", "Overwritten"}
        /\ action = "trash" => work.scan = Nothing /\ base # NoRow
        /\ action = "delete" => work.scan # Nothing /\ work.scan = base.content /\ base # NoRow
    BY <2>1, DecisionIs
  <2> HIDE DEF action
  <2>3. action \in {"trash", "delete"} => work.complete /\ ~emptied
    BY <2>1, GuardIs DEF held_by_guard
  <2>4. /\ DOMAIN work' = DOMAIN NoPass /\ work'.pc = action /\ work'.base = base
        /\ work'.scan = work.scan /\ work'.complete = work.complete
        /\ work'.trusted = (work.complete /\ ~emptied) /\ work'.stashed = work.stashed
    BY <2>1, NoPassIs DEF PassInvariant, RowIsPlanned
  <2>5. work.stashed = Nothing
    BY DEF PlanPass, PassInvariant, DownloadsAreVouched
  <2> QED
    BY <2>1, <2>2, <2>3, <2>4, <2>5
    DEF PassInvariant, RowIsPlanned, Acting, DeletionsAreGuarded, DownloadsAreVouched
<1> QED
  BY <1>1, <1>2

-----------------------------------------------------------------------------
(* A pass reads and applies. *)

LEMMA ReadLocalKeeps ==
    ASSUME PassInvariant, ReadLocal
    PROVE  PassInvariant'
<1>1. DOMAIN work' = DOMAIN NoPass /\ work'.pc = "scanned" /\ work'.stashed = Nothing
  BY NoPassIs DEF ReadLocal, NoPass
<1> QED
  BY <1>1 DEF PassInvariant, RowIsPlanned, Acting, DeletionsAreGuarded, DownloadsAreVouched

(* A step that records the outcome, or gives the pass up *)
LEMMA EndsKeep ==
    ASSUME UploadRecorded \/ commit_trash \/ delete_baseline \/ upsert_file_baseline
             \/ AdoptBaseline \/ CutOff
    PROVE  PassInvariant'
  BY IdleKeeps DEF UploadRecorded, commit_trash, delete_baseline, upsert_file_baseline,
     AdoptBaseline, CutOff

LEMMA UploadKeeps ==
    ASSUME PassInvariant, UploadLands
    PROVE  PassInvariant'
<1>1. CASE work' = NoPass
  BY <1>1, IdleKeeps
<1>2. CASE work' = [work EXCEPT !.pc = "uploaded", !.got = Newest + 1]
  <2>1. /\ DOMAIN work' = DOMAIN NoPass /\ work'.pc = "uploaded" /\ work'.base = work.base
        /\ work'.stashed = work.stashed /\ UNCHANGED entry
    BY <1>2, NoPassIs DEF PassInvariant, RowIsPlanned, UploadLands
  <2> QED
    BY <2>1 DEF UploadLands, PassInvariant, RowIsPlanned, Acting, DeletionsAreGuarded,
       DownloadsAreVouched
<1> QED
  BY <1>1, <1>2 DEF UploadLands

LEMMA DeletionsKeep ==
    ASSUME PassInvariant, TrashLands \/ DeleteLocal
    PROVE  PassInvariant'
<1>1. /\ UNCHANGED entry
      /\ \/ work.pc = "trash" /\ work' = [work EXCEPT !.pc = "trashed"]
         \/ work.pc = "delete" /\ work' = [work EXCEPT !.pc = "deleted"]
  BY DEF TrashLands, DeleteLocal
<1>2. /\ DOMAIN work' = DOMAIN NoPass /\ work'.base = work.base /\ work'.scan = work.scan
      /\ work'.complete = work.complete /\ work'.trusted = work.trusted
      /\ work'.stashed = work.stashed
      /\ \/ work.pc = "trash" /\ work'.pc = "trashed"
         \/ work.pc = "delete" /\ work'.pc = "deleted"
  BY <1>1, NoPassIs DEF PassInvariant, RowIsPlanned
<1> QED
  BY <1>1, <1>2 DEF PassInvariant, RowIsPlanned, Acting, DeletionsAreGuarded,
     DownloadsAreVouched

(* What is in the way of a download goes to the bin unless the row vouches for it *)
LEMMA StashKeeps ==
    ASSUME PassInvariant, stash_local_target
    PROVE  PassInvariant'
<1>1. CASE /\ disk # Nothing /\ (work.base = NoRow \/ disk # work.base.content)
           /\ bin' = bin \cup {disk} /\ disk' = Nothing
           /\ work' = [work EXCEPT !.pc = "stashed", !.stashed = disk]
  <2>1. /\ DOMAIN work' = DOMAIN NoPass /\ work'.pc = "stashed" /\ work'.base = work.base
        /\ work'.stashed = disk
    BY <1>1, NoPassIs DEF PassInvariant, RowIsPlanned
  <2> QED
    BY <1>1, <2>1 DEF stash_local_target, PassInvariant, RowIsPlanned, Acting,
       DeletionsAreGuarded, DownloadsAreVouched
<1>2. CASE /\ ~(disk # Nothing /\ (work.base = NoRow \/ disk # work.base.content))
           /\ work' = [work EXCEPT !.pc = "stashed"] /\ UNCHANGED <<disk, bin>>
  <2>1. /\ DOMAIN work' = DOMAIN NoPass /\ work'.pc = "stashed" /\ work'.base = work.base
        /\ work'.stashed = work.stashed /\ UNCHANGED entry
    BY <1>2, NoPassIs DEF PassInvariant, RowIsPlanned, stash_local_target
  <2>2. disk' = Nothing \/ Vouched(disk)'
    BY <1>2, <2>1 DEF Vouched
  <2>3. work.stashed = Nothing
    BY DEF PassInvariant, DownloadsAreVouched, stash_local_target
  <2> QED
    BY <1>2, <2>1, <2>2, <2>3 DEF stash_local_target, PassInvariant, RowIsPlanned, Acting,
       DeletionsAreGuarded, DownloadsAreVouched
<1> QED
  BY <1>1, <1>2 DEF stash_local_target

LEMMA DownloadKeeps ==
    ASSUME PassInvariant, DownloadStarts \/ DownloadLands
    PROVE  PassInvariant'
<1>1. CASE work' = NoPass
  BY <1>1, IdleKeeps
<1>2. CASE /\ work.pc \in {"stashed", "fetching"} /\ work' = [work EXCEPT !.pc = "downloaded"]
           /\ UNCHANGED <<entry, bin>>
  <2>1. /\ DOMAIN work' = DOMAIN NoPass /\ work'.pc = "downloaded" /\ work'.base = work.base
        /\ work'.stashed = work.stashed
    BY <1>2, NoPassIs DEF PassInvariant, RowIsPlanned
  <2> QED
    BY <1>2, <2>1 DEF PassInvariant, RowIsPlanned, Acting, DeletionsAreGuarded,
       DownloadsAreVouched
<1>3. CASE /\ work.pc = "stashed" /\ work' = [work EXCEPT !.pc = "fetching", !.got = disk]
           /\ UNCHANGED <<entry, disk, bin, ghost>>
  <2>1. /\ DOMAIN work' = DOMAIN NoPass /\ work'.pc = "fetching" /\ work'.base = work.base
        /\ work'.got = disk /\ work'.stashed = work.stashed
    BY <1>3, NoPassIs DEF PassInvariant, RowIsPlanned
  <2> QED
    BY <1>3, <2>1 DEF PassInvariant, RowIsPlanned, Acting, DeletionsAreGuarded,
       DownloadsAreVouched, Vouched
<1> QED
  BY <1>1, <1>2, <1>3 DEF DownloadStarts, DownloadLands

LEMMA SyncNextKeeps ==
    ASSUME PassInvariant, RacedIsKept, [SyncNext]_syncVars
    PROVE  PassInvariant' /\ RacedIsKept'
<1>0. RacedIsKept' /\ ghost.raced \subseteq ghost'.raced
  BY RacedGrows
<1>1. CASE UNCHANGED syncVars
  BY <1>0, <1>1, OthersKeep DEF syncVars
<1>2. CASE Users
  BY <1>0, <1>2, UsersKeep, ResolveKeeps DEF Users
<1>3. CASE Surroundings
  BY <1>0, <1>3, SurroundingsKeep
<1>4. CASE FileStep \/ CutOff
  <2>1. PassInvariant'
    BY <1>4, ReadLocalKeeps, PlanKeeps, EndsKeep, UploadKeeps, DeletionsKeep, StashKeeps,
       DownloadKeeps DEF FileStep
  <2> QED
    BY <1>0, <2>1
<1> QED
  BY <1>0, <1>1, <1>2, <1>3, <1>4 DEF SyncNext

LEMMA PassesAndRaces == SyncSpec => [](PassInvariant /\ RacedIsKept)
<1>1. SyncInit => PassInvariant /\ RacedIsKept
  BY SyncInitKeeps DEF SyncInit, RacedIsKept
<1>2. PassInvariant /\ RacedIsKept /\ [SyncNext]_syncVars => (PassInvariant /\ RacedIsKept)'
  BY SyncNextKeeps
<1> QED
  BY <1>1, <1>2, PTL DEF SyncSpec

(* What a pass goes by, for any number of edits, faults and races: the row it *)
(* applies is the one it was planned from and is in no conflict, a deletion   *)
(* goes by a whole scan and a listing that was not emptied, and a download    *)
(* writes over nothing the row does not vouch for but files the users made    *)
(* after its look (prepare_whole, guard::reason_for, stash_local_target)      *)
THEOREM PassesGoByTheirPlan == SyncSpec => []PassInvariant
  BY PassesAndRaces, PTL

LEMMA LocalStep == ASSUME PassInvariant, SyncNext, ~(LocalEdit \/ LocalDelete)
                   PROVE  /\ disk \in {disk', Nothing} \cup bin' \cup ghost.raced \/ Vouched(disk)
                          /\ bin \subseteq bin' \cup {disk'}
<1>1. CASE OtherEdit \/ OtherDelete \/ Surroundings
  BY <1>1 DEF OtherEdit, OtherDelete, Surroundings, CacheStep, CacheResync, CacheAnnounces,
     TenurePasses, expire, Crash
<1>2. CASE resolve_conflict
  BY <1>2 DEF resolve_conflict, ResolveConflicted, ResolveOverwritten
<1>3. CASE CutOff
  BY <1>3 DEF CutOff, restore_stashed
<1>4. CASE DownloadLands
  <2>1. CASE restore_stashed
    BY <2>1 DEF restore_stashed
  <2>2. CASE (work.got = Nothing \/ disk = work.got) /\ UNCHANGED bin
    BY <1>4, <2>2 DEF DownloadLands, PassInvariant, DownloadsAreVouched
  <2> QED
    BY <1>4, <2>1, <2>2 DEF DownloadLands
<1>5. CASE stash_local_target \/ DeleteLocal
  BY <1>5 DEF stash_local_target, DeleteLocal
<1>6. CASE \/ ReadLocal \/ PlanPass \/ UploadLands \/ UploadRecorded \/ TrashLands
           \/ commit_trash \/ delete_baseline \/ DownloadStarts \/ upsert_file_baseline
           \/ AdoptBaseline
  BY <1>6 DEF ReadLocal, PlanPass, UploadLands, UploadRecorded, TrashLands, commit_trash,
     delete_baseline, DownloadStarts, upsert_file_baseline, AdoptBaseline
<1> QED
  BY <1>1, <1>2, <1>3, <1>4, <1>5, <1>6 DEF SyncNext, Users, FileStep

(* What the engine takes off the disk, by a download, a deletion, a           *)
(* resolution or the end of a pass cut short, is in the bin, or is what the   *)
(* row vouches for, or a file the user made after the look of a download      *)
(* (apply_transfer, stash_local_target, restore_stashed, resolve_conflict)    *)
THEOREM LocalContentIsKept == SyncSpec => LocalIsKept
<1> DEFINE A == ~(LocalEdit \/ LocalDelete) =>
                  /\ disk \in {disk', Nothing} \cup bin' \cup ghost.raced \/ Vouched(disk)
                  /\ bin \subseteq bin' \cup {disk'}
<1>1. PassInvariant /\ [SyncNext]_syncVars => [A]_syncVars
  BY LocalStep
<1>2. SyncSpec => [][A]_syncVars
  BY <1>1, PassesGoByTheirPlan, PTL DEF SyncSpec
<1> QED
  BY <1>2 DEF LocalIsKept
=============================================================================
