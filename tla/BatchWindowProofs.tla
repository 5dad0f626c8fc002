-------------------------- MODULE BatchWindowProofs --------------------------
(* Proofs about BatchWindow, for any number of calls, items and faults and *)
(* any size of a bulk request.                                             *)
EXTENDS BatchWindow, FiniteSetTheorems, TLAPS

USE BatchAssumption

(* The inductive part of BatchInvariant and AnswerIsOwn; the rest follows *)
BatchCore ==
    /\ TypeOK /\ CallsInOrder /\ MembersHaveSlots /\ RequestIsFixed /\ RunsOnce
    /\ WaitersAreCounted /\ SlotsAreOwn /\ LeftIsNotSent /\ AnswerIsOwn

-----------------------------------------------------------------------------
(* Callers, items and slots. *)

LEMMA NoCallType == NoCall \in Calls
<1>1. (CHOOSE i \in Items : TRUE) \in Items
  OBVIOUS
<1> QED
  BY <1>1 DEF NoCall, Calls

LEMMA WindowType == ASSUME NEW deadline \in Nat PROVE Window(deadline) \in Windows
  BY DEF Window, Windows, Slots, Answers

(* Those that called are the first ones, so the count of them dates a call *)
LEMMA CalledCounts ==
    ASSUME CallsInOrder, NEW n \in 0 .. MAX_CALLS,
           \A c \in Callers : calls[c].pc # "idle" <=> c <= n
    PROVE  Called = n
<1>1. {c \in Callers : calls[c].pc # "idle"} = 1 .. n
  BY DEF Callers
<1>2. Cardinality(1 .. n) = n
  BY FS_Interval
<1> QED
  BY <1>1, <1>2 DEF Called

LEMMA CalledBounds ==
    ASSUME CallsInOrder
    PROVE  /\ Called \in 0 .. MAX_CALLS
           /\ \A c \in Callers : calls[c].pc # "idle" <=> c <= Called
<1>1. PICK n \in 0 .. MAX_CALLS : \A c \in Callers : calls[c].pc # "idle" <=> c <= n
  BY DEF CallsInOrder
<1>2. Called = n
  BY <1>1, CalledCounts
<1> QED
  BY <1>1, <1>2

LEMMA WantedIsFinite ==
    ASSUME NEW win \in Windows
    PROVE  /\ IsFiniteSet(Wanted(win)) /\ Wanted(win) \subseteq DOMAIN win.slots
           /\ Cardinality(Wanted(win)) \in Nat
           /\ DOMAIN win.slots = 1 .. Len(win.slots) /\ Len(win.slots) \in Nat
<1>1. DOMAIN win.slots = 1 .. Len(win.slots) /\ Len(win.slots) \in Nat
  BY DEF Windows
<1>2. IsFiniteSet(1 .. Len(win.slots))
  BY <1>1, FS_Interval
<1>3. Wanted(win) \subseteq 1 .. Len(win.slots)
  BY <1>1 DEF Wanted
<1>4. IsFiniteSet(Wanted(win))
  BY <1>2, <1>3, FS_Subset
<1> QED
  BY <1>1, <1>3, <1>4, FS_CardinalityType

(* The wanted slots are numbered from one, in order and without a gap: the *)
(* numbers are within the request, and no two slots have the same          *)
LEMMA PositionsAreInjective ==
    ASSUME NEW win \in Windows
    PROVE  /\ \A s \in Wanted(win) : Position(win, s) \in 1 .. Cardinality(Wanted(win))
           /\ \A s, t \in Wanted(win) : Position(win, s) = Position(win, t) => s = t
<1> DEFINE W == Wanted(win)
           Upto(s) == {t \in W : t <= s}
<1>0. IsFiniteSet(W) /\ \A s \in W : s \in Nat
  BY WantedIsFinite
<1>1. ASSUME NEW s \in W
      PROVE  /\ IsFiniteSet(Upto(s)) /\ Cardinality(Upto(s)) \in 1 .. Cardinality(W)
             /\ Position(win, s) = Cardinality(Upto(s))
  <2>1. IsFiniteSet(Upto(s)) /\ Cardinality(Upto(s)) <= Cardinality(W)
    BY <1>0, FS_Subset
  <2>2. s \in Upto(s)
    BY <1>0
  <2>3. Cardinality(Upto(s)) # 0
    BY <2>1, <2>2, FS_EmptySet
  <2>4. Cardinality(Upto(s)) \in Nat /\ Cardinality(W) \in Nat
    BY <1>0, <2>1, FS_CardinalityType
  <2>5. Position(win, s) = Cardinality(Upto(s))
    BY DEF Position
  <2> QED
    BY <2>1, <2>3, <2>4, <2>5
<1>2. ASSUME NEW s \in W, NEW t \in W, s < t
      PROVE  Position(win, s) # Position(win, t)
  <2>1. Upto(s) \subseteq Upto(t) /\ t \in Upto(t) /\ t \notin Upto(s)
    BY <1>0, <1>2
  <2>2. Upto(s) # Upto(t)
    BY <2>1
  <2>3. Cardinality(Upto(s)) < Cardinality(Upto(t))
    BY <1>1, <2>1, <2>2, FS_Subset
  <2> QED
    BY <1>1, <2>3
<1>3. ASSUME NEW s \in W, NEW t \in W, Position(win, s) = Position(win, t)
      PROVE  s = t
  BY <1>0, <1>2, <1>3
<1> QED
  BY <1>1, <1>3

(* and none of the numbers is left over                                    *)
LEMMA PositionsCoverTheRequest ==
    ASSUME NEW win \in Windows, NEW p \in 1 .. Cardinality(Wanted(win))
    PROVE  \E s \in Wanted(win) : Position(win, s) = p
<1> DEFINE W == Wanted(win)
           n == Cardinality(W)
           f == [s \in W |-> Position(win, s)]
<1>1. n \in Nat /\ IsFiniteSet(W)
  BY WantedIsFinite
<1>2. f \in [W -> 1 .. n]
  BY PositionsAreInjective
<1>3. IsInjective(f)
  BY PositionsAreInjective DEF IsInjective
<1>4. f \in Injection(W, 1 .. n)
  BY <1>2, <1>3 DEF Injection
<1>5. IsFiniteSet(1 .. n) /\ Cardinality(1 .. n) = n
  BY <1>1, FS_Interval
<1>6. f \in Surjection(W, 1 .. n)
  <2> HIDE DEF f
  <2> QED
    BY <1>1, <1>4, <1>5, FS_Injection
<1>7. \E s \in W : f[s] = p
  BY <1>6 DEF Surjection
<1> QED
  BY <1>7

(* A request holds each wanted slot's item at the slot's number *)
LEMMA TakenShape ==
    ASSUME NEW win \in Windows, win.phase = "Open"
    PROVE  /\ take(win) \in Windows
           /\ take(win).phase \in {"Sent", "Alone"}
           /\ take(win).slots = win.slots /\ take(win).outcome = win.outcome
           /\ take(win).deadline = win.deadline
           /\ take(win).phase = "Sent" =>
                /\ DOMAIN take(win).index = DOMAIN win.slots
                /\ \A s \in DOMAIN win.slots :
                     /\ take(win).index[s] # 0 =>
                          /\ take(win).index[s] \in DOMAIN take(win).body
                          /\ take(win).body[take(win).index[s]] = win.slots[s].item
                     /\ win.slots[s].waiters = 0 => take(win).index[s] = 0
<1> DEFINE n == Cardinality(Wanted(win))
           body == [p \in 1 .. n |-> win.slots[CHOOSE s \in Wanted(win) : Position(win, s) = p].item]
           index == index_of(win)
<1>0. /\ n \in Nat /\ DOMAIN win.slots = 1 .. Len(win.slots) /\ Len(win.slots) \in Nat
      /\ Wanted(win) \subseteq DOMAIN win.slots
  BY WantedIsFinite
<1>1. DOMAIN index = DOMAIN win.slots /\ \A s \in DOMAIN win.slots : index[s] = Position(win, s)
  BY DEF index_of
<1>2. \A s \in DOMAIN win.slots : index[s] # 0 => s \in Wanted(win) /\ index[s] \in 1 .. n
  BY <1>1, PositionsAreInjective DEF Position
<1>3. ASSUME NEW s \in DOMAIN win.slots, win.slots[s].waiters = 0 PROVE index[s] = 0
  <2>1. ~(win.slots[s].waiters > 0)
    BY <1>3
  <2>2. s \notin Wanted(win)
    BY <2>1 DEF Wanted
  <2> QED
    BY <1>1, <2>2 DEF Position
<1>4. ASSUME NEW s \in DOMAIN win.slots, index[s] # 0
      PROVE  body[index[s]] = win.slots[s].item
  <2>1. s \in Wanted(win) /\ index[s] \in 1 .. n /\ Position(win, s) = index[s]
    BY <1>1, <1>2, <1>4
  <2>2. (CHOOSE t \in Wanted(win) : Position(win, t) = index[s]) = s
    BY <2>1, PositionsAreInjective
  <2> QED
    BY <2>1, <2>2
<1>5. index \in Seq(Nat)
  <2>1. \A s \in 1 .. Len(win.slots) : index[s] \in Nat
    BY <1>0, <1>2
  <2>2. index = [s \in 1 .. Len(win.slots) |-> index[s]]
    BY <1>0 DEF index_of
  <2> QED
    BY <1>0, <2>1, <2>2
<1>6. body \in Seq(Items)
  <2>1. ASSUME NEW p \in 1 .. n
        PROVE  win.slots[CHOOSE s \in Wanted(win) : Position(win, s) = p].item \in Items
    <3> DEFINE at == CHOOSE s \in Wanted(win) : Position(win, s) = p
    <3>1. at \in Wanted(win)
      BY PositionsCoverTheRequest
    <3>2. at \in DOMAIN win.slots /\ win.slots \in Seq(Slots)
      BY <1>0, <3>1 DEF Windows
    <3> HIDE DEF at
    <3>3. win.slots[at] \in Slots
      BY <3>2
    <3>4. win.slots[at].item \in Items
      BY <3>3 DEF Slots
    <3> QED
      BY <3>4 DEF at
  <2>2. \A p \in 1 .. n : body[p] \in Items
    BY <2>1
  <2>3. body = [p \in 1 .. n |-> body[p]]
    OBVIOUS
  <2> HIDE DEF body
  <2> QED
    BY <1>0, <2>2, <2>3
<1>7. CASE Waiters(win) < 2
  <2>1. take(win) = [win EXCEPT !.phase = "Alone"]
    BY <1>7 DEF take
  <2> QED
    BY <2>1 DEF Windows
<1>8. CASE ~(Waiters(win) < 2)
  <2>1. take(win) = [win EXCEPT !.phase = "Sent", !.index = index, !.body = body]
    BY <1>8 DEF take
  <2> HIDE DEF index, body
  <2>2. /\ take(win) \in Windows
        /\ take(win).phase = "Sent" /\ take(win).index = index /\ take(win).body = body
        /\ take(win).slots = win.slots /\ take(win).outcome = win.outcome
        /\ take(win).deadline = win.deadline
    BY <2>1, <1>5, <1>6 DEF Windows
  <2>3. DOMAIN body = 1 .. n
    BY DEF body
  <2> QED
    BY <2>2, <2>3, <1>1, <1>2, <1>3, <1>4
<1> QED
  BY <1>7, <1>8

-----------------------------------------------------------------------------
(* Frames: what a step that updates one window, or one call, leaves alone.  *)

LEMMA ReplacedWindow ==
    ASSUME NEW ws \in Seq(Windows), NEW w \in DOMAIN ws, NEW x \in Windows
    PROVE  LET new == [ws EXCEPT ![w] = x]
           IN /\ new \in Seq(Windows) /\ Len(new) = Len(ws) /\ DOMAIN new = DOMAIN ws
              /\ new[w] = x /\ \A v \in DOMAIN ws : v # w => new[v] = ws[v]
  OBVIOUS

LEMMA AppendedWindow ==
    ASSUME NEW ws \in Seq(Windows), NEW x \in Windows
    PROVE  LET new == Append(ws, x)
           IN /\ new \in Seq(Windows) /\ Len(new) = Len(ws) + 1 /\ DOMAIN new = 1 .. Len(ws) + 1
              /\ DOMAIN ws = 1 .. Len(ws) /\ Len(ws) \in Nat
              /\ new[Len(ws) + 1] = x /\ \A v \in DOMAIN ws : v \in DOMAIN new /\ new[v] = ws[v]
  OBVIOUS

LEMMA ReplacedCall ==
    ASSUME NEW cs \in [Callers -> Calls], NEW c \in Callers, NEW x \in Calls
    PROVE  LET new == [cs EXCEPT ![c] = x]
           IN /\ new \in [Callers -> Calls] /\ new[c] = x
              /\ \A d \in Callers : d # c => new[d] = cs[d]
  OBVIOUS

WithPc(cs, c, pc) == [cs EXCEPT ![c].pc = pc]

LEMMA CallFrame ==
    ASSUME NEW cs \in [Callers -> Calls], NEW c \in Callers,
           NEW pc \in {"waiting", "flushing", "posting", "answered", "left", "dropped"}
    PROVE  LET new == WithPc(cs, c, pc)
           IN /\ new \in [Callers -> Calls] /\ new[c].pc = pc
              /\ \A d \in Callers : d # c => new[d] = cs[d]
              /\ \A d \in Callers : /\ new[d].window = cs[d].window /\ new[d].slot = cs[d].slot
                                    /\ new[d].item = cs[d].item
<1>1. PICK x : x = [cs[c] EXCEPT !.pc = pc]
  OBVIOUS
<1>2. cs[c] \in Calls
  OBVIOUS
<1>3. /\ x \in Calls /\ x.pc = pc /\ x.window = cs[c].window /\ x.slot = cs[c].slot
      /\ x.item = cs[c].item
  BY <1>1, <1>2 DEF Calls
<1>4. PICK new : new = [cs EXCEPT ![c] = x]
  OBVIOUS
<1>5. WithPc(cs, c, pc) = new
  BY <1>1, <1>4 DEF WithPc
<1>6. /\ new \in [Callers -> Calls] /\ new[c] = x
      /\ \A d \in Callers : d # c => new[d] = cs[d]
  BY <1>3, <1>4, ReplacedCall
<1> QED
  BY <1>3, <1>5, <1>6

WithAnswer(cs, c, pc, got) == [cs EXCEPT ![c].pc = pc, ![c].got = got]

LEMMA AnsweredFrame ==
    ASSUME NEW cs \in [Callers -> Calls], NEW c \in Callers,
           NEW pc \in {"failed", "answered", "single"},
           NEW got \in {<<>>} \cup (Items \X Nat)
    PROVE  LET new == WithAnswer(cs, c, pc, got)
           IN /\ new \in [Callers -> Calls] /\ new[c].pc = pc /\ new[c].got = got
              /\ \A d \in Callers : d # c => new[d] = cs[d]
              /\ \A d \in Callers : /\ new[d].window = cs[d].window /\ new[d].slot = cs[d].slot
                                    /\ new[d].item = cs[d].item
<1>1. PICK x : x = [cs[c] EXCEPT !.pc = pc, !.got = got]
  OBVIOUS
<1>2. cs[c] \in Calls
  OBVIOUS
<1>3. /\ x \in Calls /\ x.pc = pc /\ x.got = got /\ x.window = cs[c].window
      /\ x.slot = cs[c].slot /\ x.item = cs[c].item
  BY <1>1, <1>2 DEF Calls
<1>4. PICK new : new = [cs EXCEPT ![c] = x]
  OBVIOUS
<1>5. WithAnswer(cs, c, pc, got) = new
  BY <1>1, <1>4 DEF WithAnswer
<1>6. /\ new \in [Callers -> Calls] /\ new[c] = x
      /\ \A d \in Callers : d # c => new[d] = cs[d]
  BY <1>3, <1>4, ReplacedCall
<1> QED
  BY <1>3, <1>5, <1>6

(* A caller that waits or sends is in a window, and has a slot there *)
LEMMA MemberIsInWindow ==
    ASSUME BatchCore, NEW c \in Callers, calls[c].pc \in {"waiting", "flushing", "posting"}
    PROVE  LET w == calls[c].window
           IN /\ w \in DOMAIN windows /\ w \in Nat /\ w # 0 /\ InWindow(c, w)
              /\ windows[w] \in Windows /\ calls[c].slot \in DOMAIN windows[w].slots
              /\ calls[c].pc # "waiting" => windows[w].outcome = "None"
              /\ calls[c].pc = "posting" => windows[w].phase = "Sent"
<1> DEFINE w == calls[c].window
<1>1. MembersHaveSlots /\ windows \in Seq(Windows) /\ calls[c] \in Calls
  BY DEF BatchCore, TypeOK
<1>2. w # 0 /\ w \in DOMAIN windows
  BY <1>1 DEF MembersHaveSlots
<1>3. InWindow(c, w)
  BY <1>2 DEF InWindow
<1>4. windows[w] \in Windows /\ w \in Nat
  BY <1>1, <1>2 DEF Calls
<1>5. /\ calls[c].slot \in DOMAIN windows[w].slots
      /\ calls[c].pc # "waiting" => windows[w].outcome = "None"
      /\ calls[c].pc = "posting" => windows[w].phase = "Sent"
  BY <1>1, <1>2, <1>3 DEF MembersHaveSlots
<1> QED
  BY <1>2, <1>3, <1>4, <1>5

(* A flusher is chosen: it alone sends, and the window is as it was *)
LEMMA BeginFlushKeeps ==
    ASSUME NEW c \in Callers, BatchCore, BeginFlush(c)
    PROVE  BatchCore'
<1>1. /\ calls' \in [Callers -> Calls] /\ calls'[c].pc = "flushing"
      /\ calls'[c].window = calls[c].window /\ calls'[c].slot = calls[c].slot
      /\ calls'[c].item = calls[c].item
      /\ \A d \in Callers : d # c => calls'[d] = calls[d]
  <2>1. calls \in [Callers -> Calls] /\ calls' = WithPc(calls, c, "flushing")
    BY DEF BeginFlush, BatchCore, TypeOK, WithPc
  <2> QED
    BY <2>1, CallFrame
<1>2. /\ calls[c].pc = "waiting" /\ windows[calls[c].window].outcome = "None"
      /\ Flushers(calls[c].window) = {}
      /\ UNCHANGED <<dedupe, windows, open, due, ran, replayed, faults>>
  BY DEF BeginFlush
<1>3. /\ TypeOK /\ CallsInOrder /\ MembersHaveSlots /\ RequestIsFixed /\ RunsOnce
      /\ WaitersAreCounted /\ SlotsAreOwn /\ LeftIsNotSent /\ AnswerIsOwn
  BY DEF BatchCore
<1>4. TypeOK'
  BY <1>1, <1>2, <1>3 DEF TypeOK
<1>5. CallsInOrder'
  BY <1>1, <1>2, <1>3 DEF CallsInOrder
<1>6. MembersHaveSlots'
  BY <1>1, <1>2, <1>3 DEF MembersHaveSlots, InWindow, Flushers
<1>7. RequestIsFixed'
  BY <1>1, <1>2, <1>3 DEF RequestIsFixed, InWindow
<1>8. RunsOnce'
  BY <1>1, <1>2, <1>3 DEF RunsOnce, InWindow
<1>9. WaitersAreCounted'
  BY <1>1, <1>2, <1>3 DEF WaitersAreCounted, WaitingAt, InWindow
<1>10. SlotsAreOwn'
  BY <1>1, <1>2, <1>3 DEF SlotsAreOwn, InWindow
<1>11. LeftIsNotSent'
  BY <1>1, <1>2, <1>3 DEF LeftIsNotSent
<1>12. AnswerIsOwn'
  BY <1>1, <1>2, <1>3 DEF AnswerIsOwn
<1> QED
  BY <1>4, <1>5, <1>6, <1>7, <1>8, <1>9, <1>10, <1>11, <1>12 DEF BatchCore

(* A deadline passes: nobody is told *)
LEMMA DeadlinePassesKeeps ==
    ASSUME BatchCore, DeadlinePasses
    PROVE  BatchCore'
<1>1. /\ TypeOK /\ CallsInOrder /\ MembersHaveSlots /\ RequestIsFixed /\ RunsOnce
      /\ WaitersAreCounted /\ SlotsAreOwn /\ LeftIsNotSent /\ AnswerIsOwn
  BY DEF BatchCore
<1>2. /\ due' \subseteq DOMAIN windows
      /\ UNCHANGED <<dedupe, windows, open, calls, ran, replayed, faults>>
  BY <1>1 DEF DeadlinePasses, TypeOK
<1>3. TypeOK'
  BY <1>1, <1>2 DEF TypeOK
<1>4. CallsInOrder'
  BY <1>1, <1>2 DEF CallsInOrder
<1>5. MembersHaveSlots'
  BY <1>1, <1>2 DEF MembersHaveSlots, InWindow
<1>6. RequestIsFixed'
  BY <1>1, <1>2 DEF RequestIsFixed, InWindow
<1>7. RunsOnce'
  BY <1>1, <1>2 DEF RunsOnce, InWindow
<1>8. WaitersAreCounted'
  BY <1>1, <1>2 DEF WaitersAreCounted, WaitingAt, InWindow
<1>9. SlotsAreOwn'
  BY <1>1, <1>2 DEF SlotsAreOwn, InWindow
<1>10. LeftIsNotSent'
  BY <1>1, <1>2 DEF LeftIsNotSent
<1>11. AnswerIsOwn'
  BY <1>1, <1>2 DEF AnswerIsOwn
<1> QED
  BY <1>3, <1>4, <1>5, <1>6, <1>7, <1>8, <1>9, <1>10, <1>11 DEF BatchCore

(* A member takes its answer: its own item's, and dated after its call *)
LEMMA ReceiveKeeps ==
    ASSUME NEW c \in Callers, BatchCore, Receive(c)
    PROVE  BatchCore'
<1> DEFINE w == calls[c].window
           win == windows[w]
           at == IF win.outcome = "Answers" THEN answer_at(win, calls[c].slot) ELSE 0
<1>1. /\ TypeOK /\ CallsInOrder /\ MembersHaveSlots /\ RequestIsFixed /\ RunsOnce
      /\ WaitersAreCounted /\ SlotsAreOwn /\ LeftIsNotSent /\ AnswerIsOwn
  BY DEF BatchCore
<1>2. /\ calls[c].pc = "waiting" /\ win.outcome # "None" /\ w \in DOMAIN windows /\ w # 0
      /\ InWindow(c, w) /\ win \in Windows
      /\ UNCHANGED <<dedupe, windows, open, due, ran, replayed, faults>>
  BY MemberIsInWindow DEF Receive
<1>3. ASSUME at # 0
      PROVE  /\ win.outcome = "Answers" /\ at = win.index[calls[c].slot]
             /\ at \in DOMAIN win.answers /\ win.answers[at] \in Answers
             /\ win.answers[at].item = calls[c].item /\ c <= win.asOf
  <2>1. win.outcome = "Answers" /\ at = win.index[calls[c].slot] /\ at \in DOMAIN win.answers
    BY <1>3 DEF answer_at
  <2>2. win.answers[at] \in Answers
    BY <2>1, <1>2 DEF Windows
  <2>3. calls[c].slot \in DOMAIN win.slots /\ win.slots[calls[c].slot].item = calls[c].item
    BY <1>1, <1>2 DEF MembersHaveSlots
  <2> QED
    BY <1>1, <1>2, <1>3, <2>1, <2>2, <2>3 DEF RequestIsFixed
<1>4. ASSUME win.outcome # "Failed", ~(at # 0 /\ win.answers[at].ok), c \notin replayed
      PROVE  ran[c] = 0
  <2>1. CASE win.outcome = "Alone"
    BY <1>1, <1>2, <1>4, <2>1 DEF RunsOnce
  <2>2. CASE win.outcome = "Answers"
    <3>1. SUFFICES ASSUME win.index[calls[c].slot] # 0, win.answers[win.index[calls[c].slot]].ok
                   PROVE  FALSE
      BY <1>1, <1>2, <1>4, <2>2 DEF RunsOnce
    <3>2. calls[c].slot \in DOMAIN win.slots
      BY <1>1, <1>2 DEF MembersHaveSlots
    <3>3. win.index[calls[c].slot] \in DOMAIN win.answers
      BY <1>1, <1>2, <2>2, <3>1, <3>2 DEF RequestIsFixed
    <3>4. at = win.index[calls[c].slot]
      BY <2>2, <3>3 DEF answer_at
    <3> QED
      BY <1>4, <3>1, <3>4
  <2> QED
    BY <1>2, <1>4, <2>1, <2>2 DEF Windows
<1>5. PICK pc, got :
         /\ calls' = WithAnswer(calls, c, pc, got)
         /\ pc = CASE win.outcome = "Failed" -> "failed"
                   [] at # 0 /\ win.answers[at].ok -> "answered"
                   [] OTHER -> "single"
         /\ got = IF at # 0 THEN <<win.answers[at].item, win.asOf>> ELSE calls[c].got
  BY Zenon DEF Receive, WithAnswer
<1> HIDE DEF at, win, w
<1>6. /\ pc \in {"failed", "answered", "single"}
      /\ pc = "answered" => at # 0
      /\ pc = "single" => win.outcome # "Failed" /\ ~(at # 0 /\ win.answers[at].ok)
  BY <1>5
<1>7. /\ calls' \in [Callers -> Calls] /\ calls'[c].pc = pc /\ calls'[c].got = got
      /\ \A d \in Callers : d # c => calls'[d] = calls[d]
      /\ \A d \in Callers : /\ calls'[d].window = calls[d].window /\ calls'[d].slot = calls[d].slot
                            /\ calls'[d].item = calls[d].item
  <2>1. calls \in [Callers -> Calls] /\ calls[c] \in Calls
    BY <1>1 DEF TypeOK
  <2>2. got \in {<<>>} \cup (Items \X Nat)
    <3>1. CASE at # 0
      BY <1>2, <1>3, <1>5, <3>1 DEF Answers, Windows
    <3>2. CASE ~(at # 0)
      BY <1>5, <2>1, <3>2 DEF Calls
    <3> QED
      BY <3>1, <3>2
  <2>3. calls' = WithAnswer(calls, c, pc, got)
    BY <1>5
  <2> QED
    BY <1>6, <2>1, <2>2, <2>3, AnsweredFrame
<1>8. calls'[c].pc = "answered" => calls'[c].got[1] = calls[c].item /\ c <= calls'[c].got[2]
  <2>1. at # 0 => got = <<win.answers[at].item, win.asOf>>
    BY <1>5
  <2>2. at # 0 => got[1] = win.answers[at].item /\ got[2] = win.asOf
    BY <2>1
  <2> QED
    BY <1>3, <1>6, <1>7, <2>2
<1>9. calls'[c].pc = "single" /\ c \notin replayed => ran[c] = 0
  BY <1>4, <1>6, <1>7
<1>0. \A d \in Callers, v \in DOMAIN windows : InWindow(d, v)' <=> InWindow(d, v)
  BY <1>7 DEF InWindow
<1>10. TypeOK'
  BY <1>1, <1>2, <1>6, <1>7, <1>8, <1>9 DEF TypeOK
<1>11. CallsInOrder'
  BY <1>1, <1>2, <1>6, <1>7, <1>8, <1>9 DEF CallsInOrder
<1>12. MembersHaveSlots'
  <2>1. calls'[c].pc \notin {"waiting", "flushing", "posting", "left", "dropped"}
    BY <1>6, <1>7
  <2>2. \A v \in DOMAIN windows : InWindow(c, v) => v = w
    BY <1>2 DEF InWindow
  <2> QED
    BY <1>1, <1>2, <1>7, <1>0, <2>1, <2>2 DEF MembersHaveSlots, win
<1>13. RequestIsFixed'
  BY <1>1, <1>2, <1>6, <1>7, <1>8, <1>9 DEF RequestIsFixed, InWindow
<1>14. RunsOnce'
  <2>1. \A d \in Callers, v \in DOMAIN windows : InWindow(d, v)' <=> InWindow(d, v)
    BY <1>7 DEF InWindow
  <2>2. calls'[c].pc \notin {"waiting", "idle"}
    BY <1>6, <1>7
  <2>3. \A d \in Callers : d \notin replayed => ran[d] <= 1 /\ (calls'[d].pc = "single" => ran[d] = 0)
    BY <1>1, <1>7, <1>9 DEF RunsOnce
  <2> QED
    BY <1>1, <1>2, <1>7, <2>1, <2>2, <2>3 DEF RunsOnce
<1>15. WaitersAreCounted'
  <2>1. \A d \in Callers : (calls'[d].pc = "left" <=> calls[d].pc = "left")
    BY <1>2, <1>6, <1>7
  <2>2. \A v, s : WaitingAt(v, s)' = WaitingAt(v, s)
    BY <1>7, <2>1 DEF WaitingAt, InWindow
  <2> QED
    BY <1>1, <1>2, <2>2 DEF WaitersAreCounted
<1>16. SlotsAreOwn'
  BY <1>1, <1>2, <1>6, <1>7, <1>8, <1>9 DEF SlotsAreOwn, InWindow
<1>17. LeftIsNotSent'
  BY <1>1, <1>2, <1>6, <1>7, <1>8, <1>9 DEF LeftIsNotSent
<1>18. AnswerIsOwn'
  BY <1>1, <1>2, <1>6, <1>7, <1>8, <1>9 DEF AnswerIsOwn
<1> QED
  BY <1>10, <1>11, <1>12, <1>13, <1>14, <1>15, <1>16, <1>17, <1>18 DEF BatchCore

(* A call made alone *)
LEMMA SingleKeeps ==
    ASSUME NEW c \in Callers, BatchCore, Single(c)
    PROVE  BatchCore'
<1>1. /\ TypeOK /\ CallsInOrder /\ MembersHaveSlots /\ RequestIsFixed /\ RunsOnce
      /\ WaitersAreCounted /\ SlotsAreOwn /\ LeftIsNotSent /\ AnswerIsOwn
  BY DEF BatchCore
<1>2. /\ calls[c].pc = "single" /\ calls'[c].pc = "answered"
      /\ calls'[c].window = calls[c].window /\ calls'[c].slot = calls[c].slot
      /\ calls'[c].item = calls[c].item
      /\ \A d \in Callers : d # c => calls'[d] = calls[d]
      /\ UNCHANGED <<dedupe, windows, open, due>>
  BY <1>1 DEF Single, TypeOK, Calls
<1>3. PICK n \in Nat : n = Called /\ c <= n
  BY <1>1, <1>2, CalledBounds
<1>4. calls' \in [Callers -> Calls] /\ calls'[c].got = <<calls[c].item, n>>
  <2>1. calls' = WithAnswer(calls, c, "answered", <<calls[c].item, n>>)
    BY <1>3 DEF Single, WithAnswer
  <2>2. calls \in [Callers -> Calls] /\ calls[c] \in Calls
    BY <1>1 DEF TypeOK
  <2>3. <<calls[c].item, n>> \in Items \X Nat
    BY <2>2 DEF Calls
  <2> QED
    BY <2>1, <2>2, <2>3, AnsweredFrame
<1>5. /\ ran' \in [Callers -> Nat] /\ ran[c] \in Nat /\ faults' \in Nat
      /\ replayed \subseteq replayed' /\ replayed' \subseteq Callers
      /\ c \notin replayed' => ran'[c] = ran[c] + 1
      /\ \A d \in Callers : d # c => ran'[d] = ran[d] /\ (d \in replayed' <=> d \in replayed)
  BY <1>1 DEF Single, Faults, TypeOK
<1>6. calls'[c].got[1] = calls'[c].item /\ c <= calls'[c].got[2]
  BY <1>2, <1>3, <1>4
<1>7. \A w \in DOMAIN windows : InWindow(c, w) => windows[w].outcome # "None" /\ windows[w].phase # "Open"
  BY <1>1, <1>2 DEF MembersHaveSlots, RequestIsFixed
<1>8. TypeOK'
  BY <1>1, <1>2, <1>4, <1>5, <1>6, <1>7 DEF TypeOK
<1>9. CallsInOrder'
  BY <1>1, <1>2, <1>4, <1>5, <1>6, <1>7 DEF CallsInOrder
<1>10. MembersHaveSlots'
  BY <1>1, <1>2, <1>4, <1>5, <1>6, <1>7 DEF MembersHaveSlots, InWindow
<1>11. RequestIsFixed'
  BY <1>1, <1>2, <1>4, <1>5, <1>6, <1>7 DEF RequestIsFixed, InWindow
<1>12. RunsOnce'
  <2>1. ASSUME NEW d \in Callers, d # c
        PROVE  ran'[d] = ran[d] /\ calls'[d] = calls[d] /\ (d \in replayed' <=> d \in replayed)
    BY <1>2, <1>5, <2>1
  <2>2. c \notin replayed => ran[c] = 0
    BY <1>1, <1>2 DEF RunsOnce
  <2>3. /\ ran[c] \in Nat /\ calls'[c].pc = "answered"
        /\ c \notin replayed' => c \notin replayed /\ ran'[c] = ran[c] + 1
    BY <1>1, <1>2, <1>5 DEF TypeOK
  <2> QED
    BY <1>1, <1>2, <1>7, <2>1, <2>2, <2>3 DEF RunsOnce, InWindow
<1>13. WaitersAreCounted'
  BY <1>1, <1>2 DEF WaitersAreCounted, WaitingAt, InWindow
<1>14. SlotsAreOwn'
  BY <1>1, <1>2, <1>4, <1>5, <1>6, <1>7 DEF SlotsAreOwn, InWindow
<1>15. LeftIsNotSent'
  BY <1>1, <1>2, <1>4, <1>5, <1>6, <1>7 DEF LeftIsNotSent
<1>16. AnswerIsOwn'
  BY <1>1, <1>2, <1>4, <1>5, <1>6, <1>7 DEF AnswerIsOwn
<1> QED
  BY <1>8, <1>9, <1>10, <1>11, <1>12, <1>13, <1>14, <1>15, <1>16 DEF BatchCore

(* An attempt is sent again: whoever it ran may be run again, and nothing else has changed *)
LEMMA ResentKeeps ==
    ASSUME NEW c \in Callers, BatchCore, Resent(c)
    PROVE  BatchCore'
<1> DEFINE w == calls[c].window
<1>1. /\ TypeOK /\ CallsInOrder /\ MembersHaveSlots /\ RequestIsFixed /\ RunsOnce
      /\ WaitersAreCounted /\ SlotsAreOwn /\ LeftIsNotSent /\ AnswerIsOwn
  BY DEF BatchCore
<1>2. UNCHANGED <<dedupe, windows, open, due, calls>> /\ faults' \in Nat
  BY <1>1 DEF Resent, Fault, Faults, TypeOK
<1>3. PICK some \in SUBSET Callers :
         /\ Run(some) /\ replayed' = replayed \cup some
         /\ \A d \in some : d \in Carried(w)
  BY DEF Resent, RanFirst, Carried
<1>4. /\ ran' \in [Callers -> Nat] /\ replayed' \subseteq Callers
      /\ \A d \in Callers : ran'[d] = IF d \in some THEN ran[d] + 1 ELSE ran[d]
  <2>1. ran \in [Callers -> Nat] /\ replayed \subseteq Callers
    BY <1>1 DEF TypeOK
  <2>2. ran' = [d \in Callers |-> IF d \in some THEN ran[d] + 1 ELSE ran[d]]
    BY <1>3 DEF Run
  <2> QED
    BY <1>3, <2>1, <2>2
<1>5. \A d \in some : /\ d \in replayed' /\ calls[d].pc # "idle"
                      /\ (~dedupe => calls[d].pc # "left")
                      /\ \A v \in DOMAIN windows : InWindow(d, v) => windows[v].phase # "Open"
  <2>1. w \in DOMAIN windows /\ w # 0 /\ InWindow(c, w) /\ windows[w].phase = "Sent" /\ windows[w].outcome = "None"
    BY <1>1 DEF Resent, MembersHaveSlots, InWindow
  <2>2. \A d \in some : d \in Callers /\ calls[d].window = w /\ windows[w].index[calls[d].slot] # 0
    BY <1>3 DEF Carried
  <2>3. \A d \in some : InWindow(d, w) /\ calls[d].pc # "idle"
    BY <1>1, <2>1, <2>2 DEF MembersHaveSlots, InWindow
  <2>4. \A d \in some : ~dedupe => calls[d].pc # "left"
    BY <1>1, <2>1, <2>2, <2>3 DEF SlotsAreOwn
  <2>5. \A d \in some, v \in DOMAIN windows : InWindow(d, v) => windows[v].phase # "Open"
    BY <2>1, <2>2 DEF InWindow
  <2> QED
    BY <1>3, <2>3, <2>4, <2>5
<1> HIDE DEF w
<1>6. TypeOK' /\ CallsInOrder' /\ LeftIsNotSent' /\ AnswerIsOwn'
  BY <1>1, <1>2, <1>4, <1>5 DEF TypeOK, CallsInOrder, LeftIsNotSent, AnswerIsOwn
<1>7. MembersHaveSlots' /\ RequestIsFixed' /\ SlotsAreOwn'
  BY <1>1, <1>2 DEF MembersHaveSlots, RequestIsFixed, SlotsAreOwn, InWindow
<1>8. RunsOnce'
  <2>1. \A d \in Callers : d \notin some => ran'[d] = ran[d] /\ (d \notin replayed' => d \notin replayed)
    BY <1>3, <1>4
  <2> QED
    BY <1>1, <1>2, <1>5, <2>1 DEF RunsOnce, InWindow
<1>9. WaitersAreCounted'
  BY <1>1, <1>2 DEF WaitersAreCounted, WaitingAt, InWindow
<1> QED
  BY <1>6, <1>7, <1>8, <1>9 DEF BatchCore

(* The request is fixed, or there is none: the slots are as they were, and one whose caller left is not in it *)
LEMMA TakeWindowKeeps ==
    ASSUME NEW c \in Callers, BatchCore, TakeWindow(c)
    PROVE  BatchCore'
<1> DEFINE w == calls[c].window
           win == windows[w]
           taken == take(win)
<1>1. /\ TypeOK /\ CallsInOrder /\ MembersHaveSlots /\ RequestIsFixed /\ RunsOnce
      /\ WaitersAreCounted /\ SlotsAreOwn /\ LeftIsNotSent /\ AnswerIsOwn
  BY DEF BatchCore
<1>2. /\ calls[c].pc = "flushing" /\ w \in DOMAIN windows /\ w # 0 /\ w \in Nat /\ InWindow(c, w)
      /\ win \in Windows /\ win.outcome = "None"
      /\ UNCHANGED <<dedupe, due, ran, replayed, faults>>
  BY MemberIsInWindow DEF TakeWindow
<1>3. /\ taken \in Windows /\ taken.slots = win.slots /\ taken.deadline = win.deadline
      /\ taken.outcome = "None" /\ taken.phase \in {"Sent", "Alone"}
      /\ taken.phase = "Sent" =>
           /\ DOMAIN taken.index = DOMAIN win.slots
           /\ \A s \in DOMAIN win.slots : taken.index[s] # 0 =>
                /\ taken.index[s] \in DOMAIN taken.body
                /\ taken.body[taken.index[s]] = win.slots[s].item
  <2>1. CASE win.phase = "Open"
    BY <1>2, <2>1, TakenShape
  <2>2. CASE win.phase # "Open"
    <3>1. taken = win
      BY <2>2 DEF take
    <3> QED
      BY <1>1, <1>2, <2>2, <3>1 DEF RequestIsFixed, Windows
  <2> QED
    BY <2>1, <2>2
<1>4. ASSUME ~dedupe, taken.phase = "Sent", NEW d \in Callers, InWindow(d, w), calls[d].pc = "left"
      PROVE  taken.index[calls[d].slot] = 0
  <2>0. calls[d].slot \in DOMAIN win.slots
    BY <1>1, <1>2, <1>4 DEF MembersHaveSlots
  <2>1. CASE win.phase = "Open"
    <3>1. WaitingAt(w, calls[d].slot) = {}
      BY <1>1, <1>2, <1>4 DEF SlotsAreOwn, WaitingAt
    <3>2. win.slots[calls[d].slot].waiters = 0
      BY <1>1, <1>2, <2>0, <2>1, <3>1, FS_EmptySet DEF WaitersAreCounted
    <3> QED
      BY <1>2, <1>4, <2>0, <2>1, <3>2, TakenShape
  <2>2. CASE win.phase # "Open"
    <3>1. taken = win
      BY <2>2 DEF take
    <3> QED
      BY <1>1, <1>2, <1>4, <3>1 DEF SlotsAreOwn
  <2> QED
    BY <2>1, <2>2
<1>5. PICK x, pc :
         /\ windows' = [windows EXCEPT ![w] = x] /\ calls' = [calls EXCEPT ![c].pc = pc]
         /\ open' \in {0, open}
         /\ \/ x = [taken EXCEPT !.outcome = "Alone"] /\ taken.phase = "Alone" /\ pc = "waiting"
            \/ x = taken /\ taken.phase # "Alone" /\ pc = "posting"
  <2>1. CASE taken.phase = "Alone"
    BY <2>1, Zenon DEF TakeWindow, forget
  <2>2. CASE taken.phase # "Alone"
    BY <2>2, Zenon DEF TakeWindow
  <2> QED
    BY <2>1, <2>2
<1> HIDE DEF taken
<1>6. /\ x \in Windows /\ x.slots = win.slots /\ x.deadline = win.deadline
      /\ \/ x.phase = "Alone" /\ x.outcome = "Alone" /\ pc = "waiting"
         \/ x.phase = "Sent" /\ x.outcome = "None" /\ pc = "posting"
      /\ x.phase = "Sent" => x = taken
  BY <1>3, <1>5 DEF Windows
<1>7. /\ windows' \in Seq(Windows) /\ Len(windows') = Len(windows)
      /\ DOMAIN windows' = DOMAIN windows /\ windows'[w] = x
      /\ \A v \in DOMAIN windows : v # w => windows'[v] = windows[v]
  BY <1>1, <1>2, <1>5, <1>6, ReplacedWindow DEF TypeOK
<1>8. /\ calls' \in [Callers -> Calls] /\ calls'[c].pc = pc
      /\ calls'[c].window = calls[c].window /\ calls'[c].slot = calls[c].slot
      /\ calls'[c].item = calls[c].item
      /\ \A d \in Callers : d # c => calls'[d] = calls[d]
  <2>1. calls \in [Callers -> Calls] /\ pc \in {"waiting", "posting"}
    BY <1>1, <1>6 DEF TypeOK
  <2>2. calls' = WithPc(calls, c, pc)
    BY <1>5 DEF WithPc
  <2> QED
    BY <2>1, <2>2, CallFrame
<1>9. /\ \A d \in Callers : InWindow(d, w) /\ ~dedupe /\ x.phase = "Sent" /\ calls[d].pc = "left" =>
           x.index[calls[d].slot] = 0
      /\ x.phase = "Sent" =>
           /\ DOMAIN x.index = DOMAIN win.slots
           /\ \A s \in DOMAIN win.slots : x.index[s] # 0 =>
                x.index[s] \in DOMAIN x.body /\ x.body[x.index[s]] = win.slots[s].item
  BY <1>3, <1>4, <1>6
<1> HIDE DEF win
<1>10. TypeOK'
  <2>1. dedupe' \in BOOLEAN
    BY <1>1, <1>2 DEF TypeOK
  <2>2. /\ open' \in 0 .. Len(windows') /\ due' \subseteq DOMAIN windows'
        /\ ran' \in [Callers -> Nat] /\ replayed' \subseteq Callers /\ faults' \in Nat
    BY <1>1, <1>2, <1>5, <1>7 DEF TypeOK
  <2>3. \A v \in DOMAIN windows' : /\ windows'[v].deadline \in DOMAIN windows'
                                   /\ Len(windows'[v].slots) <= CAP
    BY <1>1, <1>2, <1>6, <1>7 DEF TypeOK, win
  <2> QED
    BY <1>7, <1>8, <2>1, <2>2, <2>3 DEF TypeOK
<1>11. CallsInOrder'
  BY <1>1, <1>2, <1>5, <1>6, <1>7, <1>8, <1>9 DEF CallsInOrder
<1>12. MembersHaveSlots'
  BY <1>1, <1>2, <1>5, <1>6, <1>7, <1>8, <1>9 DEF MembersHaveSlots, InWindow, win
<1>13. RequestIsFixed'
  BY <1>1, <1>2, <1>5, <1>6, <1>7, <1>8, <1>9 DEF RequestIsFixed, InWindow, win
<1>14. RunsOnce'
  <2>1. \A d \in Callers : InWindow(d, w) /\ d \notin replayed => ran[d] = 0
    BY <1>1, <1>2 DEF RunsOnce, win
  <2>2. \A d \in Callers : /\ calls'[d].window = calls[d].window /\ calls'[d].slot = calls[d].slot
                           /\ calls'[d].pc = "single" => calls[d].pc = "single"
                           /\ d # c => calls'[d].pc = calls[d].pc
    BY <1>6, <1>8
  <2>3. ASSUME NEW d \in Callers, InWindow(d, w)
        PROVE  /\ x.phase # "Open" /\ x.outcome # "Answers"
               /\ d \notin replayed => ran[d] = 0
    BY <1>6, <2>1, <2>3
  <2>4. ASSUME NEW d \in Callers, NEW v \in DOMAIN windows, InWindow(d, v), v # w
        PROVE  windows'[v] = windows[v] /\ d # c
    BY <1>2, <1>7, <2>4 DEF InWindow
  <2> QED
    BY <1>1, <1>2, <1>7, <2>2, <2>3, <2>4 DEF RunsOnce, InWindow
<1>15. WaitersAreCounted'
  <2>1. \A v, s : WaitingAt(v, s)' = WaitingAt(v, s)
    BY <1>2, <1>6, <1>8 DEF WaitingAt, InWindow
  <2>2. \A v \in DOMAIN windows : windows'[v].phase = "Open" => windows'[v] = windows[v]
    BY <1>6, <1>7
  <2> QED
    BY <1>1, <1>7, <2>1, <2>2 DEF WaitersAreCounted
<1>16. SlotsAreOwn'
  BY <1>1, <1>2, <1>5, <1>6, <1>7, <1>8, <1>9 DEF SlotsAreOwn, InWindow, win
<1>17. LeftIsNotSent'
  BY <1>1, <1>2, <1>5, <1>6, <1>7, <1>8, <1>9 DEF LeftIsNotSent
<1>18. AnswerIsOwn'
  BY <1>1, <1>2, <1>5, <1>6, <1>7, <1>8, <1>9 DEF AnswerIsOwn
<1> QED
  BY <1>10, <1>11, <1>12, <1>13, <1>14, <1>15, <1>16, <1>17, <1>18 DEF BatchCore

(* What the sender sets in its window, and what it leaves as it was *)
LEMMA OutcomeFrame ==
    ASSUME NEW c \in Callers, BatchCore, calls[c].pc = "posting",
           NEW outcome \in {"Answers", "Alone", "Failed"}, NEW answers \in Seq(Answers),
           SetOutcome(c, outcome, answers)
    PROVE  LET w == calls[c].window
           IN /\ w \in DOMAIN windows /\ w \in Nat /\ w # 0 /\ InWindow(c, w)
              /\ windows[w] \in Windows /\ windows[w].outcome = "None" /\ windows[w].phase = "Sent"
              /\ windows' \in Seq(Windows) /\ Len(windows') = Len(windows)
              /\ DOMAIN windows' = DOMAIN windows
              /\ \A v \in DOMAIN windows : v # w => windows'[v] = windows[v]
              /\ windows'[w].deadline = windows[w].deadline /\ windows'[w].phase = "Sent"
              /\ windows'[w].slots = windows[w].slots /\ windows'[w].body = windows[w].body
              /\ windows'[w].index = windows[w].index
              /\ windows'[w].outcome = outcome /\ windows'[w].answers = answers
              /\ \A d \in Callers : InWindow(d, w) => d <= windows'[w].asOf
              /\ open' \in {0, open}
              /\ calls' \in [Callers -> Calls] /\ calls'[c].pc = "waiting"
              /\ \A d \in Callers : /\ d # c => calls'[d] = calls[d]
                                    /\ calls'[d].window = calls[d].window
                                    /\ calls'[d].slot = calls[d].slot
                                    /\ calls'[d].item = calls[d].item
<1> DEFINE w == calls[c].window
<1>1. /\ TypeOK /\ CallsInOrder /\ MembersHaveSlots /\ RequestIsFixed /\ RunsOnce
      /\ WaitersAreCounted /\ SlotsAreOwn /\ LeftIsNotSent /\ AnswerIsOwn
  BY DEF BatchCore
<1>2. /\ w \in DOMAIN windows /\ w # 0 /\ w \in Nat /\ InWindow(c, w) /\ windows[w] \in Windows
      /\ windows[w].outcome = "None" /\ windows[w].phase = "Sent"
  BY MemberIsInWindow
<1>3. PICK n \in Nat : n = Called
  BY <1>1, CalledBounds
<1>4. PICK x : x = [windows[w] EXCEPT !.outcome = outcome, !.answers = answers, !.asOf = n]
  OBVIOUS
<1>5. windows' = [windows EXCEPT ![w] = x]
  <2>1. windows' = [windows EXCEPT ![w].outcome = outcome, ![w].answers = answers, ![w].asOf = n]
    BY <1>3 DEF SetOutcome
  <2> QED
    BY <1>1, <1>2, <1>4, <2>1 DEF TypeOK
<1>6. /\ x \in Windows /\ x.deadline = windows[w].deadline /\ x.phase = "Sent"
      /\ x.slots = windows[w].slots /\ x.body = windows[w].body /\ x.index = windows[w].index
      /\ x.outcome = outcome /\ x.answers = answers /\ x.asOf = n
  BY <1>2, <1>4 DEF Windows
<1>7. /\ windows' \in Seq(Windows) /\ Len(windows') = Len(windows)
      /\ DOMAIN windows' = DOMAIN windows /\ windows'[w] = x
      /\ \A v \in DOMAIN windows : v # w => windows'[v] = windows[v]
  BY <1>1, <1>2, <1>5, <1>6, ReplacedWindow DEF TypeOK
<1>8. \A d \in Callers : InWindow(d, w) => d <= n
  <2>1. \A d \in Callers : InWindow(d, w) => calls[d].pc # "idle"
    BY <1>1, <1>2 DEF CallsInOrder, InWindow
  <2> QED
    BY <1>1, <1>3, <2>1, CalledBounds
<1>9. open' \in {0, open}
  BY DEF SetOutcome, forget
<1>10. /\ calls' \in [Callers -> Calls] /\ calls'[c].pc = "waiting"
       /\ \A d \in Callers : /\ d # c => calls'[d] = calls[d]
                             /\ calls'[d].window = calls[d].window
                             /\ calls'[d].slot = calls[d].slot
                             /\ calls'[d].item = calls[d].item
  <2>1. calls \in [Callers -> Calls] /\ calls' = WithPc(calls, c, "waiting")
    BY <1>1 DEF SetOutcome, TypeOK, WithPc
  <2> QED
    BY <2>1, CallFrame
<1> QED
  BY <1>2, <1>6, <1>7, <1>8, <1>9, <1>10

(* Those that ran are sent alone only where a replay is accepted, and an  *)
(* answer is its item's, and good for those that ran and may not again     *)
TellsWhatRan(w, outcome, answers, some) ==
    /\ outcome = "Alone" => some \subseteq replayed'
    /\ outcome = "Answers" =>
         /\ DOMAIN answers = DOMAIN windows[w].body
         /\ \A p \in DOMAIN windows[w].body : answers[p].item = windows[w].body[p]
         /\ \A d \in some : d \notin replayed' => answers[windows[w].index[calls[d].slot]].ok

(* The outcome is set once for all members: those it says ran, ran once; those *)
(* it sends alone have not run, but where a replay is accepted                 *)
LEMMA OutcomeKeeps ==
    ASSUME NEW c \in Callers, BatchCore, calls[c].pc = "posting",
           NEW outcome \in {"Answers", "Alone", "Failed"}, NEW answers \in Seq(Answers),
           SetOutcome(c, outcome, answers),
           NEW some \in SUBSET Carried(calls[c].window), Run(some),
           replayed \subseteq replayed', replayed' \subseteq Callers, faults' \in Nat,
           UNCHANGED <<dedupe, due>>,
           TellsWhatRan(calls[c].window, outcome, answers, some)
    PROVE  BatchCore'
<1> DEFINE w == calls[c].window
<1>1. /\ TypeOK /\ CallsInOrder /\ MembersHaveSlots /\ RequestIsFixed /\ RunsOnce
      /\ WaitersAreCounted /\ SlotsAreOwn /\ LeftIsNotSent /\ AnswerIsOwn
  BY DEF BatchCore
<1>2. /\ w \in DOMAIN windows /\ w \in Nat /\ w # 0 /\ InWindow(c, w)
      /\ windows[w] \in Windows /\ windows[w].outcome = "None" /\ windows[w].phase = "Sent"
  BY OutcomeFrame
<1>3. /\ windows' \in Seq(Windows) /\ Len(windows') = Len(windows)
      /\ DOMAIN windows' = DOMAIN windows
      /\ \A v \in DOMAIN windows : v # w => windows'[v] = windows[v]
      /\ open' \in {0, open}
  BY OutcomeFrame
<1>4. /\ windows'[w].deadline = windows[w].deadline /\ windows'[w].phase = "Sent"
      /\ windows'[w].slots = windows[w].slots /\ windows'[w].body = windows[w].body
      /\ windows'[w].index = windows[w].index
      /\ windows'[w].outcome = outcome /\ windows'[w].answers = answers
      /\ \A d \in Callers : InWindow(d, w) => d <= windows'[w].asOf
  BY OutcomeFrame
<1>5. /\ calls' \in [Callers -> Calls] /\ calls'[c].pc = "waiting"
      /\ \A d \in Callers : d # c => calls'[d] = calls[d]
      /\ \A d \in Callers : /\ calls'[d].window = calls[d].window
                            /\ calls'[d].slot = calls[d].slot
                            /\ calls'[d].item = calls[d].item
  BY OutcomeFrame
<1>6. /\ ran' \in [Callers -> Nat]
      /\ \A d \in Callers : ran'[d] = IF d \in some THEN ran[d] + 1 ELSE ran[d]
  <2>1. ran \in [Callers -> Nat]
    BY <1>1 DEF TypeOK
  <2>2. ran' = [d \in Callers |-> IF d \in some THEN ran[d] + 1 ELSE ran[d]]
    BY DEF Run
  <2> QED
    BY <2>1, <2>2
<1>7. \A d \in some : /\ d \in Callers /\ InWindow(d, w) /\ windows[w].index[calls[d].slot] # 0
                      /\ calls[d].pc \in {"waiting", "flushing", "posting", "left", "dropped"}
                      /\ ran[d] \in Nat /\ (d \notin replayed => ran[d] = 0)
                      /\ (~dedupe => calls[d].pc # "left")
  <2>1. \A d \in some : d \in Callers /\ InWindow(d, w) /\ windows[w].index[calls[d].slot] # 0
    BY <1>2 DEF Carried, InWindow
  <2>2. \A d \in some : calls[d].pc \in {"waiting", "flushing", "posting", "left", "dropped"}
    BY <1>1, <1>2, <2>1 DEF MembersHaveSlots
  <2>3. \A d \in some : ran[d] \in Nat /\ (d \notin replayed => ran[d] = 0)
    BY <1>1, <1>2, <2>1 DEF RunsOnce, TypeOK
  <2>4. \A d \in some : ~dedupe => calls[d].pc # "left"
    BY <1>1, <1>2, <2>1 DEF SlotsAreOwn
  <2> QED
    BY <2>1, <2>2, <2>3, <2>4
<1>8. \A d \in Callers : InWindow(d, w) /\ d \notin replayed => ran[d] = 0
  BY <1>1, <1>2 DEF RunsOnce
<1>9. \A v \in DOMAIN windows : windows'[v].deadline = windows[v].deadline
                             /\ windows'[v].slots = windows[v].slots
                             /\ windows'[v].phase = windows[v].phase
                             /\ windows'[v].index = windows[v].index
  BY <1>2, <1>3, <1>4
<1> HIDE DEF w
<1>10. TypeOK'
  <2>1. dedupe' \in BOOLEAN
    BY <1>1 DEF TypeOK
  <2>2. /\ open' \in 0 .. Len(windows') /\ due' \subseteq DOMAIN windows'
        /\ replayed' \subseteq Callers /\ faults' \in Nat
    BY <1>1, <1>3 DEF TypeOK
  <2>3. \A v \in DOMAIN windows' : /\ windows'[v].deadline \in DOMAIN windows'
                                   /\ Len(windows'[v].slots) <= CAP
    BY <1>1, <1>3, <1>9 DEF TypeOK
  <2> QED
    BY <1>3, <1>5, <1>6, <2>1, <2>2, <2>3 DEF TypeOK
<1>11. CallsInOrder'
  <2>1. \A d \in Callers : (calls'[d].pc = "idle" <=> calls[d].pc = "idle")
    BY <1>5
  <2>2. \A d \in some : calls[d].pc # "idle"
    BY <1>7
  <2> QED
    BY <1>1, <1>5, <1>6, <2>1, <2>2 DEF CallsInOrder
<1>12. MembersHaveSlots'
  <2>1. ASSUME NEW d \in Callers
        PROVE  /\ calls'[d].pc \in {"waiting", "flushing", "posting", "left", "dropped"} =>
                    calls'[d].window # 0
               /\ calls'[d].window # 0 => calls'[d].window \in DOMAIN windows'
    BY <1>1, <1>2, <1>3, <1>5 DEF MembersHaveSlots
  <2>2. ASSUME NEW d \in Callers, NEW v \in DOMAIN windows, InWindow(d, v)
        PROVE  /\ calls'[d].slot \in DOMAIN windows'[v].slots
               /\ windows'[v].slots[calls'[d].slot].item = calls'[d].item
               /\ windows'[v].outcome = "None" =>
                    calls'[d].pc \in {"waiting", "flushing", "posting", "left", "dropped"}
               /\ calls'[d].pc = "posting" => windows'[v].phase = "Sent"
    BY <1>1, <1>3, <1>4, <1>5, <1>9, <2>2 DEF MembersHaveSlots
  <2>3. ASSUME NEW d \in Callers, NEW v \in DOMAIN windows, InWindow(d, v),
               calls'[d].pc \in {"flushing", "posting"}
        PROVE  /\ windows'[v].outcome = "None" /\ calls[d].pc \in {"flushing", "posting"}
               /\ \A e \in Callers : InWindow(e, v) /\ calls'[e].pc \in {"flushing", "posting"} => e = d
    <3>1. d # c /\ calls'[d] = calls[d]
      BY <1>5, <2>3
    <3>2. v # w
      BY <1>1, <1>2, <2>3, <3>1 DEF MembersHaveSlots
    <3> QED
      BY <1>1, <1>3, <1>5, <2>3, <3>1, <3>2 DEF MembersHaveSlots
  <2> QED
    BY <1>3, <1>5, <2>1, <2>2, <2>3 DEF MembersHaveSlots, InWindow
<1>13. RequestIsFixed'
  <2>1. ASSUME NEW v \in DOMAIN windows, v # w
        PROVE  windows'[v] = windows[v]
    BY <1>3, <2>1
  <2>2. \A d \in Callers, v \in DOMAIN windows : InWindow(d, v)' <=> InWindow(d, v)
    BY <1>5 DEF InWindow
  <2> QED
    <3>1. outcome = "Answers" =>
             /\ DOMAIN answers = DOMAIN windows[w].body
             /\ \A p \in DOMAIN windows[w].body : answers[p].item = windows[w].body[p]
      BY DEF TellsWhatRan, w
    <3> QED
      BY <1>1, <1>2, <1>3, <1>4, <2>1, <2>2, <3>1 DEF RequestIsFixed
<1>14. RunsOnce'
  <2>1. ASSUME NEW d \in Callers, d \notin replayed'
        PROVE  ran'[d] <= 1 /\ (calls'[d].pc = "single" => ran'[d] = 0)
    <3>1. CASE d \in some
      BY <1>5, <1>6, <1>7, <2>1, <3>1
    <3>2. CASE d \notin some
      BY <1>1, <1>5, <1>6, <2>1, <3>2 DEF RunsOnce
    <3> QED
      BY <3>1, <3>2
  <2>2. ASSUME NEW d \in Callers, InWindow(d, w)
        PROVE  /\ windows'[w].phase # "Open" /\ windows'[w].outcome # "None"
               /\ d \notin replayed' /\ windows'[w].outcome = "Alone" => ran'[d] = 0
               /\ d \notin replayed' /\ windows'[w].outcome = "Answers" =>
                    \/ ran'[d] = 0
                    \/ /\ windows'[w].index[calls'[d].slot] # 0
                       /\ windows'[w].answers[windows'[w].index[calls'[d].slot]].ok
    <3>1. CASE d \in some
      <4>1. outcome = "Alone" => d \in replayed'
        BY <3>1 DEF TellsWhatRan
      <4>2. outcome = "Answers" /\ d \notin replayed' => answers[windows[w].index[calls[d].slot]].ok
        BY <3>1 DEF TellsWhatRan, w
      <4> QED
        BY <1>4, <1>5, <1>7, <3>1, <4>1, <4>2
    <3>2. CASE d \notin some
      BY <1>4, <1>6, <1>8, <2>2, <3>2
    <3> QED
      BY <3>1, <3>2
  <2>3. ASSUME NEW d \in Callers, NEW v \in DOMAIN windows, InWindow(d, v), v # w
        PROVE  windows'[v] = windows[v] /\ d \notin some /\ ran'[d] = ran[d] /\ calls'[d] = calls[d]
    BY <1>2, <1>3, <1>5, <1>6, <1>7, <2>3 DEF InWindow
  <2>4. \A d \in Callers, v \in DOMAIN windows : InWindow(d, v)' <=> InWindow(d, v)
    BY <1>5 DEF InWindow
  <2>5. ASSUME NEW d \in Callers, NEW v \in DOMAIN windows, InWindow(d, v)
        PROVE  /\ windows'[v].phase = "Open" => ran'[d] = 0
               /\ d \notin replayed' /\ windows'[v].outcome = "None" => ran'[d] = 0
               /\ d \notin replayed' /\ calls'[d].pc = "waiting" /\ windows'[v].outcome = "Alone" =>
                    ran'[d] = 0
               /\ d \notin replayed' /\ calls'[d].pc = "waiting" /\ windows'[v].outcome = "Answers" =>
                    \/ ran'[d] = 0
                    \/ /\ windows'[v].index[calls'[d].slot] # 0
                       /\ windows'[v].answers[windows'[v].index[calls'[d].slot]].ok
    <3>1. CASE v = w
      BY <2>2, <2>5, <3>1
    <3>2. CASE v # w
      BY <1>1, <2>3, <2>5, <3>2 DEF RunsOnce
    <3> QED
      BY <3>1, <3>2
  <2> QED
    BY <1>3, <2>1, <2>4, <2>5 DEF RunsOnce
<1>15. WaitersAreCounted'
  <2>1. \A v, s : WaitingAt(v, s)' = WaitingAt(v, s)
    BY <1>5 DEF WaitingAt, InWindow
  <2> QED
    BY <1>1, <1>3, <1>9, <2>1 DEF WaitersAreCounted
<1>16. SlotsAreOwn'
  <2>1. \A d \in Callers, v \in DOMAIN windows : InWindow(d, v)' <=> InWindow(d, v)
    BY <1>5 DEF InWindow
  <2> QED
    BY <1>1, <1>3, <1>5, <1>9, <2>1 DEF SlotsAreOwn
<1>17. LeftIsNotSent'
  BY <1>1, <1>5, <1>6, <1>7 DEF LeftIsNotSent
<1>18. AnswerIsOwn'
  BY <1>1, <1>5 DEF AnswerIsOwn
<1> QED
  BY <1>10, <1>11, <1>12, <1>13, <1>14, <1>15, <1>16, <1>17, <1>18 DEF BatchCore

(* Every caller carried ran once, and is told so unless its item may be replayed *)
LEMMA BulkAnsweredKeeps ==
    ASSUME NEW c \in Callers, BatchCore, BulkAnswered(c)
    PROVE  BatchCore'
<1> DEFINE w == calls[c].window
           body == windows[w].body
<1>1. /\ TypeOK /\ CallsInOrder /\ MembersHaveSlots /\ RequestIsFixed /\ RunsOnce
      /\ WaitersAreCounted /\ SlotsAreOwn /\ LeftIsNotSent /\ AnswerIsOwn
  BY DEF BatchCore
<1>2. PICK bad \in SUBSET DOMAIN body :
         /\ Faults(Cardinality(bad))
         /\ SetOutcome(c, "Answers", [p \in DOMAIN body |-> [item |-> body[p], ok |-> p \notin bad]])
         /\ Run(Carried(w))
         /\ replayed' = replayed \cup {d \in Carried(w) : windows[w].index[calls[d].slot] \in bad}
  BY DEF BulkAnswered
<1>3. calls[c].pc = "posting" /\ UNCHANGED <<dedupe, due>>
  BY DEF BulkAnswered
<1>4. PICK answers : answers = [p \in DOMAIN body |-> [item |-> body[p], ok |-> p \notin bad]]
  OBVIOUS
<1>5. /\ w \in DOMAIN windows /\ w # 0 /\ windows[w] \in Windows /\ windows[w].phase = "Sent"
      /\ body \in Seq(Items) /\ DOMAIN body = 1 .. Len(body) /\ Len(body) \in Nat
  <2>1. w \in DOMAIN windows /\ w # 0 /\ windows[w].phase = "Sent"
    BY <1>1, <1>3 DEF MembersHaveSlots, InWindow
  <2>2. windows[w] \in Windows
    BY <1>1, <2>1 DEF TypeOK
  <2> QED
    BY <2>1, <2>2 DEF Windows
<1>6. /\ answers \in Seq(Answers) /\ DOMAIN answers = DOMAIN body
      /\ \A p \in DOMAIN body : answers[p].item = body[p] /\ (answers[p].ok <=> p \notin bad)
  <2> HIDE DEF body
  <2>1. \A p \in DOMAIN body : body[p] \in Items
    BY <1>5
  <2>2. \A p \in DOMAIN body : (p \notin bad) \in BOOLEAN
    OBVIOUS
  <2>3. \A p \in DOMAIN body : answers[p] \in Answers
    BY <1>4, <2>1, <2>2 DEF Answers
  <2>4. answers = [p \in 1 .. Len(body) |-> answers[p]]
    BY <1>4, <1>5
  <2>5. answers \in Seq(Answers)
    BY <1>5, <2>3, <2>4
  <2> QED
    BY <1>4, <2>5
<1>7. SetOutcome(c, "Answers", answers)
  BY <1>2, <1>4
<1>8. \A d \in Carried(w) : d \in Callers /\ windows[w].index[calls[d].slot] \in DOMAIN body
  <2>1. \A d \in Carried(w) : d \in Callers /\ InWindow(d, w) /\ windows[w].index[calls[d].slot] # 0
    BY <1>5 DEF Carried, InWindow
  <2>2. \A d \in Carried(w) : calls[d].slot \in DOMAIN windows[w].slots
    BY <1>1, <1>5, <2>1 DEF MembersHaveSlots
  <2> QED
    BY <1>1, <1>5, <2>1, <2>2 DEF RequestIsFixed
<1>9. \A d \in Carried(w) : d \notin replayed' => answers[windows[w].index[calls[d].slot]].ok
  <2>1. \A d \in Carried(w) : d \notin replayed' => windows[w].index[calls[d].slot] \notin bad
    BY <1>2
  <2> QED
    BY <1>6, <1>8, <2>1
<1>10. replayed \subseteq replayed' /\ replayed' \subseteq Callers
  BY <1>1, <1>2, <1>8 DEF TypeOK
<1>11. faults' \in Nat
  <2> HIDE DEF body
  <2>0. IsFiniteSet(1 .. Len(body))
    <3>1. PICK k \in Nat : k = Len(body)
      BY <1>5
    <3>2. IsFiniteSet(1 .. k)
      BY FS_Interval
    <3> QED
      BY <3>1, <3>2
  <2>1. IsFiniteSet(DOMAIN body)
    BY <1>5, <2>0
  <2>2. Cardinality(bad) \in Nat
    BY <2>1, FS_Subset, FS_CardinalityType
  <2>3. faults \in Nat /\ faults' = faults + Cardinality(bad)
    BY <1>1, <1>2 DEF Faults, TypeOK
  <2> QED
    BY <2>2, <2>3
<1> QED
  <2> HIDE DEF body
  <2>1. Run(Carried(w)) /\ Carried(w) \in SUBSET Carried(calls[c].window)
    BY <1>2
  <2>2. /\ DOMAIN answers = DOMAIN windows[calls[c].window].body
        /\ \A p \in DOMAIN windows[calls[c].window].body : answers[p].item = windows[calls[c].window].body[p]
    BY <1>6 DEF body
  <2>3. TellsWhatRan(calls[c].window, "Answers", answers, Carried(w))
    BY <1>9, <2>2 DEF TellsWhatRan
  <2> QED
    BY <1>3, <1>6, <1>7, <1>10, <1>11, <2>1, <2>3, OutcomeKeeps

(* A request that went wrong: a caller is sent alone if its item did not run or may run again *)
LEMMA BulkFailedKeeps ==
    ASSUME NEW c \in Callers, BatchCore, BulkFailed(c)
    PROVE  BatchCore'
<1> DEFINE w == calls[c].window
<1>1. /\ TypeOK /\ CallsInOrder /\ MembersHaveSlots /\ RequestIsFixed /\ RunsOnce
      /\ WaitersAreCounted /\ SlotsAreOwn /\ LeftIsNotSent /\ AnswerIsOwn
  BY DEF BatchCore
<1>2. PICK error \in {"refused", "mismatched", "lost"}, some \in RanFirst(w) :
         /\ error = "refused" => some = {}
         /\ SetOutcome(c, classify(error), <<>>)
         /\ Run(some)
         /\ replayed' = IF error = "mismatched" THEN replayed \cup some ELSE replayed
  BY DEF BulkFailed
<1>3. calls[c].pc = "posting" /\ UNCHANGED <<dedupe, due>> /\ faults' \in Nat
  BY <1>1 DEF BulkFailed, Fault, Faults, TypeOK
<1>4. some \in SUBSET Carried(w) /\ some \subseteq Callers
  BY <1>2 DEF RanFirst, Carried
<1>5. replayed \subseteq replayed' /\ replayed' \subseteq Callers
  BY <1>1, <1>2, <1>4 DEF TypeOK
<1>6. /\ classify(error) \in {"Alone", "Failed"} /\ <<>> \in Seq(Answers)
      /\ classify(error) = "Alone" => some \subseteq replayed'
  BY <1>2 DEF classify
<1>7. TellsWhatRan(w, classify(error), <<>>, some)
  BY <1>6 DEF TellsWhatRan
<1> QED
  BY <1>2, <1>3, <1>4, <1>5, <1>6, <1>7, OutcomeKeeps

(* A caller dropped after its window closed: what its request ran may run again *)
LEMMA DropClosedKeeps ==
    ASSUME NEW c \in Callers, BatchCore, Drop(c),
           windows[calls[c].window].phase # "Open"
    PROVE  BatchCore'
<1> DEFINE w == calls[c].window
<1>1. /\ TypeOK /\ CallsInOrder /\ MembersHaveSlots /\ RequestIsFixed /\ RunsOnce
      /\ WaitersAreCounted /\ SlotsAreOwn /\ LeftIsNotSent /\ AnswerIsOwn
  BY DEF BatchCore
<1>2. /\ calls[c].pc \in {"waiting", "flushing", "posting"} /\ w \in DOMAIN windows /\ w # 0
      /\ InWindow(c, w) /\ windows[w].phase # "Open"
  BY <1>1 DEF Drop, MembersHaveSlots, InWindow
<1>3. windows' = windows /\ UNCHANGED <<dedupe, open, due>> /\ faults' \in Nat
  <2>1. windows' = [windows EXCEPT ![w] = windows[w]]
    BY DEF Drop, Leave
  <2>2. windows' = windows
    BY <1>1, <1>2, <2>1 DEF TypeOK
  <2>3. faults' \in Nat
    BY <1>1 DEF Drop, Fault, Faults, TypeOK
  <2> QED
    BY <2>2, <2>3 DEF Drop
<1>4. PICK some \in SUBSET Callers :
         /\ Run(some) /\ replayed' = replayed \cup some
         /\ \A d \in some : calls[c].pc = "posting" /\ d \in Carried(w)
  <2>1. CASE calls[c].pc # "posting"
    <3>1. UNCHANGED <<ran, replayed>>
      BY <2>1 DEF Drop
    <3>2. Run({})
      BY <1>1, <3>1 DEF Run, TypeOK
    <3> QED
      BY <3>1, <3>2
  <2>2. CASE calls[c].pc = "posting"
    BY <2>2 DEF Drop, RanFirst, Carried
  <2> QED
    BY <2>1, <2>2
<1>5. /\ calls' \in [Callers -> Calls] /\ calls'[c].pc = "dropped"
      /\ \A d \in Callers : d # c => calls'[d] = calls[d]
      /\ \A d \in Callers : /\ calls'[d].window = calls[d].window
                            /\ calls'[d].slot = calls[d].slot
                            /\ calls'[d].item = calls[d].item
  <2>1. calls' = WithPc(calls, c, "dropped")
    BY DEF Drop, WithPc
  <2>2. calls \in [Callers -> Calls]
    BY <1>1 DEF TypeOK
  <2> QED
    BY <2>1, <2>2, CallFrame
<1>6. /\ ran' \in [Callers -> Nat] /\ replayed' \subseteq Callers
      /\ \A d \in Callers : ran'[d] = IF d \in some THEN ran[d] + 1 ELSE ran[d]
  <2>1. ran \in [Callers -> Nat] /\ replayed \subseteq Callers
    BY <1>1 DEF TypeOK
  <2>2. ran' = [d \in Callers |-> IF d \in some THEN ran[d] + 1 ELSE ran[d]]
    BY <1>4 DEF Run
  <2> QED
    BY <1>4, <2>1, <2>2
<1>7. \A d \in some : /\ d \in Callers /\ InWindow(d, w) /\ d \in replayed'
                      /\ windows[w].outcome = "None" /\ calls[d].pc # "idle"
                      /\ (~dedupe => calls[d].pc # "left")
  <2>1. \A d \in some : d \in Callers /\ InWindow(d, w) /\ windows[w].index[calls[d].slot] # 0
    BY <1>2, <1>4 DEF Carried, InWindow
  <2>2. \A d \in some : windows[w].outcome = "None" /\ windows[w].phase = "Sent"
    BY <1>1, <1>2, <1>4 DEF MembersHaveSlots
  <2>3. \A d \in some : calls[d].pc # "idle"
    BY <1>1, <1>2, <2>1, <2>2 DEF MembersHaveSlots
  <2>4. \A d \in some : ~dedupe => calls[d].pc # "left"
    BY <1>1, <1>2, <2>1, <2>2 DEF SlotsAreOwn
  <2> QED
    BY <1>4, <2>1, <2>2, <2>3, <2>4
<1> HIDE DEF w
<1>8. TypeOK'
  BY <1>1, <1>3, <1>5, <1>6 DEF TypeOK
<1>9. CallsInOrder'
  <2>1. \A d \in Callers : (calls'[d].pc = "idle" <=> calls[d].pc = "idle")
    BY <1>2, <1>5
  <2> QED
    BY <1>1, <1>5, <1>6, <1>7, <2>1 DEF CallsInOrder
<1>10. MembersHaveSlots'
  <2>1. \A d \in Callers, v \in DOMAIN windows : InWindow(d, v)' <=> InWindow(d, v)
    BY <1>5 DEF InWindow
  <2> QED
    BY <1>1, <1>2, <1>3, <1>5, <2>1 DEF MembersHaveSlots
<1>11. RequestIsFixed'
  <2>1. \A d \in Callers, v \in DOMAIN windows : InWindow(d, v)' <=> InWindow(d, v)
    BY <1>5 DEF InWindow
  <2> QED
    BY <1>1, <1>3, <2>1 DEF RequestIsFixed
<1>12. RunsOnce'
  <2>1. \A d \in Callers, v \in DOMAIN windows : InWindow(d, v)' <=> InWindow(d, v)
    BY <1>5 DEF InWindow
  <2>2. \A d \in Callers : d \notin some => ran'[d] = ran[d] /\ (d \notin replayed' => d \notin replayed)
    BY <1>4, <1>6
  <2>3. \A d \in some, v \in DOMAIN windows : InWindow(d, v) => windows[v].phase # "Open"
    BY <1>2, <1>7 DEF InWindow
  <2> QED
    BY <1>1, <1>3, <1>5, <1>7, <2>1, <2>2, <2>3 DEF RunsOnce
<1>13. WaitersAreCounted'
  <2>1. ASSUME NEW v \in DOMAIN windows, windows[v].phase = "Open", NEW s
        PROVE  WaitingAt(v, s)' = WaitingAt(v, s)
    <3>1. v # w
      BY <1>2, <2>1
    <3> QED
      BY <1>2, <1>5, <3>1 DEF WaitingAt, InWindow
  <2> QED
    BY <1>1, <1>3, <2>1 DEF WaitersAreCounted
<1>14. SlotsAreOwn'
  <2>1. \A d \in Callers, v \in DOMAIN windows : InWindow(d, v)' <=> InWindow(d, v)
    BY <1>5 DEF InWindow
  <2> QED
    BY <1>1, <1>3, <1>5, <2>1 DEF SlotsAreOwn
<1>15. LeftIsNotSent'
  BY <1>1, <1>3, <1>5, <1>6, <1>7 DEF LeftIsNotSent
<1>16. AnswerIsOwn'
  BY <1>1, <1>2, <1>3, <1>5 DEF AnswerIsOwn
<1> QED
  BY <1>8, <1>9, <1>10, <1>11, <1>12, <1>13, <1>14, <1>15, <1>16 DEF BatchCore

(* A caller dropped before its window closed takes itself off its slot, and has not run *)
LEMMA DropOpenKeeps ==
    ASSUME NEW c \in Callers, BatchCore, Drop(c),
           windows[calls[c].window].phase = "Open"
    PROVE  BatchCore'
<1> DEFINE w == calls[c].window
           s == calls[c].slot
<1>1. /\ TypeOK /\ CallsInOrder /\ MembersHaveSlots /\ RequestIsFixed /\ RunsOnce
      /\ WaitersAreCounted /\ SlotsAreOwn /\ LeftIsNotSent /\ AnswerIsOwn
  BY DEF BatchCore
<1>2. /\ calls[c].pc \in {"waiting", "flushing"} /\ w \in DOMAIN windows /\ w # 0
      /\ InWindow(c, w) /\ windows[w].phase = "Open" /\ windows[w].outcome = "None"
      /\ s \in DOMAIN windows[w].slots /\ ran[c] = 0
  <2>1. calls[c].pc \in {"waiting", "flushing", "posting"} /\ w \in DOMAIN windows /\ w # 0
    BY <1>1 DEF Drop, MembersHaveSlots, InWindow
  <2>2. InWindow(c, w)
    BY <2>1 DEF InWindow
  <2>3. calls[c].pc # "posting" /\ s \in DOMAIN windows[w].slots
    BY <1>1, <2>1, <2>2 DEF MembersHaveSlots
  <2> QED
    BY <1>1, <2>1, <2>2, <2>3 DEF RequestIsFixed, RunsOnce
<1>3. windows \in Seq(Windows) /\ windows[w] \in Windows /\ windows[w].slots \in Seq(Slots)
  <2>1. windows \in Seq(Windows)
    BY <1>1 DEF TypeOK
  <2>2. windows[w] \in Windows
    BY <1>2, <2>1
  <2> QED
    BY <2>1, <2>2 DEF Windows
<1>4. /\ IsFiniteSet(WaitingAt(w, s)) /\ c \in WaitingAt(w, s)
      /\ Cardinality(WaitingAt(w, s)) \in Nat \ {0}
      /\ Cardinality(WaitingAt(w, s) \ {c}) = Cardinality(WaitingAt(w, s)) - 1
  <2>1. IsFiniteSet(WaitingAt(w, s))
    <3>1. IsFiniteSet(Callers) /\ WaitingAt(w, s) \subseteq Callers
      BY FS_Interval DEF Callers, WaitingAt
    <3> QED
      BY <3>1, FS_Subset
  <2>2. c \in WaitingAt(w, s)
    BY <1>2 DEF WaitingAt
  <2> QED
    BY <2>1, <2>2, FS_CardinalityType, FS_EmptySet, FS_RemoveElement
<1>5. /\ calls' \in [Callers -> Calls] /\ calls'[c].pc = "left"
      /\ \A d \in Callers : d # c => calls'[d] = calls[d]
      /\ \A d \in Callers : /\ calls'[d].window = calls[d].window
                            /\ calls'[d].slot = calls[d].slot
                            /\ calls'[d].item = calls[d].item
  <2>1. calls' = WithPc(calls, c, "left")
    BY DEF Drop, WithPc
  <2>2. calls \in [Callers -> Calls]
    BY <1>1 DEF TypeOK
  <2> QED
    BY <2>1, <2>2, CallFrame
<1>6. UNCHANGED <<dedupe, open, due, ran, replayed>> /\ faults' \in Nat
  <2>1. faults \in Nat
    BY <1>1 DEF TypeOK
  <2>2. faults' = faults + 1
    BY DEF Drop, Fault, Faults
  <2>3. calls[c].pc # "posting"
    BY <1>2
  <2>4. UNCHANGED <<dedupe, open, due, ran, replayed>>
    BY <2>3 DEF Drop
  <2> QED
    BY <2>1, <2>2, <2>4
<1>7. PICK slots : slots = [windows[w].slots EXCEPT ![s].waiters = @ - 1]
  OBVIOUS
<1>8. /\ slots \in Seq(Slots) /\ Len(slots) = Len(windows[w].slots)
      /\ DOMAIN slots = DOMAIN windows[w].slots
      /\ slots[s].waiters = windows[w].slots[s].waiters - 1
      /\ \A t \in DOMAIN slots : /\ slots[t].item = windows[w].slots[t].item
                                 /\ t # s => slots[t] = windows[w].slots[t]
  <2>1. windows[w].slots[s].waiters \in Nat \ {0} /\ windows[w].slots[s] \in Slots
    BY <1>1, <1>2, <1>3, <1>4 DEF WaitersAreCounted
  <2>2. [windows[w].slots[s] EXCEPT !.waiters = @ - 1] \in Slots
    <3>1. PICK r \in Slots : r = windows[w].slots[s] /\ r.waiters \in Nat \ {0}
      BY <2>1
    <3>2. PICK m \in Nat : m = r.waiters - 1
      BY <3>1
    <3>3. [r EXCEPT !.waiters = m] \in Slots
      BY <3>1, <3>2 DEF Slots
    <3> QED
      BY <3>1, <3>2, <3>3
  <2>3. slots = [windows[w].slots EXCEPT ![s] = [windows[w].slots[s] EXCEPT !.waiters = @ - 1]]
    BY <1>2, <1>3, <1>7
  <2>4. slots \in Seq(Slots)
    BY <1>2, <1>3, <2>2, <2>3
  <2>5. \A t \in DOMAIN windows[w].slots : windows[w].slots[t] \in Slots
    BY <1>3
  <2>6. /\ DOMAIN slots = DOMAIN windows[w].slots /\ Len(slots) = Len(windows[w].slots)
        /\ slots[s] = [windows[w].slots[s] EXCEPT !.waiters = @ - 1]
        /\ \A t \in DOMAIN slots : t # s => slots[t] = windows[w].slots[t]
    BY <1>2, <1>3, <2>3
  <2>7. slots[s].waiters = windows[w].slots[s].waiters - 1 /\ slots[s].item = windows[w].slots[s].item
    BY <2>1, <2>6 DEF Slots
  <2> QED
    BY <2>4, <2>6, <2>7
<1>9. PICK x : x = [windows[w] EXCEPT !.slots = slots]
  OBVIOUS
<1>10. /\ x \in Windows /\ x.slots = slots /\ x.phase = "Open" /\ x.outcome = "None"
       /\ x.deadline = windows[w].deadline
  BY <1>2, <1>3, <1>8, <1>9 DEF Windows
<1>11. /\ windows' \in Seq(Windows) /\ Len(windows') = Len(windows)
       /\ DOMAIN windows' = DOMAIN windows /\ windows'[w] = x
       /\ \A v \in DOMAIN windows : v # w => windows'[v] = windows[v]
  <2>1. windows' = [windows EXCEPT ![w] = Leave(windows[w], s)]
    BY DEF Drop
  <2>2. Leave(windows[w], s) = x
    BY <1>2, <1>3, <1>7, <1>9 DEF Leave, Windows
  <2> QED
    BY <1>2, <1>3, <1>10, <2>1, <2>2, ReplacedWindow
<1> HIDE DEF w, s
<1>12. TypeOK'
  BY <1>1, <1>2, <1>5, <1>6, <1>8, <1>10, <1>11 DEF TypeOK
<1>13. CallsInOrder'
  <2>1. \A d \in Callers : (calls'[d].pc = "idle" <=> calls[d].pc = "idle")
    BY <1>2, <1>5
  <2> QED
    BY <1>1, <1>5, <1>6, <2>1 DEF CallsInOrder
<1>14. MembersHaveSlots'
  <2>1. \A d \in Callers, v \in DOMAIN windows : InWindow(d, v)' <=> InWindow(d, v)
    BY <1>5 DEF InWindow
  <2> QED
    BY <1>1, <1>2, <1>5, <1>8, <1>10, <1>11, <2>1, SMTT(30) DEF MembersHaveSlots
<1>15. RequestIsFixed'
  <2>1. \A d \in Callers, v \in DOMAIN windows : InWindow(d, v)' <=> InWindow(d, v)
    BY <1>5 DEF InWindow
  <2> QED
    BY <1>1, <1>2, <1>10, <1>11, <2>1 DEF RequestIsFixed
<1>16. RunsOnce'
  <2>1. \A d \in Callers, v \in DOMAIN windows : InWindow(d, v)' <=> InWindow(d, v)
    BY <1>5 DEF InWindow
  <2>2. ASSUME NEW d \in Callers, InWindow(d, w)
        PROVE  ran[d] = 0
    BY <1>1, <1>2, <2>2 DEF RunsOnce
  <2> QED
    BY <1>1, <1>2, <1>5, <1>6, <1>10, <1>11, <2>1, <2>2 DEF RunsOnce
<1>17. WaitersAreCounted'
  <2>1. ASSUME NEW v \in DOMAIN windows, NEW t, v # w \/ t # s
        PROVE  WaitingAt(v, t)' = WaitingAt(v, t)
    BY <1>2, <1>5, <2>1 DEF WaitingAt, InWindow, w, s
  <2>2. ASSUME NEW v \in DOMAIN windows, NEW t, v = w, t = s
        PROVE  WaitingAt(v, t)' = WaitingAt(v, t) \ {c}
    BY <1>2, <1>5, <2>2 DEF WaitingAt, InWindow, w, s
  <2>3. ASSUME NEW v \in DOMAIN windows, v # w, windows'[v].phase = "Open",
               NEW t \in DOMAIN windows'[v].slots
        PROVE  windows'[v].slots[t].waiters = Cardinality(WaitingAt(v, t)')
    BY <1>1, <1>11, <2>1, <2>3 DEF WaitersAreCounted
  <2>4. ASSUME NEW v \in DOMAIN windows, v = w, NEW t \in DOMAIN slots
        PROVE  slots[t].waiters = Cardinality(WaitingAt(v, t)')
    <3>1. windows[w].slots[t].waiters = Cardinality(WaitingAt(w, t))
      BY <1>1, <1>2, <1>8 DEF WaitersAreCounted
    <3>2. CASE t = s
      BY <1>4, <1>8, <2>2, <2>4, <3>1, <3>2
    <3>3. CASE t # s
      BY <1>2, <1>8, <2>1, <2>4, <3>1, <3>3
    <3> QED
      BY <3>2, <3>3
  <2> QED
    BY <1>10, <1>11, <2>3, <2>4 DEF WaitersAreCounted
<1>18. SlotsAreOwn'
  <2>1. \A d \in Callers, v \in DOMAIN windows : InWindow(d, v)' <=> InWindow(d, v)
    BY <1>5 DEF InWindow
  <2> QED
    BY <1>1, <1>2, <1>5, <1>6, <1>10, <1>11, <2>1 DEF SlotsAreOwn, InWindow
<1>19. LeftIsNotSent'
  BY <1>1, <1>2, <1>5, <1>6 DEF LeftIsNotSent
<1>20. AnswerIsOwn'
  BY <1>1, <1>5 DEF AnswerIsOwn
<1> QED
  BY <1>12, <1>13, <1>14, <1>15, <1>16, <1>17, <1>18, <1>19, <1>20 DEF BatchCore

(* A pushed item has a slot: one that holds the same item and may be shared, or *)
(* a new one at the end                                                         *)
LEMMA PushedShape ==
    ASSUME NEW win \in Windows, NEW item \in Items, win.phase = "Open",
           Len(win.slots) <= CAP, ~Full(win, item)
    PROVE  LET p == try_push(win, item)
           IN /\ p.window \in Windows /\ p.window.phase = "Open"
              /\ p.window.outcome = win.outcome /\ p.window.deadline = win.deadline
              /\ Len(p.window.slots) <= CAP
              /\ p.slot \in Nat /\ DOMAIN p.window.slots = DOMAIN win.slots \cup {p.slot}
              /\ p.window.slots[p.slot].item = item
              /\ \A s \in DOMAIN win.slots : /\ p.window.slots[s].item = win.slots[s].item
                                             /\ s # p.slot => p.window.slots[s] = win.slots[s]
              /\ p.window.slots[p.slot].waiters =
                   IF p.slot \in DOMAIN win.slots THEN win.slots[p.slot].waiters + 1 ELSE 1
              /\ p.slot \in DOMAIN win.slots => dedupe
<1> DEFINE p == try_push(win, item)
<1>1. win.slots \in Seq(Slots) /\ DOMAIN win.slots = 1 .. Len(win.slots) /\ Len(win.slots) \in Nat
  BY DEF Windows
<1>2. CASE Same(win, item) # {}
  <2>1. PICK s : s = CHOOSE t \in Same(win, item) : TRUE
    OBVIOUS
  <2>2. s \in DOMAIN win.slots /\ dedupe /\ win.slots[s].item = item
    <3>1. s \in Same(win, item)
      BY <1>2, <2>1
    <3> QED
      BY <3>1 DEF Same
  <2>3. PICK slots : slots = [win.slots EXCEPT ![s] = [win.slots[s] EXCEPT !.waiters = @ + 1]]
    OBVIOUS
  <2>4. p.slot = s /\ p.window = [win EXCEPT !.slots = slots]
    <3>1. p = [slot |-> s, window |-> [win EXCEPT !.slots[s].waiters = @ + 1]]
      BY <1>2, <2>1 DEF try_push
    <3> HIDE DEF p
    <3>2. p.slot = s /\ p.window = [win EXCEPT !.slots[s].waiters = @ + 1]
      BY <3>1
    <3> QED
      BY <1>1, <2>2, <2>3, <3>2 DEF Windows
  <2>5. [win.slots[s] EXCEPT !.waiters = @ + 1] \in Slots /\ win.slots[s] \in Slots
    <3>1. win.slots[s] \in Slots
      BY <1>1, <2>2
    <3> QED
      BY <3>1 DEF Slots
  <2>6. slots \in Seq(Slots) /\ DOMAIN slots = DOMAIN win.slots /\ Len(slots) = Len(win.slots)
    BY <1>1, <2>2, <2>3, <2>5
  <2>7. /\ slots[s] = [win.slots[s] EXCEPT !.waiters = @ + 1]
        /\ \A t \in DOMAIN win.slots : t # s => slots[t] = win.slots[t]
    BY <1>1, <2>2, <2>3
  <2>8. slots[s].waiters = win.slots[s].waiters + 1 /\ slots[s].item = win.slots[s].item
    BY <2>5, <2>7 DEF Slots
  <2> HIDE DEF p
  <2>9. /\ p.window \in Windows /\ p.window.phase = "Open" /\ p.window.slots = slots
        /\ p.window.outcome = win.outcome /\ p.window.deadline = win.deadline
    BY <2>4, <2>6 DEF Windows
  <2>10. DOMAIN slots = DOMAIN win.slots \cup {s} /\ s \in Nat
    BY <1>1, <2>2, <2>6
  <2> QED
    BY <2>2, <2>4, <2>6, <2>7, <2>8, <2>9, <2>10 DEF p
<1>3. CASE Same(win, item) = {}
  <2>1. PICK slots : slots = Append(win.slots, [item |-> item, waiters |-> 1])
    OBVIOUS
  <2>2. PICK s \in Nat : s = Len(win.slots) + 1
    BY <1>1
  <2>3. p.slot = s /\ p.window = [win EXCEPT !.slots = slots]
    <3>1. p = [slot |-> Len(win.slots) + 1,
               window |-> [win EXCEPT !.slots = Append(@, [item |-> item, waiters |-> 1])]]
      BY <1>3 DEF try_push
    <3> HIDE DEF p
    <3>2. p.slot = Len(win.slots) + 1
      BY <3>1
    <3>3. p.window = [win EXCEPT !.slots = Append(@, [item |-> item, waiters |-> 1])]
      BY <3>1
    <3> QED
      BY <2>1, <2>2, <3>2, <3>3 DEF Windows
  <2>4. PICK new \in Slots : new = [item |-> item, waiters |-> 1]
    BY DEF Slots
  <2>5. new.item = item /\ new.waiters = 1
    BY <2>4
  <2>6. /\ slots \in Seq(Slots) /\ Len(slots) = s /\ DOMAIN slots = 1 .. s
        /\ slots[s] = new /\ \A t \in DOMAIN win.slots : slots[t] = win.slots[t]
    BY <1>1, <2>1, <2>2, <2>4
  <2>7. s <= CAP /\ s \notin DOMAIN win.slots
    BY <1>1, <1>3, <2>2 DEF Full
  <2> HIDE DEF p
  <2>8. /\ p.window \in Windows /\ p.window.phase = "Open" /\ p.window.slots = slots
        /\ p.window.outcome = win.outcome /\ p.window.deadline = win.deadline
    BY <2>3, <2>6 DEF Windows
  <2>9. DOMAIN slots = DOMAIN win.slots \cup {s}
    BY <1>1, <2>2, <2>6
  <2> QED
    BY <2>3, <2>5, <2>6, <2>7, <2>8, <2>9 DEF p
<1> QED
  BY <1>2, <1>3

(* The next caller has done nothing yet *)
LEMMA NextCallerIsNew ==
    ASSUME BatchCore, NEW c \in Callers, c = Called + 1
    PROVE  /\ calls[c].pc = "idle" /\ calls[c].window = 0 /\ ran[c] = 0
           /\ c \in 0 .. MAX_CALLS
           /\ \A d \in Callers : d # c => (calls[d].pc # "idle" <=> d <= c)
<1>1. CallsInOrder
  BY DEF BatchCore
<1>2. Called \in Nat /\ \A d \in Callers : calls[d].pc # "idle" <=> d <= Called
  BY <1>1, CalledBounds
<1>3. calls[c].pc = "idle"
  BY <1>2
<1> QED
  BY <1>1, <1>2, <1>3 DEF CallsInOrder, Callers

(* What a caller that comes leaves as it was *)
LEMMA BecomeFrame ==
    ASSUME BatchCore, NEW c \in Callers, NEW pc \in {"single", "waiting"}, NEW item \in Items,
           NEW w \in Nat, NEW slot \in Nat, Become(c, pc, item, w, slot)
    PROVE  /\ calls' \in [Callers -> Calls]
           /\ calls'[c].pc = pc /\ calls'[c].item = item
           /\ calls'[c].window = w /\ calls'[c].slot = slot
           /\ \A d \in Callers : d # c => calls'[d] = calls[d]
<1>1. calls \in [Callers -> Calls]
  BY DEF BatchCore, TypeOK
<1>2. PICK new : new = [NoCall EXCEPT !.pc = pc, !.item = item, !.window = w, !.slot = slot]
  OBVIOUS
<1>3. new \in Calls /\ new.pc = pc /\ new.item = item /\ new.window = w /\ new.slot = slot
  BY <1>2, NoCallType DEF Calls
<1>4. calls' = [calls EXCEPT ![c] = new]
  BY <1>2 DEF Become
<1> QED
  BY <1>1, <1>3, <1>4

(* A caller that leads: it is in no window, and its window is empty *)
LEMMA LeadKeeps ==
    ASSUME BatchCore, NEW c \in Callers, c = Called + 1, NEW item \in Items, NEW w \in Listed,
           Lead(c, item, w), UNCHANGED <<dedupe, due, ran, replayed, faults>>
    PROVE  BatchCore'
<1> DEFINE n == Len(windows) + 1
<1>1. /\ TypeOK /\ CallsInOrder /\ MembersHaveSlots /\ RequestIsFixed /\ RunsOnce
      /\ WaitersAreCounted /\ SlotsAreOwn /\ LeftIsNotSent /\ AnswerIsOwn
  BY DEF BatchCore
<1>2. /\ calls[c].pc = "idle" /\ calls[c].window = 0 /\ ran[c] = 0 /\ c \in 0 .. MAX_CALLS
      /\ \A d \in Callers : d # c => (calls[d].pc # "idle" <=> d <= c)
  BY NextCallerIsNew
<1>3. UNCHANGED <<dedupe, due, ran, replayed, faults>>
  OBVIOUS
<1>4. /\ calls' \in [Callers -> Calls] /\ calls'[c].pc = "single" /\ calls'[c].window = 0
      /\ calls'[c].slot = 0
      /\ \A d \in Callers : d # c => calls'[d] = calls[d]
  BY BecomeFrame DEF Lead
<1>5. calls'[c].pc # "idle" /\ calls'[c].pc # "left"
  BY <1>4
<1>6. /\ Window(n) \in Windows /\ Window(n).deadline = n /\ Window(n).phase = "Open"
      /\ Window(n).outcome = "None" /\ Window(n).slots = <<>>
      /\ windows \in Seq(Windows) /\ n \in Nat
  <2>1. windows \in Seq(Windows) /\ n \in Nat
    BY <1>1 DEF TypeOK
  <2> QED
    BY <2>1, WindowType DEF Window
<1>7. /\ windows' \in Seq(Windows) /\ Len(windows') = n /\ DOMAIN windows' = DOMAIN windows \cup {n}
      /\ n \notin DOMAIN windows /\ windows'[n] = Window(n) /\ open' = n /\ n # 0
      /\ \A v \in DOMAIN windows : windows'[v] = windows[v]
  <2>1. windows' = Append(windows, Window(n)) /\ open' = Len(windows')
    BY DEF Lead
  <2> HIDE DEF n
  <2>2. n = Len(windows) + 1
    BY DEF n
  <2> QED
    BY <1>6, <2>1, <2>2, AppendedWindow
<1> HIDE DEF n
<1>8. \A d \in Callers, v \in DOMAIN windows' :
         /\ InWindow(d, v)' <=> InWindow(d, v)
         /\ InWindow(d, v) => d # c /\ v \in DOMAIN windows /\ v # n /\ calls'[d] = calls[d]
  BY <1>1, <1>2, <1>4, <1>7 DEF InWindow, MembersHaveSlots
<1>9. TypeOK'
  <2>1. \A v \in DOMAIN windows' : /\ windows'[v].deadline \in DOMAIN windows'
                                   /\ Len(windows'[v].slots) <= CAP
    BY <1>1, <1>6, <1>7 DEF TypeOK
  <2>2. dedupe' \in BOOLEAN
    BY <1>1, <1>3 DEF TypeOK
  <2>3. /\ open' \in 0 .. Len(windows') /\ due' \subseteq DOMAIN windows'
        /\ ran' \in [Callers -> Nat] /\ replayed' \subseteq Callers /\ faults' \in Nat
    BY <1>1, <1>3, <1>6, <1>7 DEF TypeOK
  <2> QED
    BY <1>4, <1>7, <2>1, <2>2, <2>3 DEF TypeOK
<1>10. CallsInOrder'
  <2>1. \A d \in Callers : calls'[d].pc # "idle" <=> d <= c
    BY <1>2, <1>4, <1>5 DEF Callers
  <2> QED
    BY <1>1, <1>2, <1>3, <1>4, <1>5, <2>1 DEF CallsInOrder
<1>11. MembersHaveSlots'
  BY <1>1, <1>2, <1>4, <1>7, <1>8 DEF MembersHaveSlots
<1>12. RequestIsFixed'
  BY <1>1, <1>6, <1>7, <1>8 DEF RequestIsFixed
<1>13. RunsOnce'
  BY <1>1, <1>2, <1>3, <1>4, <1>7, <1>8 DEF RunsOnce
<1>14. WaitersAreCounted'
  <2>1. \A v \in DOMAIN windows' : \A s : WaitingAt(v, s)' = WaitingAt(v, s)
    BY <1>8 DEF WaitingAt
  <2>2. DOMAIN windows'[n].slots = {}
    BY <1>6, <1>7
  <2> QED
    BY <1>1, <1>7, <2>1, <2>2 DEF WaitersAreCounted
<1>15. SlotsAreOwn'
  BY <1>1, <1>3, <1>7, <1>8 DEF SlotsAreOwn
<1>16. LeftIsNotSent'
  BY <1>1, <1>3, <1>4 DEF LeftIsNotSent
<1>17. AnswerIsOwn'
  BY <1>1, <1>4 DEF AnswerIsOwn
<1> QED
  BY <1>9, <1>10, <1>11, <1>12, <1>13, <1>14, <1>15, <1>16, <1>17 DEF BatchCore

(* A caller takes slot s of window k, which is then x.  The window had the slots *)
(* old, or was not there and old is empty.                                       *)
Joins(c, item, k, x, s, old) ==
    /\ windows' \in Seq(Windows) /\ DOMAIN windows' = DOMAIN windows \cup {k} /\ k # 0
    /\ windows'[k] = x /\ \A v \in DOMAIN windows : v # k => windows'[v] = windows[v]
    /\ open' \in 0 .. Len(windows') /\ x.deadline \in DOMAIN windows' /\ Len(x.slots) <= CAP
    /\ x.phase = "Open" /\ x.outcome = "None"
    /\ IF k \in DOMAIN windows
       THEN old = windows[k].slots /\ windows[k].phase = "Open"
       ELSE old = <<>>
    /\ DOMAIN x.slots = DOMAIN old \cup {s} /\ x.slots[s].item = item
    /\ \A t \in DOMAIN old : x.slots[t].item = old[t].item /\ (t # s => x.slots[t] = old[t])
    /\ x.slots[s].waiters = IF s \in DOMAIN old THEN old[s].waiters + 1 ELSE 1
    /\ s \in DOMAIN old => dedupe
    /\ calls' \in [Callers -> Calls]
    /\ calls'[c].pc = "waiting" /\ calls'[c].item = item
    /\ calls'[c].window = k /\ calls'[c].slot = s
    /\ \A d \in Callers : d # c => calls'[d] = calls[d]
    /\ UNCHANGED <<dedupe, due, ran, replayed, faults>>

LEMMA JoinedKeeps ==
    ASSUME BatchCore, NEW c \in Callers, c = Called + 1, NEW item, NEW k, NEW x, NEW s, NEW old,
           Joins(c, item, k, x, s, old)
    PROVE  BatchCore'
<1>1. /\ TypeOK /\ CallsInOrder /\ MembersHaveSlots /\ RequestIsFixed /\ RunsOnce
      /\ WaitersAreCounted /\ SlotsAreOwn /\ LeftIsNotSent /\ AnswerIsOwn
  BY DEF BatchCore
<1>2. /\ calls[c].pc = "idle" /\ calls[c].window = 0 /\ ran[c] = 0 /\ c \in 0 .. MAX_CALLS
      /\ \A d \in Callers : d # c => (calls[d].pc # "idle" <=> d <= c)
  BY NextCallerIsNew
<1>3. UNCHANGED <<dedupe, due, ran, replayed, faults>>
  BY DEF Joins
<1>4. /\ calls' \in [Callers -> Calls] /\ calls'[c].pc = "waiting" /\ calls'[c].window = k
      /\ calls'[c].slot = s /\ calls'[c].item = item
      /\ \A d \in Callers : d # c => calls'[d] = calls[d]
  BY DEF Joins
<1>5. calls'[c].pc # "idle"
  BY <1>4
<1>6. /\ DOMAIN windows' = DOMAIN windows \cup {k} /\ k # 0
      /\ windows'[k] = x /\ x.phase = "Open" /\ x.outcome = "None"
      /\ \A v \in DOMAIN windows : v # k => windows'[v] = windows[v]
  BY DEF Joins
<1>7. /\ DOMAIN x.slots = DOMAIN old \cup {s} /\ x.slots[s].item = item
      /\ \A t \in DOMAIN old : x.slots[t].item = old[t].item /\ (t # s => x.slots[t] = old[t])
      /\ s \in DOMAIN old => dedupe
  BY DEF Joins
<1>8. \A d \in Callers, v \in DOMAIN windows' :
         d # c => (InWindow(d, v)' <=> InWindow(d, v)) /\ (InWindow(d, v) => v \in DOMAIN windows)
  BY <1>1, <1>4 DEF InWindow, MembersHaveSlots
<1>9. \A v \in DOMAIN windows' : ~InWindow(c, v) /\ (InWindow(c, v)' <=> v = k)
  BY <1>2, <1>4, <1>6 DEF InWindow
<1>10. \A d \in Callers : InWindow(d, k) =>
          /\ d # c /\ k \in DOMAIN windows /\ old = windows[k].slots /\ windows[k].phase = "Open"
          /\ windows[k].outcome = "None" /\ calls[d].slot \in DOMAIN old
          /\ old[calls[d].slot].item = calls[d].item /\ ran[d] = 0
  <2>1. ASSUME NEW d \in Callers, InWindow(d, k)
        PROVE  d # c /\ k \in DOMAIN windows
    BY <1>6, <1>8, <1>9, <2>1
  <2>2. k \in DOMAIN windows => old = windows[k].slots /\ windows[k].phase = "Open"
    BY DEF Joins
  <2> QED
    BY <1>1, <2>1, <2>2 DEF MembersHaveSlots, RequestIsFixed, RunsOnce
<1>11. TypeOK'
  <2>1. \A v \in DOMAIN windows' : /\ windows'[v].deadline \in DOMAIN windows'
                                   /\ Len(windows'[v].slots) <= CAP
    BY <1>1, <1>6 DEF TypeOK, Joins
  <2>2. dedupe' \in BOOLEAN
    BY <1>1, <1>3 DEF TypeOK
  <2>3. /\ due' \subseteq DOMAIN windows'
        /\ ran' \in [Callers -> Nat] /\ replayed' \subseteq Callers /\ faults' \in Nat
    BY <1>1, <1>3, <1>6 DEF TypeOK
  <2>4. windows' \in Seq(Windows) /\ open' \in 0 .. Len(windows')
    BY DEF Joins
  <2> QED
    BY <1>4, <2>1, <2>2, <2>3, <2>4 DEF TypeOK
<1>12. CallsInOrder'
  <2>1. \A d \in Callers : calls'[d].pc # "idle" <=> d <= c
    BY <1>2, <1>4, <1>5 DEF Callers
  <2> QED
    BY <1>1, <1>2, <1>3, <1>4, <1>5, <2>1 DEF CallsInOrder
<1>13. MembersHaveSlots'
  <2>1. ASSUME NEW d \in Callers
        PROVE  /\ calls'[d].pc \in {"waiting", "flushing", "posting", "left", "dropped"} =>
                    calls'[d].window # 0
               /\ calls'[d].window # 0 => calls'[d].window \in DOMAIN windows'
    BY <1>1, <1>4, <1>6 DEF MembersHaveSlots
  <2>2. ASSUME NEW d \in Callers, NEW v \in DOMAIN windows', InWindow(d, v)'
        PROVE  /\ calls'[d].slot \in DOMAIN windows'[v].slots
               /\ windows'[v].slots[calls'[d].slot].item = calls'[d].item
               /\ windows'[v].outcome = "None" =>
                    calls'[d].pc \in {"waiting", "flushing", "posting", "left", "dropped"}
               /\ calls'[d].pc = "posting" => windows'[v].phase = "Sent"
    <3>1. CASE d = c
      BY <1>4, <1>6, <1>7, <1>9, <2>2, <3>1
    <3>2. CASE d # c /\ v = k
      BY <1>1, <1>4, <1>6, <1>7, <1>8, <1>10, <2>2, <3>2 DEF MembersHaveSlots
    <3>3. CASE d # c /\ v # k
      BY <1>1, <1>4, <1>6, <1>8, <2>2, <3>3 DEF MembersHaveSlots
    <3> QED
      BY <3>1, <3>2, <3>3
  <2>3. ASSUME NEW d \in Callers, NEW v \in DOMAIN windows', InWindow(d, v)',
               calls'[d].pc \in {"flushing", "posting"}
        PROVE  /\ windows'[v].outcome = "None"
               /\ \A e \in Callers : InWindow(e, v)' /\ calls'[e].pc \in {"flushing", "posting"} => e = d
    <3>1. d # c /\ calls'[d] = calls[d] /\ v \in DOMAIN windows /\ InWindow(d, v)
      BY <1>4, <1>8, <2>3
    <3>2. windows[v].outcome = "None" => windows'[v].outcome = "None"
      BY <1>6, <3>1
    <3>3. \A e \in Callers : InWindow(e, v)' /\ calls'[e].pc \in {"flushing", "posting"} =>
             e # c /\ InWindow(e, v) /\ calls[e].pc \in {"flushing", "posting"}
      BY <1>4, <1>8, <2>3
    <3> QED
      BY <1>1, <2>3, <3>1, <3>2, <3>3 DEF MembersHaveSlots
  <2> QED
    BY <2>1, <2>2, <2>3 DEF MembersHaveSlots
<1>14. RequestIsFixed'
  <2>1. ASSUME NEW v \in DOMAIN windows', v # k
        PROVE  v \in DOMAIN windows /\ windows'[v] = windows[v]
    BY <1>6, <2>1
  <2>2. \A d \in Callers, v \in DOMAIN windows' : v # k => (InWindow(d, v)' <=> InWindow(d, v))
    BY <1>8, <1>9
  <2> QED
    BY <1>1, <1>6, <2>1, <2>2 DEF RequestIsFixed
<1>15. RunsOnce'
  <2>1. \A d \in Callers : d \notin replayed =>
                             ran[d] <= 1 /\ (calls'[d].pc = "single" => ran[d] = 0)
    BY <1>1, <1>2, <1>4 DEF RunsOnce
  <2>2. ASSUME NEW d \in Callers, InWindow(d, k)'
        PROVE  ran[d] = 0
    BY <1>2, <1>6, <1>8, <1>10, <2>2
  <2>3. ASSUME NEW d \in Callers, NEW v \in DOMAIN windows', v # k, InWindow(d, v)'
        PROVE  /\ v \in DOMAIN windows /\ windows'[v] = windows[v] /\ InWindow(d, v)
               /\ calls'[d] = calls[d]
    BY <1>4, <1>6, <1>8, <1>9, <2>3
  <2> QED
    BY <1>1, <1>3, <2>1, <2>2, <2>3 DEF RunsOnce
<1>16. WaitersAreCounted'
  <2>1. ASSUME NEW v \in DOMAIN windows', NEW t, v # k \/ t # s
        PROVE  WaitingAt(v, t)' = WaitingAt(v, t)
    BY <1>4, <1>8, <1>9, <2>1 DEF WaitingAt
  <2>2. WaitingAt(k, s)' = WaitingAt(k, s) \cup {c} /\ c \notin WaitingAt(k, s)
    <3>1. \A d \in Callers : d # c => (d \in WaitingAt(k, s)' <=> d \in WaitingAt(k, s))
      BY <1>4, <1>6, <1>8 DEF WaitingAt
    <3>2. c \in WaitingAt(k, s)' /\ c \notin WaitingAt(k, s)
      BY <1>4, <1>6, <1>9 DEF WaitingAt
    <3>3. WaitingAt(k, s) \subseteq Callers /\ WaitingAt(k, s)' \subseteq Callers
      BY DEF WaitingAt
    <3> QED
      BY <3>1, <3>2, <3>3
  <2>3. IsFiniteSet(WaitingAt(k, s))
    <3>1. IsFiniteSet(Callers) /\ WaitingAt(k, s) \subseteq Callers
      BY FS_Interval DEF Callers, WaitingAt
    <3> QED
      BY <3>1, FS_Subset
  <2>4. Cardinality(WaitingAt(k, s)') = Cardinality(WaitingAt(k, s)) + 1
    BY <2>2, <2>3, FS_AddElement
  <2>5. ASSUME NEW v \in DOMAIN windows', v # k, windows'[v].phase = "Open",
               NEW t \in DOMAIN windows'[v].slots
        PROVE  windows'[v].slots[t].waiters = Cardinality(WaitingAt(v, t)')
    BY <1>1, <1>6, <2>1, <2>5 DEF WaitersAreCounted
  <2>6. \A t \in DOMAIN old : old[t].waiters = Cardinality(WaitingAt(k, t))
    BY <1>1 DEF WaitersAreCounted, Joins
  <2>7. ASSUME NEW t \in DOMAIN x.slots
        PROVE  x.slots[t].waiters = Cardinality(WaitingAt(k, t)')
    <3>1. CASE t # s
      BY <1>6, <1>7, <2>1, <2>6, <2>7, <3>1
    <3>2. CASE t = s /\ s \in DOMAIN old
      <4>1. x.slots[s].waiters = old[s].waiters + 1
        BY <3>2 DEF Joins
      <4> QED
        BY <2>4, <2>6, <3>2, <4>1
    <3>3. CASE t = s /\ s \notin DOMAIN old
      <4>1. x.slots[s].waiters = 1
        BY <3>3 DEF Joins
      <4>2. WaitingAt(k, s) = {}
        BY <1>10, <3>3 DEF WaitingAt
      <4> QED
        BY <2>4, <3>3, <4>1, <4>2, FS_EmptySet
    <3> QED
      BY <3>1, <3>2, <3>3
  <2> QED
    BY <1>6, <2>5, <2>7 DEF WaitersAreCounted
<1>17. SlotsAreOwn'
  <2> SUFFICES ASSUME ~dedupe, NEW d \in Callers, NEW v \in DOMAIN windows', InWindow(d, v)'
               PROVE  /\ \A e \in Callers : InWindow(e, v)' /\ calls'[e].slot = calls'[d].slot => e = d
                      /\ windows'[v].phase = "Sent" /\ calls'[d].pc = "left" =>
                           windows'[v].index[calls'[d].slot] = 0
    BY <1>3 DEF SlotsAreOwn
  <2>1. \A e \in Callers : e # c /\ InWindow(e, k) => calls[e].slot # s
    BY <1>7, <1>10
  <2>2. CASE d = c
    BY <1>4, <1>8, <1>9, <2>1, <2>2
  <2>3. CASE d # c
    <3>1. InWindow(d, v) /\ v \in DOMAIN windows /\ calls'[d] = calls[d]
      BY <1>4, <1>8, <2>3
    <3>2. \A e \in Callers : InWindow(e, v) /\ calls[e].slot = calls[d].slot => e = d
      BY <1>1, <3>1 DEF SlotsAreOwn
    <3>3. \A e \in Callers : InWindow(e, v)' /\ calls'[e].slot = calls'[d].slot => e = d
      BY <1>4, <1>8, <1>9, <2>1, <3>1, <3>2
    <3>4. windows'[v].phase = "Sent" => windows'[v] = windows[v]
      BY <1>6, <3>1
    <3> QED
      BY <1>1, <3>1, <3>3, <3>4 DEF SlotsAreOwn
  <2> QED
    BY <2>2, <2>3
<1>18. LeftIsNotSent'
  BY <1>1, <1>3, <1>4 DEF LeftIsNotSent
<1>19. AnswerIsOwn'
  BY <1>1, <1>4 DEF AnswerIsOwn
<1> QED
  BY <1>11, <1>12, <1>13, <1>14, <1>15, <1>16, <1>17, <1>18, <1>19 DEF BatchCore

(* The window in the map admits the caller *)
LEMMA MemberKeeps ==
    ASSUME BatchCore, NEW c \in Callers, c = Called + 1, NEW item \in Items, NEW w \in Listed,
           Member(c, item, w), UNCHANGED <<dedupe, due, ran, replayed, faults>>
    PROVE  BatchCore'
<1> DEFINE win == windows[w]
           p == try_push(win, item)
<1>1. TypeOK /\ RequestIsFixed
  BY DEF BatchCore
<1>2. /\ w \in DOMAIN windows /\ w # 0 /\ w \in Nat /\ w \in 0 .. Len(windows)
      /\ windows \in Seq(Windows) /\ win \in Windows
      /\ win.phase = "Open" /\ win.outcome = "None" /\ ~Full(win, item)
      /\ win.deadline \in DOMAIN windows /\ Len(win.slots) <= CAP
  <2>1. w # 0 /\ win.phase = "Open" /\ ~Full(win, item)
    BY DEF Member, Admits
  <2>2. w \in 0 .. Len(windows) /\ windows \in Seq(Windows)
    BY <1>1, <2>1 DEF TypeOK, Listed
  <2>3. w \in DOMAIN windows
    BY <2>1, <2>2
  <2> QED
    BY <1>1, <2>1, <2>2, <2>3 DEF TypeOK, RequestIsFixed
<1>3. /\ p.window \in Windows /\ p.window.phase = "Open"
      /\ p.window.outcome = win.outcome /\ p.window.deadline = win.deadline
      /\ Len(p.window.slots) <= CAP
      /\ p.slot \in Nat /\ DOMAIN p.window.slots = DOMAIN win.slots \cup {p.slot}
      /\ p.window.slots[p.slot].item = item
      /\ \A s \in DOMAIN win.slots : /\ p.window.slots[s].item = win.slots[s].item
                                     /\ s # p.slot => p.window.slots[s] = win.slots[s]
      /\ p.window.slots[p.slot].waiters =
           IF p.slot \in DOMAIN win.slots THEN win.slots[p.slot].waiters + 1 ELSE 1
      /\ p.slot \in DOMAIN win.slots => dedupe
  <2> HIDE DEF win
  <2> QED
    BY <1>2, PushedShape
<1>4. /\ windows' = [windows EXCEPT ![w] = p.window] /\ open' = w
      /\ Become(c, "waiting", item, w, p.slot)
  BY DEF Member
<1> HIDE DEF p
<1>5. /\ windows' \in Seq(Windows) /\ Len(windows') = Len(windows)
      /\ DOMAIN windows' = DOMAIN windows /\ windows'[w] = p.window
      /\ \A v \in DOMAIN windows : v # w => windows'[v] = windows[v]
  BY <1>2, <1>3, <1>4, ReplacedWindow
<1>6. /\ calls' \in [Callers -> Calls]
      /\ calls'[c].pc = "waiting" /\ calls'[c].item = item
      /\ calls'[c].window = w /\ calls'[c].slot = p.slot
      /\ \A d \in Callers : d # c => calls'[d] = calls[d]
  BY <1>2, <1>3, <1>4, BecomeFrame
<1>7. Joins(c, item, w, p.window, p.slot, win.slots)
  <2>1. DOMAIN windows' = DOMAIN windows \cup {w}
    BY <1>2, <1>5
  <2> HIDE DEF win
  <2>2. win.slots = windows[w].slots /\ windows[w].phase = "Open"
    BY <1>2 DEF win
  <2> QED
    BY <1>2, <1>3, <1>4, <1>5, <1>6, <2>1, <2>2 DEF Joins
<1> QED
  BY <1>7, JoinedKeeps

(* The window in the map is full: its next caller is the first of another *)
LEMMA OverflowKeeps ==
    ASSUME BatchCore, NEW c \in Callers, c = Called + 1, NEW item \in Items, NEW w \in Listed,
           Overflow(c, item, w), UNCHANGED <<dedupe, due, ran, replayed, faults>>
    PROVE  BatchCore'
<1> DEFINE n == Len(windows) + 1
           win == Window(windows[w].deadline)
           p == try_push(win, item)
<1>1. TypeOK
  BY DEF BatchCore
<1>2. /\ w \in DOMAIN windows /\ windows \in Seq(Windows) /\ n \in Nat \ {0}
      /\ windows[w].deadline \in DOMAIN windows /\ windows[w].deadline \in Nat
  <2>1. w # 0
    BY DEF Overflow
  <2>2. w \in 0 .. Len(windows) /\ windows \in Seq(Windows)
    BY <1>1, <2>1 DEF TypeOK, Listed
  <2>3. w \in DOMAIN windows
    BY <2>1, <2>2
  <2> QED
    BY <1>1, <2>2, <2>3 DEF TypeOK
<1>3. /\ win \in Windows /\ win.phase = "Open" /\ win.outcome = "None" /\ win.slots = <<>>
      /\ win.deadline = windows[w].deadline /\ ~Full(win, item)
  <2>1. /\ win \in Windows /\ win.phase = "Open" /\ win.outcome = "None" /\ win.slots = <<>>
        /\ win.deadline = windows[w].deadline
    BY <1>2, WindowType DEF Window
  <2> HIDE DEF win
  <2> QED
    BY <2>1 DEF Full
<1> HIDE DEF win
<1>4. /\ p.window \in Windows /\ p.window.phase = "Open"
      /\ p.window.outcome = win.outcome /\ p.window.deadline = win.deadline
      /\ Len(p.window.slots) <= CAP
      /\ p.slot \in Nat /\ DOMAIN p.window.slots = DOMAIN win.slots \cup {p.slot}
      /\ p.window.slots[p.slot].item = item
      /\ \A s \in DOMAIN win.slots : /\ p.window.slots[s].item = win.slots[s].item
                                     /\ s # p.slot => p.window.slots[s] = win.slots[s]
      /\ p.window.slots[p.slot].waiters =
           IF p.slot \in DOMAIN win.slots THEN win.slots[p.slot].waiters + 1 ELSE 1
      /\ p.slot \in DOMAIN win.slots => dedupe
  BY <1>3, PushedShape
<1>5. /\ windows' = Append(windows, p.window) /\ open' = Len(windows')
      /\ Become(c, "waiting", item, Len(windows'), p.slot)
  BY DEF Overflow, win
<1> HIDE DEF p, n
<1>6. /\ windows' \in Seq(Windows) /\ Len(windows') = n /\ DOMAIN windows' = DOMAIN windows \cup {n}
      /\ n \notin DOMAIN windows /\ windows'[n] = p.window /\ open' = n
      /\ \A v \in DOMAIN windows : windows'[v] = windows[v]
  BY <1>2, <1>4, <1>5, AppendedWindow DEF n
<1>7. /\ calls' \in [Callers -> Calls]
      /\ calls'[c].pc = "waiting" /\ calls'[c].item = item
      /\ calls'[c].window = n /\ calls'[c].slot = p.slot
      /\ \A d \in Callers : d # c => calls'[d] = calls[d]
  <2>1. Become(c, "waiting", item, n, p.slot)
    BY <1>5, <1>6
  <2> QED
    BY <1>2, <1>4, <2>1, BecomeFrame
<1>8. Joins(c, item, n, p.window, p.slot, win.slots)
  BY <1>2, <1>3, <1>4, <1>6, <1>7 DEF Joins
<1> QED
  BY <1>8, JoinedKeeps

LEMMA JoinKeeps == ASSUME NEW c \in Callers, BatchCore, join(c) PROVE BatchCore'
<1>1. c = Called + 1 /\ UNCHANGED <<dedupe, due, ran, replayed, faults>>
  BY DEF join
<1>2. PICK item \in Items, w \in Listed :
         Lead(c, item, w) \/ Member(c, item, w) \/ Overflow(c, item, w)
  BY DEF join
<1> QED
  BY <1>1, <1>2, LeadKeeps, MemberKeeps, OverflowKeeps

-----------------------------------------------------------------------------
(* The specification. *)

LEMMA BatchCoreInit == Init => BatchCore
<1> SUFFICES ASSUME Init PROVE BatchCore
  OBVIOUS
<1>1. /\ windows = <<>> /\ open = 0 /\ due = {} /\ replayed = {} /\ faults = 0 /\ dedupe \in BOOLEAN
      /\ DOMAIN windows = {} /\ Len(windows) = 0 /\ windows \in Seq(Windows)
  BY DEF Init
<1>2. calls \in [Callers -> Calls] /\ ran \in [Callers -> Nat]
  BY NoCallType DEF Init
<1>3. \A c \in Callers : calls[c].pc = "idle" /\ calls[c].window = 0 /\ ran[c] = 0
  BY DEF Init, NoCall
<1>4. TypeOK
  BY <1>1, <1>2 DEF TypeOK
<1>5. CallsInOrder
  <2>1. 0 \in 0 .. MAX_CALLS /\ \A c \in Callers : calls[c].pc # "idle" <=> c <= 0
    BY <1>3 DEF Callers
  <2> QED
    BY <1>3, <2>1 DEF CallsInOrder
<1>6. MembersHaveSlots /\ RequestIsFixed /\ RunsOnce /\ WaitersAreCounted /\ SlotsAreOwn
  BY <1>1, <1>3 DEF MembersHaveSlots, RequestIsFixed, RunsOnce, WaitersAreCounted, SlotsAreOwn
<1>7. LeftIsNotSent /\ AnswerIsOwn
  BY <1>3 DEF LeftIsNotSent, AnswerIsOwn
<1> QED
  BY <1>4, <1>5, <1>6, <1>7 DEF BatchCore

LEMMA BatchCoreNext == BatchCore /\ [Next]_vars => BatchCore'
<1> SUFFICES ASSUME BatchCore, [Next]_vars PROVE BatchCore'
  OBVIOUS
<1>1. CASE DeadlinePasses
  BY <1>1, DeadlinePassesKeeps
<1>2. ASSUME NEW c \in Callers, join(c) PROVE BatchCore'
  BY <1>2, JoinKeeps
<1>3. ASSUME NEW c \in Callers, Step(c) PROVE BatchCore'
  BY <1>3, BeginFlushKeeps, TakeWindowKeeps, BulkAnsweredKeeps, BulkFailedKeeps, ReceiveKeeps,
     SingleKeeps DEF Step
<1>4. ASSUME NEW c \in Callers, Drop(c) PROVE BatchCore'
  BY <1>4, DropOpenKeeps, DropClosedKeeps
<1>6. ASSUME NEW c \in Callers, Resent(c) PROVE BatchCore'
  BY <1>6, ResentKeeps
<1>5. CASE UNCHANGED vars
  <2>1. TypeOK' /\ CallsInOrder' /\ LeftIsNotSent' /\ AnswerIsOwn'
    BY <1>5 DEF vars, BatchCore, TypeOK, CallsInOrder, LeftIsNotSent, AnswerIsOwn
  <2>2. MembersHaveSlots' /\ RequestIsFixed'
    BY <1>5 DEF vars, BatchCore, MembersHaveSlots, RequestIsFixed, InWindow
  <2>3. RunsOnce' /\ SlotsAreOwn'
    BY <1>5 DEF vars, BatchCore, RunsOnce, SlotsAreOwn, InWindow
  <2>4. WaitersAreCounted'
    BY <1>5 DEF vars, BatchCore, WaitersAreCounted, WaitingAt, InWindow
  <2> QED
    BY <2>1, <2>2, <2>3, <2>4 DEF BatchCore
<1> QED
  BY <1>1, <1>2, <1>3, <1>4, <1>5, <1>6 DEF Next

LEMMA BatchCoreAlways == Spec => []BatchCore
  BY BatchCoreInit, BatchCoreNext, PTL DEF Spec

(* However callers join, leave and take over from each other, and whatever a  *)
(* request comes to: no window holds more than a bulk request may, no item of *)
(* a caller that left in time is sent, and none runs twice but by a replay    *)
(* that is accepted: the stack sent its request again, its sender was dropped *)
(* or it was answered amiss (Batcher::call, Window, classify, batched.rs).    *)
THEOREM ReplaysAreAccepted == Spec => []BatchInvariant
<1>1. BatchCore => BatchInvariant
  <2> SUFFICES ASSUME BatchCore PROVE RunTwiceByDesign
    BY DEF BatchCore, BatchInvariant
  <2>1. RunsOnce /\ \A c \in Callers : ran[c] \in Nat
    BY DEF BatchCore, TypeOK
  <2> QED
    BY <2>1 DEF RunsOnce, RunTwiceByDesign
<1> QED
  BY <1>1, BatchCoreAlways, PTL

(* Each caller gets the answer to its own item, given after its call was made, *)
(* for any number of callers and windows (Batcher::call, Window::take).        *)
THEOREM AnswersAreOwn == Spec => []AnswerIsOwn
<1>1. BatchCore => AnswerIsOwn
  BY DEF BatchCore
<1> QED
  BY <1>1, BatchCoreAlways, PTL

==============================================================================
