----------------------------- MODULE PassControl -----------------------------
(***************************************************************************)
(* The control of one sync pair: the persisted paused flag and its         *)
(* in-memory channel, the verbs that change them (pause, resume, cancel    *)
(* the paused actions, remove), the gate a pass holds from before its      *)
(* first read to its end, and the stop of a watch.                         *)
(*                                                                         *)
(* Sources: filen-sdk-rs/src/sync_engine/pause/mod.rs, engine/mod.rs (the  *)
(* control verbs and run_pass), apply/mod.rs (where the gate is asked) and *)
(* watch/mod.rs (Stop, unpark_on_stop, wait_while_paused).                 *)
(*                                                                         *)
(* What a pass reads, plans and writes is left out: a pass is the sequence *)
(* of places where control can reach it.  Pair ids are never reused (the   *)
(* table is AUTOINCREMENT), so one pair is one id.                         *)
(***************************************************************************)
EXTENDS Naturals, FiniteSets

CONSTANTS
    Callers,      \* tasks that call control verbs
    MAX_CALLS,    \* control verbs, sync_once calls and restarts, all told
    MAX_ACTIONS,  \* actions of one pass's plan
    MAX_GRACES    \* removals that give up waiting for the pass

ASSUME BoundsAssumption ==
    /\ {MAX_CALLS, MAX_ACTIONS, MAX_GRACES} \subseteq Nat
    /\ "free" \notin Callers

VARIABLES
    row,      \* the pair's registry row and its paused flag
    chan,     \* the value of the pair's control channel (its last one once removed)
    mapped,   \* whether the engine's `paused` map holds that channel
    reg,      \* who holds the registry lock
    call,     \* the verb each caller is in
    pass,     \* where each pass is
    left,     \* actions a pass has not started
    firing,   \* passes whose escalation timer has gone off and has not been acted on
    loop,     \* the watch loop
    stop,     \* the watch handle was dropped or stopped
    removed,  \* the removal signal of the pair
    grace,    \* removals that ran out of patience so far
    used      \* calls and restarts so far

vars == <<row, chan, mapped, reg, call, pass, left, firing, loop, stop,
          removed, grace, used>>

Passes == {"watch", "once"}

Suspensions == {"Suspended", "Escalating"}  \* escalate_at: None, Some(_)
Controls == {"Run", "Cancelled", "Retired"} \cup Suspensions
Stopped == {"Cancelled", "Retired"}

Phases == {"idle", "gate", "view", "read0", "read", "record", "next", "lock",
           "serial", "transfer", "commit", "tail"}
\* The phases in which a pass holds its gate.
Gated == Phases \ {"idle", "gate"}
\* Those from which it writes rows, now or later: all that follow its read.
Writing == {"record", "next", "lock", "serial", "transfer", "commit", "tail"}
\* Those in which PassGate::guard races its work against a cancel.
Guarded == {"view", "read0", "read", "lock", "transfer"}

Verbs == Controls \cup {"cancel", "remove", "none"}
Steps == {"idle", "persist", "send", "convert", "closing", "store", "retire",
          "cascade", "forget"}

is_paused == mapped /\ chan # "Run"
pair_removed == removed
StopEnded == stop \/ pair_removed

TypeOK ==
    /\ row \in {"none", "on", "paused"}
    /\ chan \in Controls
    /\ mapped \in BOOLEAN
    /\ reg \in Callers \cup {"free"}
    /\ call \in [Callers -> [verb : Verbs, at : Steps]]
    /\ pass \in [Passes -> Phases]
    /\ left \in [Passes -> 0..MAX_ACTIONS]
    /\ firing \subseteq Passes
    /\ loop \in {"off", "top", "paused", "pass", "wait", "ended"}
    /\ stop \in BOOLEAN
    /\ removed \in BOOLEAN
    /\ grace \in 0..MAX_GRACES
    /\ used \in 0..MAX_CALLS

Idle == [verb |-> "none", at |-> "idle"]

\* An engine just opened on a registered pair that is not paused.
Init ==
    /\ row = "on" /\ chan = "Run" /\ mapped = FALSE
    /\ reg = "free"
    /\ call = [c \in Callers |-> Idle]
    /\ pass = [p \in Passes |-> "idle"]
    /\ left = [p \in Passes |-> 0]
    /\ firing = {}
    /\ loop = "off" /\ stop = FALSE /\ removed = FALSE
    /\ grace = 0
    /\ used = 0

-----------------------------------------------------------------------------
(* The control verbs. *)

CountCall == used < MAX_CALLS /\ used' = used + 1
Step(c, at) == call' = [call EXCEPT ![c].at = at]
Return(c) == call' = [call EXCEPT ![c] = Idle]
Begin(c, verb, at) ==
    /\ call[c] = Idle
    /\ CountCall
    /\ call' = [call EXCEPT ![c] = [verb |-> verb, at |-> at]]

PassVars == <<pass, left, firing>>
WatchVars == <<loop, stop>>
\* Mutant: the channel is set before the flag is persisted.
set_control_channel_first(c, control) ==
    /\ reg = "free"
    /\ ~(mapped /\ chan = "Retired")
    /\ Begin(c, control, "persist")
    /\ reg' = c /\ chan' = control /\ mapped' = TRUE
    /\ UNCHANGED <<row, PassVars, WatchVars, removed, grace>>

\* set_control, to its check: the registry lock, and a pair being removed is
\* refused before anything is written.
set_control(c, control) ==
    /\ reg = "free"
    /\ ~(mapped /\ chan = "Retired")
    /\ Begin(c, control, "persist")
    /\ reg' = c
    /\ UNCHANGED <<row, chan, mapped, PassVars, WatchVars, removed, grace>>

pause_pair_with(c) ==
    \E control \in Suspensions \cup {"Cancelled"} : set_control(c, control)

resume_pair(c) == set_control(c, "Run")

\* The persisted flag, first; an unknown pair ends the verb.
PersistFlag(c) ==
    /\ call[c].at = "persist"
    /\ IF row = "none"
         THEN Return(c) /\ reg' = "free" /\ UNCHANGED row
         ELSE /\ row' = IF call[c].verb = "Run" THEN "on" ELSE "paused"
              /\ Step(c, "send")
              /\ UNCHANGED reg
    /\ UNCHANGED <<chan, mapped, PassVars, WatchVars, removed, grace, used>>
\* Mutant: a verb overwrites whatever the channel holds.
SendControl_revives(c) ==
    /\ call[c].at = "send"
    /\ chan' = call[c].verb /\ mapped' = TRUE
    /\ Return(c)
    /\ reg' = "free"
    /\ UNCHANGED <<row, PassVars, WatchVars, removed, grace, used>>

\* The channel, second: a removal that started meanwhile keeps the last word.
SendControl(c) ==
    /\ call[c].at = "send"
    /\ IF mapped /\ chan = "Retired"
         THEN UNCHANGED <<chan, mapped>>
         ELSE chan' = call[c].verb /\ mapped' = TRUE
    /\ Return(c)
    /\ reg' = "free"
    /\ UNCHANGED <<row, PassVars, WatchVars, removed, grace, used>>

\* cancel_paused_actions: the registry is asked under its lock, the channel is
\* read after it, and the conversion is a step of its own.
cancel_paused_actions(c) ==
    /\ reg = "free"
    /\ row # "none"
    /\ is_paused /\ chan # "Retired"
    /\ Begin(c, "cancel", "convert")
    /\ UNCHANGED <<row, chan, mapped, reg, PassVars, WatchVars, removed, grace>>

\* cancel_suspension: a suspension becomes a cancel, every other state stays.
cancel_suspension ==
    chan' = IF chan \in Suspensions THEN "Cancelled" ELSE chan

ConvertPaused(c) ==
    /\ call[c].at = "convert"
    /\ cancel_suspension
    /\ Return(c)
    /\ UNCHANGED <<row, mapped, reg, PassVars, WatchVars, removed, grace, used>>

(* remove_pair: retire the channel, wait for the gates to close, look the   *)
(* pair up, then - under the registry lock - tell the watch, delete the row *)
(* with all that hangs off it, and forget the channel.                      *)

cancel_pass_in_flight(c) ==
    /\ Begin(c, "remove", "closing")
    /\ chan' = "Retired"
    /\ mapped' = TRUE
    /\ UNCHANGED <<row, reg, PassVars, WatchVars, removed, grace>>

\* Mutant: the removal cancels the pass and does not wait for it.
GatesClosed_unwaited(c) ==
    /\ call[c].at = "closing"
    /\ Step(c, "store")
    /\ UNCHANGED <<row, chan, mapped, reg, PassVars, WatchVars, removed, grace, used>>

GatesClosed(c) ==
    /\ call[c].at = "closing"
    /\ \A p \in Passes : pass[p] \notin Gated
    /\ Step(c, "store")
    /\ UNCHANGED <<row, chan, mapped, reg, PassVars, WatchVars, removed, grace, used>>

\* REMOVE_CANCEL_GRACE ran out with the pass still alive.
GraceExpires(c) ==
    /\ call[c].at = "closing"
    /\ \E p \in Passes : pass[p] \in Gated
    /\ grace < MAX_GRACES
    /\ grace' = grace + 1
    /\ Step(c, "store")
    /\ UNCHANGED <<row, chan, mapped, reg, PassVars, WatchVars, removed, used>>

\* pair_store refuses a pair the registry no longer knows.
pair_store(c) ==
    /\ call[c].at = "store"
    /\ reg = "free"
    /\ IF row = "none" THEN Return(c) ELSE Step(c, "retire")
    /\ UNCHANGED <<row, chan, mapped, reg, PassVars, WatchVars, removed, grace, used>>

\* The removal signal, tripped only where a watch has subscribed to it.
TellWatch(c) ==
    /\ call[c].at = "retire"
    /\ reg = "free"
    /\ reg' = c
    /\ removed' = (removed \/ loop # "off")
    /\ Step(c, "cascade")
    /\ UNCHANGED <<row, chan, mapped, PassVars, WatchVars, grace, used>>

\* The delete, which the store may refuse: the verb then fails where it stands.
DeletePair(c) ==
    /\ call[c].at = "cascade"
    /\ \/ row' = "none" /\ Step(c, "forget") /\ UNCHANGED reg
       \/ Return(c) /\ reg' = "free" /\ UNCHANGED row
    /\ UNCHANGED <<chan, mapped, PassVars, WatchVars, removed, grace, used>>

ForgetPair(c) ==
    /\ call[c].at = "forget"
    /\ mapped' = FALSE
    /\ reg' = "free"
    /\ Return(c)
    /\ UNCHANGED <<row, chan, PassVars, WatchVars, removed, grace, used>>

-----------------------------------------------------------------------------
(* A pass. *)

ControlVars == <<row, chan, mapped, reg, call, removed, grace, used>>

Goto(p, phase) == pass' = [pass EXCEPT ![p] = phase]
\* The gate and everything else the pass held goes with it.
EndPass(p) ==
    /\ pass' = [pass EXCEPT ![p] = "idle"]
    /\ left' = [left EXCEPT ![p] = 0]

\* A pass moves only in phase ph, and not while its timer's poll is under way.
At(p, phases) == pass[p] \in phases /\ p \notin firing

\* run_pass starts by asking whether the pair is paused; a paused pair's pass
\* is over at once, and the caller's pass with it.
OnceStarts ==
    /\ pass["once"] = "idle"
    /\ CountCall
    /\ ~is_paused
    /\ Goto("once", "gate")
    /\ UNCHANGED <<row, chan, mapped, reg, call, left, firing, WatchVars, removed, grace>>
\* pass_gate: refused for a pair the registry does not know, under its lock.
pass_gate(p) ==
    /\ At(p, {"gate"})
    /\ reg = "free"
    /\ IF row = "none"
         THEN EndPass(p) /\ UNCHANGED mapped
         ELSE Goto(p, "view") /\ mapped' = TRUE /\ UNCHANGED left
    /\ UNCHANGED <<row, chan, reg, call, firing, WatchVars, removed, grace, used>>

\* A watch's wake with nothing announced runs no pass.
IdlePass(p) ==
    /\ At(p, {"view"}) /\ p = "watch"
    /\ EndPass(p)
    /\ UNCHANGED <<ControlVars, firing, WatchVars>>

\* await_remote_view answers, or the wait ends (halted, or it failed).
ViewConverges(p) ==
    /\ At(p, {"view"})
    /\ Goto(p, "read0")
    /\ UNCHANGED <<ControlVars, left, firing, WatchVars>>

ViewGivenUp(p) ==
    /\ At(p, {"view"})
    /\ chan # "Run"
    /\ EndPass(p)
    /\ UNCHANGED <<ControlVars, firing, WatchVars>>

ViewFails(p) ==
    /\ At(p, {"view"})
    /\ EndPass(p)
    /\ UNCHANGED <<ControlVars, firing, WatchVars>>

\* The read is polled: it always has work to wait for, so a pass already
\* cancelled is dropped here.
ReadStarts(p) ==
    /\ At(p, {"read0"})
    /\ chan \notin Stopped
    /\ Goto(p, "read")
    /\ UNCHANGED <<ControlVars, left, firing, WatchVars>>

\* The read ends: the pass goes on to record it, or fails on it.
ReadEnds(p) ==
    /\ At(p, {"read"})
    /\ Goto(p, "record") \/ EndPass(p)
    /\ left' = [left EXCEPT ![p] = 0]
    /\ UNCHANGED <<ControlVars, firing, WatchVars>>

\* What the pass writes before it applies anything: confirmations, conflicts,
\* the carry-over.  No gate is asked; a row of a deleted pair is refused, and
\* the pass ends on it.
RecordRead(p) ==
    /\ At(p, {"record"})
    /\ \E n \in 0..MAX_ACTIONS :
         IF row = "none" \/ n = 0
           THEN EndPass(p)
           ELSE Goto(p, "next") /\ left' = [left EXCEPT ![p] = n]
    /\ UNCHANGED <<ControlVars, firing, WatchVars>>

\* wait_to_start lets the next action begin.  A remote write that finds no good
\* lease takes the drive lock first (Lease::prepare); a transfer is raced
\* against a cancel, a serial action (a create, a move, a deletion) is not.
wait_to_start(p) ==
    /\ At(p, {"next"})
    /\ chan = "Run"
    /\ left[p] > 0
    /\ \E phase \in {"lock", "serial", "transfer"} : Goto(p, phase)
    /\ left' = [left EXCEPT ![p] = @ - 1]
    /\ UNCHANGED <<ControlVars, firing, WatchVars>>

PlanDone(p) ==
    /\ At(p, {"next"})
    /\ left[p] = 0
    /\ Goto(p, "tail")
    /\ UNCHANGED <<ControlVars, left, firing, WatchVars>>

\* A cancelled pass starts nothing more and reports what it did not do.
Interrupted(p) ==
    /\ At(p, {"next"})
    /\ chan \in Stopped
    /\ Goto(p, "tail")
    /\ UNCHANGED <<ControlVars, left, firing, WatchVars>>

\* Lease::prepare: the lock is granted, or refused once its attempts are spent.
LockAnswers(p) ==
    /\ At(p, {"lock"})
    /\ \E phase \in {"serial", "transfer", "tail"} : Goto(p, phase)
    /\ UNCHANGED <<ControlVars, left, firing, WatchVars>>

\* The operation of an action ends; its row is written outside the race.
OpEnds(p) ==
    /\ At(p, {"serial", "transfer"})
    /\ Goto(p, "commit")
    /\ UNCHANGED <<ControlVars, left, firing, WatchVars>>

\* A record that does not land ends the pass's admissions.
CommitRow(p) ==
    /\ At(p, {"commit"})
    /\ Goto(p, IF row = "none" THEN "tail" ELSE "next")
    /\ UNCHANGED <<ControlVars, left, firing, WatchVars>>

TailEnds(p) ==
    /\ At(p, {"tail"})
    /\ EndPass(p)
    /\ UNCHANGED <<ControlVars, firing, WatchVars>>

\* PassGate::guard: a cancel drops the work where it stands.  A read that is
\* dropped ends the pass; an operation that is dropped is an interrupted action.
guard(p) ==
    /\ At(p, Guarded)
    /\ chan \in Stopped
    /\ IF pass[p] \in {"lock", "transfer"} THEN Goto(p, "tail") /\ UNCHANGED left
                                          ELSE EndPass(p)
    /\ UNCHANGED <<ControlVars, firing, WatchVars>>

\* await_change: the deadline of the suspension passed ...
TimerFires(p) ==
    /\ At(p, Guarded \cup {"next"})
    /\ chan = "Escalating"
    /\ firing' = firing \cup {p}
    /\ UNCHANGED <<ControlVars, pass, left, WatchVars>>

\* ... and the suspension, whichever stands by now, is cancelled.
Escalate(p) ==
    /\ p \in firing
    /\ cancel_suspension
    /\ firing' = firing \ {p}
    /\ UNCHANGED <<row, mapped, reg, call, pass, left, WatchVars, removed, grace, used>>

-----------------------------------------------------------------------------
(* The watch loop. *)

\* watchable_pair: one hold of the registry lock reads the row and subscribes
\* to the removal signal; a paused pair is refused.
watchable_pair ==
    /\ loop = "off"
    /\ reg = "free"
    /\ row = "on"
    /\ loop' = "top"
    /\ UNCHANGED <<ControlVars, PassVars, stop>>

StopWatch ==
    /\ loop \notin {"off", "ended"}
    /\ ~stop
    /\ stop' = TRUE
    /\ UNCHANGED <<ControlVars, PassVars, loop>>

\* The top of the loop: a paused pair waits, any other runs a pass (whose own
\* first look at the pause is the same one).
LoopTop ==
    /\ loop = "top"
    /\ IF is_paused
         THEN loop' = "paused" /\ UNCHANGED pass
         ELSE loop' = "pass" /\ Goto("watch", "gate")
    /\ UNCHANGED <<ControlVars, left, firing, stop>>

wait_while_paused ==
    /\ loop = "paused"
    /\ loop' = IF StopEnded THEN "ended" ELSE "top"
    /\ UNCHANGED <<ControlVars, PassVars, stop>>

PassReturns ==
    /\ loop = "pass"
    /\ pass["watch"] = "idle"
    /\ loop' = "wait"
    /\ UNCHANGED <<ControlVars, PassVars, stop>>

\* Any wake-up: a change, a request, the safety net, the end of a backoff.
wait_for_next_pass ==
    /\ loop = "wait"
    /\ loop' = IF StopEnded THEN "ended" ELSE "top"
    /\ UNCHANGED <<ControlVars, PassVars, stop>>
\* Mutant: only a removal cuts a parked pass loose, a stopped handle does not.
CutSuspension_on_removal ==
    /\ loop = "pass" /\ pair_removed
    /\ mapped /\ chan \in Suspensions
    /\ cancel_suspension
    /\ UNCHANGED <<row, mapped, reg, call, PassVars, WatchVars, removed, grace, used>>

\* unpark_on_stop polls cut_loose_pass while the pass runs: a suspension is
\* cancelled ...
CutSuspension ==
    /\ loop = "pass" /\ StopEnded
    /\ mapped /\ chan \in Suspensions
    /\ cancel_suspension
    /\ UNCHANGED <<row, mapped, reg, call, PassVars, WatchVars, removed, grace, used>>

\* ... and a wait for the remote view is over, whichever pass of the pair is
\* in it.
StopWaiting ==
    /\ loop = "pass" /\ StopEnded
    /\ \E p \in Passes :
         /\ At(p, {"view"})
         /\ EndPass(p)
    /\ UNCHANGED <<ControlVars, firing, WatchVars>>

-----------------------------------------------------------------------------
\* The process dies and the engine is opened again: the flag is all that is
\* left, and a paused pair comes back on the default (escalating) pause.
Reopen ==
    /\ CountCall
    /\ reg' = "free"
    /\ call' = [c \in Callers |-> Idle]
    /\ pass' = [p \in Passes |-> "idle"]
    /\ left' = [p \in Passes |-> 0]
    /\ firing' = {}
    /\ mapped' = (row = "paused")
    /\ chan' = IF row = "paused" THEN "Escalating" ELSE "Run"
    /\ loop' = "off" /\ stop' = FALSE /\ removed' = FALSE
    /\ UNCHANGED <<row, grace>>

VerbStep(c) ==
    \/ PersistFlag(c) \/ SendControl(c) \/ ConvertPaused(c)
    \/ GatesClosed(c) \/ pair_store(c) \/ TellWatch(c)
    \/ DeletePair(c) \/ ForgetPair(c)

VerbBegins(c) ==
    \/ pause_pair_with(c) \/ resume_pair(c) \/ cancel_paused_actions(c)
    \/ cancel_pass_in_flight(c) \/ GraceExpires(c)

\* What a pass does on its own; ViewConverges and ViewFails wait on the cache.
PassStep(p) ==
    \/ pass_gate(p) \/ ReadStarts(p) \/ ReadEnds(p) \/ RecordRead(p)
    \/ wait_to_start(p) \/ PlanDone(p) \/ Interrupted(p) \/ LockAnswers(p)
    \/ OpEnds(p) \/ CommitRow(p) \/ TailEnds(p) \/ ViewGivenUp(p)
    \/ guard(p) \/ Escalate(p)

LoopStep ==
    \/ LoopTop \/ wait_while_paused \/ PassReturns \/ wait_for_next_pass

Unpark == CutSuspension \/ StopWaiting

Next ==
    \/ \E c \in Callers : VerbBegins(c) \/ VerbStep(c)
    \/ \E p \in Passes : \/ PassStep(p) \/ TimerFires(p) \/ IdlePass(p)
                         \/ ViewConverges(p) \/ ViewFails(p)
    \/ OnceStarts \/ watchable_pair \/ StopWatch \/ LoopStep \/ Unpark
    \/ Reopen

\* Tasks that can run do; timers go off.  Nothing is assumed of the cache ever
\* converging, of a removal giving up, or of anyone making a call.
Fairness ==
    /\ \A c \in Callers : WF_vars(VerbStep(c))
    /\ \A p \in Passes : WF_vars(PassStep(p)) /\ WF_vars(TimerFires(p))
    /\ WF_vars(LoopStep)
    /\ WF_vars(CutSuspension) /\ WF_vars(StopWaiting)

Spec == Init /\ [][Next]_vars /\ Fairness

-----------------------------------------------------------------------------
(* Properties. *)

\* remove_pair waits for every pass that could still write: once the pair's
\* row is gone no pass is past its read, unless the removal gave up waiting
\* (REMOVE_CANCEL_GRACE).  A pass that takes its gate while the removal is
\* between its wait and its delete never gets that far.
NothingAfterRemoval ==
    row = "none" /\ grace = 0 => \A p \in Passes : pass[p] \notin Writing

\* The paused flag and the channel agree except inside the verb that is
\* changing both: a pause the database does not know of, which the next open
\* would forget, is never in force, and no running pair is persisted as paused.
InVerb(verbs) == \E c \in Callers : call[c].at = "send" /\ call[c].verb \in verbs
PauseIsPersisted ==
    row # "none" /\ ~(mapped /\ chan = "Retired") =>
        \/ (row = "paused") <=> is_paused
        \/ row = "on" /\ InVerb({"Run"})
        \/ row = "paused" /\ InVerb(Suspensions \cup {"Cancelled"})

\* A removal does not depend on its grace: its cancel reaches a pass wherever it
\* is - waiting for the cache, reading, parked on a pause, waiting for the drive
\* lock, in a transfer - and no verb that lands meanwhile takes it back.
RemovalFinishes ==
    \A c \in Callers : call[c].at = "closing" ~> call[c].at # "closing"

\* Stopping a watch ends its loop, also while its pass is parked on a pause
\* that never escalates or waits for a listing, and when the pause lands after
\* the stop.
StopEndsLoop == (stop \/ removed) ~> loop \in {"off", "ended"}

\* The registry lock is held across a verb's two writes, and across a removal's
\* delete and its forgetting of the channel (registry.lock().await).
RegistryHeld ==
    \A c \in Callers : reg = c <=> call[c].at \in {"persist", "send", "cascade", "forget"}

\* The flag a verb persisted is still there when it sends its control: nothing
\* else writes the row under its lock (set_control).
FlagIsOwn ==
    \A c \in Callers :
      /\ call[c].at \in {"persist", "send"} => call[c].verb \in Controls \ {"Retired"}
      /\ call[c].at = "send" => row = IF call[c].verb = "Run" THEN "on" ELSE "paused"

\* From its first step to its delete, a removal's cancel stands: no verb, timer
\* or stop takes the channel back, and only a removal forgets it (send_control,
\* cancel_suspension).
RetiredStands ==
    /\ \A c \in Callers :
         /\ call[c].at \in {"closing", "store", "retire", "cascade"} =>
              chan = "Retired" /\ (mapped \/ row = "none")
         /\ call[c].at = "forget" => row = "none"
    /\ row # "none" /\ ~mapped => chan = "Run"
    /\ row = "none" => chan = "Retired" \/ \A p \in Passes : pass[p] \notin Gated

\* From the moment the gates were seen closed no pass is reading, or writing
\* what it read: one that took its gate since is still before its read.
NoneReads ==
    grace = 0 /\ (row = "none" \/ \E c \in Callers : call[c].at \in {"store", "retire", "cascade"}) =>
        \A p \in Passes : pass[p] \notin Writing \cup {"read"}

\* The database, the channel and the calls between them agree.  Inductive, and
\* with NoneReads it implies NothingAfterRemoval.
ControlInvariant ==
    TypeOK /\ RegistryHeld /\ FlagIsOwn /\ RetiredStands /\ NoneReads /\ PauseIsPersisted
=============================================================================
