------------------------------ MODULE LockLease ------------------------------
(***************************************************************************)
(* The lease behind a ResourceLock (filen-sdk-rs/src/sync/lock/mod.rs).    *)
(*                                                                         *)
(* A lock is one acquire_lock call with a uuid of its own; all locks of    *)
(* the model are on one resource, each on a device with its own clocks.    *)
(* For each lock three client activities talk to the server at once: the   *)
(* acquiring poll, the keep-alive task and a confirm call.  Their requests *)
(* may be lost, delayed and processed more than once (the HTTP layer       *)
(* resends them): once a request is in `wire', copies of it may reach the  *)
(* server at any later time, also when its sender stopped waiting for it.  *)
(*                                                                         *)
(* Time is real time `now', unknown to the clients, the monotonic clock of *)
(* each device, which stops while the device is suspended, and its wall    *)
(* clock, which can be set.                                                *)
(***************************************************************************)
EXTENDS Integers, FiniteSets

CONSTANTS
    Locks,        \* the acquire_lock calls on the resource
    NoLock,       \* the server holds no lease
    TTL,          \* LOCK_SERVER_TTL
    BUDGET,       \* LOCK_LOSS_BUDGET
    REFRESH,      \* LOCK_REFRESH_INTERVAL
    RETRY,        \* LOCK_RETRY_INTERVAL
    CLOCK_TICK,   \* LOCK_CLOCK_TICK
    Confirming,   \* the locks whose holder calls confirm before it writes
    Suspending,   \* the locks whose device may be suspended
    WallSteps,    \* WallSteps[l]: by how much the wall clock of the device may be set
    OlderServer,  \* the server confirms a refresh of a lease it does not hold
    Prompt,       \* the runtime runs a task whose timer is due before time goes on
    MaxTime,      \* bound on real time
    MaxSkew       \* bound on how far a wall clock is set from real time

ASSUME LockAssumption == NoLock \notin Locks

ASSUME TimesAssumption ==
    /\ TTL \in Nat /\ BUDGET \in Nat /\ REFRESH \in Nat
    /\ RETRY \in Nat /\ CLOCK_TICK \in Nat
    /\ REFRESH < BUDGET /\ BUDGET < TTL
    /\ 0 < RETRY /\ 0 < CLOCK_TICK

ASSUME EnvironmentAssumption ==
    /\ Confirming \subseteq Locks /\ Suspending \subseteq Locks
    /\ WallSteps \in [Locks -> SUBSET Int]
    /\ OlderServer \in BOOLEAN /\ Prompt \in BOOLEAN
    /\ MaxTime \in Nat /\ MaxSkew \in Nat

(* Confirmed::age documents its one blind spot, a wall clock set back while *)
(* the device is suspended: a device does one or the other.                *)
ASSUME ClockAssumption == \A l \in Suspending : \A d \in WallSteps[l] : d >= 0

VARIABLES
    now,        \* real time
    mono,       \* mono[l]: monotonic clock (Instant) of the device of l
    wall,       \* wall[l]: wall clock (DateTime<Utc>) of the device of l
    server,     \* the resource's lease on the server
    wire,       \* the requests sent so far, copies of which may reach the server
    phase,      \* phase[l]: how far acquire_lock and the life of its lock are
    poll,       \* poll[l]: the Acquire in flight
    valid,      \* valid[l]: SharedLease.valid
    confirmed,  \* confirmed[l]: SharedLease.confirmed
    users,      \* users[l]: a ResourceLock of l is still held by a caller
    keep,       \* keep[l]: the keep-alive task
    ask         \* ask[l]: the confirm call that holds the `confirming' mutex

clocks == <<now, mono, wall>>
lease  == <<valid, confirmed>>
vars   == <<clocks, server, wire, phase, poll, lease, users, keep, ask>>

-----------------------------------------------------------------------------
(* Values. *)

(* A confirmation: the send time of the confirming request on both clocks; *)
(* `real' is that moment in real time, which no guard of a client reads.   *)
Confirmation == [at : Nat, wall : Int, real : Nat]

Answers  == {"none", "yes", "no"}
Requests == {"acquire", "refresh", "release"} \X Locks

PollState == [sent : Confirmation, answer : Answers]
KeepState == [st : {"sleeping", "asking", "done"}, wake : Nat,
              sent : Confirmation, answer : Answers]
AskState  == [st : {"none", "asking", "pausing", "ok", "lost", "error"}, wake : Nat,
              sent : Confirmation, answer : Answers, seen : Confirmation]

(* The confirmation a request sent right now by l would be (Confirmed::now) *)
Stamp(l) == [at |-> mono[l], wall |-> wall[l], real |-> now]

NoStamp == [at |-> 0, wall |-> 0, real |-> 0]

(* An activity that waits for no answer *)
NoPoll == [sent |-> NoStamp, answer |-> "none"]
KeepIdle(st, wake) == [st |-> st, wake |-> wake, sent |-> NoStamp, answer |-> "none"]
AskIdle(st) ==
    [st |-> st, wake |-> 0, sent |-> NoStamp, answer |-> "none", seen |-> NoStamp]

(* Faulty variants: the age by one clock only *)
AgeByMonotonicClock(l, c) == mono[l] - c.at
AgeByWallClock(l, c) == wall[l] - c.wall

(* Confirmed::age: by whichever clock ran further.  The monotonic clock    *)
(* never runs backwards, so a wall clock set back counts as no time.       *)
AgeOf(l, c) ==
    IF wall[l] - c.wall > mono[l] - c.at THEN wall[l] - c.wall
                                         ELSE mono[l] - c.at

Age(l) == AgeOf(l, confirmed[l])

(* Confirmed::is_newer_than *)
IsNewerThan(c, d) == c.at > d.at \/ (c.at = d.at /\ c.wall > d.wall)

(* record_confirmation *)
Recorded(old, sent) == IF IsNewerThan(sent, old) THEN sent ELSE old

(* ResourceLock::is_valid *)
IsValid(l) == phase[l] = "held" /\ valid[l] /\ Age(l) < BUDGET

(* A SharedLease lives while a caller or the keep-alive's request holds it *)
Alive(l) == phase[l] = "held" /\ (users[l] \/ keep[l].st = "asking")

(* The server holds the resource for l *)
Holds(l) == server.holder = l /\ now < server.expires

Init ==
    /\ now = 0
    /\ mono = [l \in Locks |-> 0]
    /\ wall = [l \in Locks |-> 0]
    /\ server = [holder |-> NoLock, expires |-> 0]
    /\ wire = {}
    /\ phase = [l \in Locks |-> "idle"]
    /\ poll = [l \in Locks |-> NoPoll]
    /\ valid = [l \in Locks |-> TRUE]
    /\ confirmed = [l \in Locks |-> NoStamp]
    /\ users = [l \in Locks |-> FALSE]
    /\ keep = [l \in Locks |-> KeepIdle("done", 0)]
    /\ ask = [l \in Locks |-> AskIdle("none")]

-----------------------------------------------------------------------------
(* Time and clocks. *)

(* A timer of l that is due: the task it wakes has not run yet *)
TimerDue(l) ==
    \/ keep[l].st \in {"sleeping", "asking"} /\ mono[l] >= keep[l].wake
    \/ ask[l].st \in {"pausing", "asking"} /\ mono[l] >= ask[l].wake

(* Time passes; the devices in S are suspended meanwhile *)
Tick(S) ==
    /\ now < MaxTime
    /\ Prompt => \A l \in Locks \ S : ~TimerDue(l)
    /\ now' = now + 1
    /\ mono' = [l \in Locks |-> IF l \in S THEN mono[l] ELSE mono[l] + 1]
    /\ wall' = [l \in Locks |-> wall[l] + 1]
    /\ UNCHANGED <<server, wire, phase, poll, lease, users, keep, ask>>

(* The wall clock of the device of l is set by d *)
SetWallClock(l, d) ==
    /\ wall[l] + d - now \in (-MaxSkew)..MaxSkew
    /\ wall' = [wall EXCEPT ![l] = @ + d]
    /\ UNCHANGED <<now, mono, server, wire, phase, poll, lease, users, keep, ask>>

-----------------------------------------------------------------------------
(* The server: what the client code relies on of the v3/user/lock endpoint *)

Unheld == server.holder = NoLock \/ now >= server.expires

Granted(l) == server' = [holder |-> l, expires |-> now + TTL]

(* An Acquire is granted on a free resource.  One repeated by the holder's *)
(* own uuid restarts the lease or is refused.                              *)
ServeAcquire(l, answer) ==
    \/ Unheld /\ Granted(l) /\ answer = "yes"
    \/ Holds(l) /\ Granted(l) /\ answer = "yes"
    \/ ~Unheld /\ UNCHANGED server /\ answer = "no"

(* A Refresh restarts the lease of its uuid.  An older server also         *)
(* confirms one whose lease is gone.                                       *)
ServeRefresh(l, answer) ==
    \/ Holds(l) /\ Granted(l) /\ answer = "yes"
    \/ ~Holds(l) /\ UNCHANGED server /\ answer = "no"
    \/ OlderServer /\ ~Holds(l) /\ UNCHANGED server /\ answer = "yes"

(* A Release frees only the lease of its uuid *)
ServeRelease(l) ==
    server' = IF server.holder = l THEN [holder |-> NoLock, expires |-> now] ELSE server

(* An awaited request is processed, perhaps once more, and its answer is   *)
(* under way, in place of an earlier one the HTTP layer did not get        *)
ServePoll(l) ==
    /\ phase[l] = "polling"
    /\ \E answer \in {"yes", "no"} :
         ServeAcquire(l, answer) /\ poll' = [poll EXCEPT ![l] = [@ EXCEPT !.answer = answer]]
    /\ UNCHANGED <<clocks, wire, phase, lease, users, keep, ask>>

ServeKeepAlive(l) ==
    /\ keep[l].st = "asking"
    /\ \E answer \in {"yes", "no"} :
         ServeRefresh(l, answer) /\ keep' = [keep EXCEPT ![l] = [@ EXCEPT !.answer = answer]]
    /\ UNCHANGED <<clocks, wire, phase, poll, lease, users, ask>>

ServeConfirm(l) ==
    /\ ask[l].st = "asking"
    /\ \E answer \in {"yes", "no"} :
         ServeRefresh(l, answer) /\ ask' = [ask EXCEPT ![l] = [@ EXCEPT !.answer = answer]]
    /\ UNCHANGED <<clocks, wire, phase, poll, lease, users, keep>>

(* A copy of a request reaches the server, and its answer reaches nobody *)
ServeUnawaited(l) ==
    /\ \/ <<"acquire", l>> \in wire /\ \E answer \in {"yes", "no"} : ServeAcquire(l, answer)
       \/ <<"refresh", l>> \in wire /\ \E answer \in {"yes", "no"} : ServeRefresh(l, answer)
       \/ <<"release", l>> \in wire /\ ServeRelease(l)
    /\ UNCHANGED <<clocks, wire, phase, poll, lease, users, keep, ask>>

Server == \E l \in Locks :
    ServePoll(l) \/ ServeKeepAlive(l) \/ ServeConfirm(l) \/ ServeUnawaited(l)

-----------------------------------------------------------------------------
(* acquire_lock: the polls, each from a task of its own (request_acquire).  *)
(* The schedule and the limits of acquire_loop are in module LockRequests.  *)

StartPoll(l) ==
    /\ phase' = [phase EXCEPT ![l] = "polling"]
    /\ poll' = [poll EXCEPT ![l] = [sent |-> Stamp(l), answer |-> "none"]]
    /\ wire' = wire \cup {<<"acquire", l>>}
    /\ UNCHANGED <<clocks, server, lease, users, keep, ask>>

Acquire(l) == phase[l] = "idle" /\ StartPoll(l)

(* Refused, or failed in transport with the outcome unknown: polled again *)
PollAgain(l) == phase[l] = "polling" /\ StartPoll(l)

(* Faulty variant: the lease counts from the arrival of the grant *)
PollGrantedOnArrival(l) ==
    /\ phase[l] = "polling" /\ poll[l].answer = "yes"
    /\ phase' = [phase EXCEPT ![l] = "held"]
    /\ confirmed' = [confirmed EXCEPT ![l] = Stamp(l)]
    /\ users' = [users EXCEPT ![l] = TRUE]
    /\ poll' = [poll EXCEPT ![l] = NoPoll]
    /\ keep' = [keep EXCEPT ![l] = KeepIdle("sleeping", mono[l])]
    /\ UNCHANGED <<clocks, server, wire, valid, ask>>

(* Granted: the lease counts from the send of the granting poll, and its   *)
(* keep-alive starts                                                       *)
PollGranted(l) ==
    /\ phase[l] = "polling" /\ poll[l].answer = "yes"
    /\ phase' = [phase EXCEPT ![l] = "held"]
    /\ confirmed' = [confirmed EXCEPT ![l] = poll[l].sent]
    /\ users' = [users EXCEPT ![l] = TRUE]
    /\ poll' = [poll EXCEPT ![l] = NoPoll]
    /\ keep' = [keep EXCEPT ![l] = KeepIdle("sleeping", mono[l])]
    /\ UNCHANGED <<clocks, server, wire, valid, ask>>

(* acquire_lock fails, or its caller goes away.  The request may still be  *)
(* granted; its task, or the OwedRelease it drops, releases that grant (or *)
(* nobody does, see LockRequests: a request on the wire may stay there).   *)
PollAbandoned(l) ==
    /\ phase[l] = "polling"
    /\ phase' = [phase EXCEPT ![l] = "gone"]
    /\ poll' = [poll EXCEPT ![l] = NoPoll]
    /\ wire' = wire \cup {<<"release", l>>}
    /\ UNCHANGED <<clocks, server, lease, users, keep, ask>>

-----------------------------------------------------------------------------
(* The end of a lease. *)

(* mark_lost: the flag falls once, and its fall sends a release *)
MarkLost(l) ==
    /\ valid' = [valid EXCEPT ![l] = FALSE]
    /\ wire' = wire \cup (IF valid[l] THEN {<<"release", l>>} ELSE {})

(* Drop for SharedLease, once neither a caller nor a request holds it *)
DropLease(l) ==
    /\ phase' = [phase EXCEPT ![l] = "gone"]
    /\ wire' = wire \cup {<<"release", l>>}

(* Faulty variant: the release goes out under the keep-alive's refresh *)
DropLockAtOnce(l) ==
    /\ phase[l] = "held" /\ users[l]
    /\ users' = [users EXCEPT ![l] = FALSE]
    /\ ask' = [ask EXCEPT ![l] = AskIdle("none")]
    /\ wire' = wire \cup {<<"release", l>>}
    /\ UNCHANGED <<clocks, server, phase, poll, lease, keep>>

(* The last caller drops its ResourceLock, a confirm under way with it *)
DropLock(l) ==
    /\ phase[l] = "held" /\ users[l]
    /\ users' = [users EXCEPT ![l] = FALSE]
    /\ ask' = [ask EXCEPT ![l] = AskIdle("none")]
    /\ IF keep[l].st = "asking" THEN UNCHANGED <<phase, wire>> ELSE DropLease(l)
    /\ UNCHANGED <<clocks, server, poll, lease, keep>>

-----------------------------------------------------------------------------
(* The keep-alive task: refresh_loop and run_keep_alive. *)

KeepSleeps(l, until) ==
    keep' = [keep EXCEPT ![l] = KeepIdle("sleeping", until)]

KeepEnds(l) == keep' = [keep EXCEPT ![l] = KeepIdle("done", 0)]

(* until_refresh_due wakes up *)
KeepWakes(l) == keep[l].st = "sleeping" /\ mono[l] >= keep[l].wake

KeepNotDue(l) ==
    /\ KeepWakes(l) /\ valid[l] /\ Age(l) < REFRESH
    /\ LET delay == REFRESH - Age(l)
       IN  KeepSleeps(l, mono[l] + (IF delay < CLOCK_TICK THEN delay ELSE CLOCK_TICK))
    /\ UNCHANGED <<clocks, server, wire, phase, poll, lease, users, ask>>

(* Lost already, or no refresh confirmed while the lease could stand *)
KeepFindsLost(l) ==
    /\ KeepWakes(l) /\ (~valid[l] \/ Age(l) >= TTL)
    /\ KeepEnds(l)
    /\ IF Alive(l) THEN MarkLost(l) ELSE UNCHANGED <<valid, wire>>
    /\ UNCHANGED <<clocks, server, phase, poll, confirmed, users, ask>>

KeepFindsDropped(l) ==
    /\ KeepWakes(l) /\ valid[l] /\ Age(l) \in REFRESH..(TTL - 1) /\ ~Alive(l)
    /\ KeepEnds(l)
    /\ UNCHANGED <<clocks, server, wire, phase, poll, lease, users, ask>>

(* The refresh is given as long as the lease could still stand *)
KeepSends(l) ==
    /\ KeepWakes(l) /\ valid[l] /\ Age(l) \in REFRESH..(TTL - 1) /\ Alive(l)
    /\ keep' = [keep EXCEPT ![l] = [st |-> "asking", wake |-> mono[l] + (TTL - Age(l)),
                                    sent |-> Stamp(l), answer |-> "none"]]
    /\ wire' = wire \cup {<<"refresh", l>>}
    /\ UNCHANGED <<clocks, server, phase, poll, lease, users, ask>>

(* Faulty variant: an answer is trusted however old the lease *)
TrustedAtAnyAge(l) == valid[l]

(* Only an answer received inside the lease of a lock not lost is trusted *)
Trusted(l) == valid[l] /\ Age(l) < TTL

(* The request's future held the lease: with no caller left, it drops *)
LetGo(l) == IF users[l] THEN UNCHANGED <<phase, wire>> ELSE DropLease(l)

(* Faulty variant: any confirming answer is recorded *)
KeepConfirmedUnchecked(l) ==
    /\ keep[l].st = "asking" /\ keep[l].answer = "yes"
    /\ confirmed' = [confirmed EXCEPT ![l] = Recorded(@, keep[l].sent)]
    /\ KeepSleeps(l, mono[l])
    /\ LetGo(l)
    /\ UNCHANGED <<clocks, server, poll, valid, users, ask>>

KeepConfirmed(l) ==
    /\ keep[l].st = "asking" /\ keep[l].answer = "yes" /\ Trusted(l)
    /\ confirmed' = [confirmed EXCEPT ![l] = Recorded(@, keep[l].sent)]
    /\ KeepSleeps(l, mono[l])
    /\ LetGo(l)
    /\ UNCHANGED <<clocks, server, poll, valid, users, ask>>

(* Refused, answered too late, or lost meanwhile *)
KeepRefused(l) ==
    /\ keep[l].st = "asking"
    /\ keep[l].answer = "no" \/ (keep[l].answer = "yes" /\ ~Trusted(l))
    /\ KeepEnds(l)
    /\ IF users[l] THEN MarkLost(l) /\ UNCHANGED phase
                   ELSE DropLease(l) /\ UNCHANGED valid
    /\ UNCHANGED <<clocks, server, poll, confirmed, users, ask>>

(* Faulty variant: a failed refresh ends the keep-alive *)
KeepGivesUp(l) ==
    /\ keep[l].st = "asking"
    /\ KeepEnds(l)
    /\ LetGo(l)
    /\ UNCHANGED <<clocks, server, poll, lease, users, ask>>

(* The refresh fails, and is sent again after a pause, or outlives the lease *)
KeepUnanswered(l) ==
    /\ keep[l].st = "asking"
    /\ \/ KeepSleeps(l, mono[l] + RETRY)
       \/ mono[l] >= keep[l].wake /\ KeepSleeps(l, mono[l])
    /\ LetGo(l)
    /\ UNCHANGED <<clocks, server, poll, lease, users, ask>>

KeepAlive(l) ==
    \/ KeepNotDue(l) \/ KeepFindsLost(l) \/ KeepFindsDropped(l) \/ KeepSends(l)
    \/ KeepConfirmed(l) \/ KeepRefused(l) \/ KeepUnanswered(l)

-----------------------------------------------------------------------------
(* ResourceLock::confirm, for the call that holds the `confirming' mutex;  *)
(* how calls share it is in module LockSharing.                            *)

AskEnds(l, result) == ask' = [ask EXCEPT ![l] = AskIdle(result)]

(* Answered by SharedLease::settled, or a refresh is sent *)
Look(l) ==
    \/ /\ ~valid[l]
       /\ AskEnds(l, "lost")
       /\ UNCHANGED <<valid, wire>>
    \/ /\ valid[l] /\ Age(l) < BUDGET
       /\ AskEnds(l, "ok")
       /\ UNCHANGED <<valid, wire>>
    \/ /\ valid[l] /\ Age(l) >= TTL
       /\ AskEnds(l, "lost")
       /\ MarkLost(l)
    \/ /\ valid[l] /\ Age(l) \in BUDGET..(TTL - 1)
       /\ ask' = [ask EXCEPT ![l] = [st |-> "asking", wake |-> mono[l] + (TTL - Age(l)),
                                     sent |-> Stamp(l), answer |-> "none", seen |-> confirmed[l]]]
       /\ wire' = wire \cup {<<"refresh", l>>}
       /\ UNCHANGED valid

Confirm(l) ==
    /\ l \in Confirming /\ phase[l] = "held" /\ users[l] /\ ask[l].st = "none"
    /\ Look(l)
    /\ UNCHANGED <<clocks, server, phase, poll, confirmed, users, keep>>

AskConfirmed(l) ==
    /\ ask[l].st = "asking" /\ ask[l].answer = "yes" /\ Trusted(l)
    /\ confirmed' = [confirmed EXCEPT ![l] = Recorded(@, ask[l].sent)]
    /\ AskEnds(l, "ok")
    /\ UNCHANGED <<clocks, server, wire, phase, poll, valid, users, keep>>

AskRefused(l) ==
    /\ ask[l].st = "asking" /\ ask[l].answer = "no"
    /\ AskEnds(l, "lost")
    /\ MarkLost(l)
    /\ UNCHANGED <<clocks, server, phase, poll, confirmed, users, keep>>

(* Failed in transport: asked again after a pause; failed otherwise: the   *)
(* error is returned and the lease left as it is                           *)
AskFails(l) ==
    /\ ask[l].st = "asking"
    /\ \/ ask' = [ask EXCEPT ![l] = [AskIdle("pausing") EXCEPT !.wake = mono[l] + RETRY,
                                                        !.seen = confirmed[l]]]
       \/ AskEnds(l, "error")
    /\ UNCHANGED <<clocks, server, wire, phase, poll, lease, users, keep>>

(* The keep-alive recorded a confirmation since this call last looked *)
NewerConfirmation(l) == IsNewerThan(confirmed[l], ask[l].seen)

(* Answered too late or not in time, or woken from the pause: look again *)
AskLooksAgain(l) ==
    /\ \/ ask[l].st = "asking" /\ ask[l].answer = "yes" /\ ~Trusted(l)
       \/ ask[l].st \in {"asking", "pausing"} /\ mono[l] >= ask[l].wake
       \/ ask[l].st = "pausing" /\ (~valid[l] \/ NewerConfirmation(l))
    /\ Look(l)
    /\ UNCHANGED <<clocks, server, phase, poll, confirmed, users, keep>>

(* The request still out, the lease is lost or confirmed by the keep-alive *)
AskOvertaken(l) ==
    /\ ask[l].st = "asking"
    /\ \/ ~valid[l] /\ AskEnds(l, "lost") /\ UNCHANGED <<valid, wire>>
       \/ /\ valid[l] /\ NewerConfirmation(l) /\ Age(l) < BUDGET
          /\ AskEnds(l, "ok") /\ UNCHANGED <<valid, wire>>
       \/ /\ valid[l] /\ NewerConfirmation(l) /\ Age(l) >= TTL
          /\ AskEnds(l, "lost") /\ MarkLost(l)
       \/ /\ valid[l] /\ NewerConfirmation(l) /\ Age(l) \in BUDGET..(TTL - 1)
          /\ ask' = [ask EXCEPT ![l] = [@ EXCEPT !.wake = mono[l] + (TTL - Age(l)),
                                                 !.seen = confirmed[l]]]
          /\ UNCHANGED <<valid, wire>>
    /\ UNCHANGED <<clocks, server, phase, poll, confirmed, users, keep>>

(* The caller gets the answer, or gives the call up *)
ConfirmReturns(l) ==
    /\ ask[l].st # "none"
    /\ AskEnds(l, "none")
    /\ UNCHANGED <<clocks, server, wire, phase, poll, lease, users, keep>>

ConfirmCall(l) ==
    \/ Confirm(l) \/ AskConfirmed(l) \/ AskRefused(l) \/ AskFails(l)
    \/ AskLooksAgain(l) \/ AskOvertaken(l) \/ ConfirmReturns(l)

-----------------------------------------------------------------------------
Client(l) ==
    \/ Acquire(l) \/ PollGranted(l) \/ PollAgain(l) \/ PollAbandoned(l)
    \/ DropLock(l)
    \/ KeepAlive(l) \/ ConfirmCall(l)

Environment ==
    \/ \E S \in SUBSET Suspending : Tick(S)
    \/ \E l \in Locks : \E d \in WallSteps[l] : SetWallClock(l, d)

Next == Environment \/ Server \/ \E l \in Locks : Client(l)

Spec == Init /\ [][Next]_vars

-----------------------------------------------------------------------------
(* Properties. *)

TypeOK ==
    /\ now \in Nat
    /\ mono \in [Locks -> Nat] /\ wall \in [Locks -> Int]
    /\ server \in [holder : Locks \cup {NoLock}, expires : Nat]
    /\ wire \subseteq Requests
    /\ phase \in [Locks -> {"idle", "polling", "held", "gone"}]
    /\ poll \in [Locks -> PollState]
    /\ valid \in [Locks -> BOOLEAN] /\ confirmed \in [Locks -> Confirmation]
    /\ users \in [Locks -> BOOLEAN]
    /\ keep \in [Locks -> KeepState]
    /\ ask \in [Locks -> AskState]

(* A lock whose lease the client may still go by: not lost, and confirmed  *)
(* less than a lease ago in real time                                      *)
Standing(l) == phase[l] = "held" /\ valid[l] /\ now < confirmed[l].real + TTL

(* Two locks on the resource are never valid at once, whatever the clocks, *)
(* the network and an older server do (ResourceLock::is_valid)             *)
MutualExclusion == \A l, m \in Locks : IsValid(l) /\ IsValid(m) => l = m

(* While is_valid reads true the server holds the lease, for longer than   *)
(* the margin a write may take to arrive (LOCK_SERVER_TTL less             *)
(* LOCK_LOSS_BUDGET)                                                       *)
ValidIsHeld ==
    \A l \in Locks : IsValid(l) => Holds(l) /\ server.expires - now > TTL - BUDGET

(* When confirm returns Ok, the server holds the lease at that moment; and *)
(* unless the answer took longer than the budget, with the write margin    *)
ConfirmMeansHeld ==
    [][\A l \in Locks : ask[l].st # "ok" /\ ask'[l].st = "ok" =>
          /\ Holds(l)'
          /\ Age(l)' < BUDGET => (server.expires - now)' > TTL - BUDGET]_vars

(* A lock that may no longer be gone by never comes back, so whoever holds *)
(* the resource next shares it with nobody: no answer that arrives late    *)
(* revives a lease (the guards in ask and refresh_loop)                    *)
LapsedForGood ==
    [][\A l \in Locks : phase[l] = "held" /\ ~Standing(l) => ~Standing(l)']_vars

(* Seen as tenancies, the leases keep the promise of module FencedUse: a   *)
(* lock is the tenant while its lease stands and in use while valid        *)
Fenced == INSTANCE FencedUse WITH
    tenant <- {l \in Locks : Standing(l)},
    using  <- {l \in Locks : IsValid(l)},
    over   <- {l \in Locks : phase[l] \in {"held", "gone"} /\ ~Standing(l)}

LeasesAreFenced == Fenced!Spec

(* A release is under way only for a lock nobody may rely on: it never     *)
(* frees a lease in use, however late it arrives                           *)
ReleaseFreesNothingUsed ==
    \A l \in Locks : <<"release", l>> \in wire => phase[l] = "gone" \/ ~valid[l]

(* The keep-alive notices a lapsed lease, so that wait_for_loss resolves:  *)
(* on a runtime that runs it in time, a device does not run on past a      *)
(* lease and a retry pause since the last confirmation with the lock held  *)
(* and not marked lost (refresh_loop)                                      *)
LossNoticed ==
    [][\A l \in Locks :
          /\ phase[l] = "held" /\ users[l] /\ valid[l]
          /\ mono[l] - confirmed[l].at >= TTL + RETRY
          => mono'[l] = mono[l]]_vars

-----------------------------------------------------------------------------
(* The inductive invariant behind the properties above. *)

(* The age of c is at least the real time since, by the clock that counts  *)
(* all of it: the wall clock of a device that suspends, else the other     *)
AgeCovers(l, c) ==
    /\ c.real <= now
    /\ IF l \in Suspending THEN wall[l] - c.wall >= now - c.real
                           ELSE mono[l] - c.at >= now - c.real

ClocksCover ==
    \A l \in Locks : /\ AgeCovers(l, NoStamp) /\ AgeCovers(l, poll[l].sent)
                     /\ AgeCovers(l, confirmed[l])
                     /\ AgeCovers(l, keep[l].sent) /\ AgeCovers(l, ask[l].sent)

(* Which activity runs when *)
Lifecycle ==
    \A l \in Locks :
        /\ phase[l] \in {"idle", "polling"} =>
              valid[l] /\ keep[l].st = "done" /\ <<"release", l>> \notin wire
        /\ keep[l].st = "asking" => phase[l] = "held"
        /\ ask[l].st # "none" => phase[l] = "held" /\ users[l]

(* The server's lease of l reaches at least to the end the client counts on *)
CountsOn(l, c) == server.holder = l /\ server.expires >= c.real + TTL

(* A lease the client may go by is the server's; so is one an answer still *)
(* under way confirms.  An older server's unearned answer is no exception: *)
(* the lease it belongs to no longer stands.                               *)
LeasesMatch ==
    \A l \in Locks :
        /\ Standing(l) => CountsOn(l, confirmed[l])
        /\ phase[l] = "polling" /\ poll[l].answer = "yes" /\ now < poll[l].sent.real + TTL
              => CountsOn(l, poll[l].sent)
        /\ Standing(l) /\ keep[l].st = "asking" /\ keep[l].answer = "yes"
              => CountsOn(l, keep[l].sent)
        /\ Standing(l) /\ ask[l].st = "asking" /\ ask[l].answer = "yes"
              => CountsOn(l, ask[l].sent)

LeaseInvariant ==
    TypeOK /\ ClocksCover /\ Lifecycle /\ ReleaseFreesNothingUsed /\ LeasesMatch
=============================================================================
