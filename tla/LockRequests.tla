---------------------------- MODULE LockRequests ----------------------------
(***************************************************************************)
(* Who answers for a lease on the server (filen-sdk-rs/src/sync/lock):     *)
(* the polls of acquire_lock, each sent by a task that outlives a caller   *)
(* who goes away (request_acquire), the releases owed for their grants and *)
(* for locks that are lost or dropped (OwedRelease, release_loop), and the *)
(* count of them a shutdown waits on (PendingReleases).                    *)
(*                                                                         *)
(* A call is one acquire_lock with its own uuid.  A release is owed by its *)
(* current request task, by mark_lost and by the drop of the lock.  Ages   *)
(* count from the last confirmation and stop at the lease's length.        *)
(***************************************************************************)
EXTENDS Naturals, FiniteSets

CONSTANTS
    Calls,          \* the acquire_lock calls of this client
    Nobody, Other,  \* the server's holder: none, or another client
    ATTEMPTS,       \* acquire_lock's attempts
    ERROR_LIMIT,    \* ACQUIRE_TRANSPORT_ERROR_LIMIT
    TTL,            \* LOCK_SERVER_TTL
    PAUSE_FIRST,    \* RELEASE_RETRY_FIRST
    PAUSE_MAX,      \* RELEASE_RETRY_MAX
    Faults,         \* requests may fail
    Shutdowns       \* runtimes may shut down and cancel their tasks

ASSUME CallsAssumption == Nobody \notin Calls /\ Other \notin Calls /\ Nobody # Other

ASSUME LimitsAssumption ==
    /\ ATTEMPTS \in Nat \ {0} /\ ERROR_LIMIT \in Nat /\ TTL \in Nat \ {0}
    /\ PAUSE_FIRST \in Nat \ {0} /\ PAUSE_MAX \in Nat \ {0}
    /\ PAUSE_FIRST <= PAUSE_MAX
    /\ Faults \in BOOLEAN /\ Shutdowns \in BOOLEAN

Kinds == {"request", "lost", "drop"}
Jobs  == Calls \X Kinds

VARIABLES
    caller,    \* caller[c]: the acquire_lock call, then the lock it returned
    polls,     \* polls[c]: [used, answered, errors] of acquire_loop
    age,       \* age[c]: time since the lease was last confirmed by its client
    job,       \* job[j]: an owed release
    pending,   \* PendingReleases
    waiter,    \* a shutdown that awaits the releases
    server,    \* [holder, left]: the resource's lease and what is left of it
    late,      \* Acquires that may still reach the server, answered to nobody
    excused    \* calls whose lease the code knowingly leaves to the server

vars == <<caller, polls, age, job, pending, waiter, server, late, excused>>

(* A release owed: `armed' in a request task that waits for its answer,    *)
(* `sending' or `pausing' in release_loop, from the task or a `detached'   *)
(* thread; `retried' once the first attempt failed                         *)
NoJob == [st |-> "none", pause |-> 0, timer |-> 0, retried |-> FALSE, detached |-> FALSE]
Owed(st) == [NoJob EXCEPT !.st = st, !.pause = PAUSE_FIRST]

(* A call that has neither the lock nor an error: asleep between polls,    *)
(* polling, or with an answer in its channel                               *)
Asking == {"resting", "polling", "granted", "refused", "unreachable", "error"}

Live(j) == job[j].st \in {"armed", "sending", "pausing"}

FreshPolls == [used |-> 0, answered |-> FALSE, errors |-> 0]

Init ==
    /\ caller = [c \in Calls |-> "idle"]
    /\ polls = [c \in Calls |-> FreshPolls]
    /\ age = [c \in Calls |-> 0]
    /\ job = [j \in Jobs |-> NoJob]
    /\ pending = 0
    /\ waiter = "idle"
    /\ server \in {[holder |-> Nobody, left |-> 0], [holder |-> Other, left |-> TTL]}
    /\ late = {}
    /\ excused = {}

-----------------------------------------------------------------------------
(* The count: OwedRelease::new tracks, the end of the release settles it. *)

Track(j, st) ==
    /\ job' = [job EXCEPT ![j] = Owed(st)]
    /\ pending' = pending + 1

Over(j) ==
    /\ job' = [job EXCEPT ![j] = NoJob]
    /\ pending' = pending - 1

-----------------------------------------------------------------------------
(* acquire_loop and request_acquire. *)

(* A poll: the task that sends it owes a release should nobody take a grant *)
Poll(c) ==
    /\ caller[c] \in {"idle", "resting"} /\ polls[c].used < ATTEMPTS
    /\ caller[c] = "idle" => waiter = "idle"
    /\ caller' = [caller EXCEPT ![c] = "polling"]
    /\ polls' = [polls EXCEPT ![c].used = @ + 1]
    /\ age' = [age EXCEPT ![c] = 0]
    /\ Track(<<c, "request">>, "armed")
    /\ UNCHANGED <<waiter, server, late, excused>>

(* RetryFailed: the attempts ran out *)
PollsRunOut(c) ==
    /\ caller[c] = "resting" /\ polls[c].used = ATTEMPTS
    /\ caller' = [caller EXCEPT ![c] = "failed"]
    /\ UNCHANGED <<polls, age, job, pending, waiter, server, late, excused>>

Granted(c) == server' = [holder |-> c, left |-> TTL]

(* Faulty variant: the task ends with its answer, whoever waits for it *)
AnsweredToNobody(c, answer) ==
    /\ job[<<c, "request">>].st = "armed"
    /\ caller' = [caller EXCEPT ![c] = IF @ = "polling" THEN answer ELSE @]
    /\ Over(<<c, "request">>)
    /\ UNCHANGED <<polls, age, waiter>>

(* The answer reaches the task: it goes into the channel of a caller that  *)
(* still waits, which ends the task's debt, and a grant that finds the     *)
(* channel closed is released                                              *)
Answered(c, answer) ==
    /\ job[<<c, "request">>].st = "armed"
    /\ IF caller[c] = "polling"
       THEN caller' = [caller EXCEPT ![c] = answer] /\ Over(<<c, "request">>)
       ELSE IF answer = "granted"
       THEN job' = [job EXCEPT ![<<c, "request">>] = Owed("sending")] /\ UNCHANGED <<caller, pending>>
       ELSE Over(<<c, "request">>) /\ UNCHANGED caller
    /\ UNCHANGED <<polls, age, waiter>>

PollGranted(c) ==
    /\ server.holder \in {Nobody, c} /\ Granted(c)
    /\ Answered(c, "granted")
    /\ UNCHANGED <<late, excused>>

PollRefused(c) ==
    /\ server.holder # Nobody
    /\ Answered(c, "refused")
    /\ UNCHANGED <<server, late, excused>>

(* The request fails with its outcome unknown *)
PollFails(c) ==
    /\ Faults
    /\ \E error \in {"unreachable", "error"} : Answered(c, error)
    /\ late' = late \cup {c} /\ excused' = excused \cup {c}
    /\ \/ UNCHANGED server
       \/ server.holder \in {Nobody, c} /\ Granted(c)

(* The caller takes the answer from its channel.  A server that cannot be  *)
(* reached is waited out a few times in a row once it answered before.     *)
WaitsOut(c) ==
    caller[c] = "unreachable" /\ polls[c].answered /\ polls[c].errors < ERROR_LIMIT

TakeAnswer(c) ==
    /\ caller[c] \in {"granted", "refused", "unreachable", "error"}
    /\ caller' = [caller EXCEPT ![c] =
                     IF @ = "granted" THEN "held"
                     ELSE IF @ = "refused" \/ WaitsOut(c) THEN "resting" ELSE "failed"]
    /\ polls' = [polls EXCEPT ![c].answered = @ \/ caller[c] = "refused",
                              ![c].errors = IF caller[c] = "refused" THEN 0
                                            ELSE IF WaitsOut(c) THEN @ + 1 ELSE @]
    /\ UNCHANGED <<age, job, pending, waiter, server, late, excused>>

(* The caller's future is dropped.  A task that still waits goes on; an    *)
(* answer already in the channel is dropped with it, a grant included.     *)
CallerGoesAway(c) ==
    /\ caller[c] \in Asking
    /\ caller' = [caller EXCEPT ![c] = "gone"]
    /\ excused' = IF caller[c] = "granted" THEN excused \cup {c} ELSE excused
    /\ UNCHANGED <<polls, age, job, pending, waiter, server, late>>

-----------------------------------------------------------------------------
(* The lock in use, as far as its releases depend on it (see LockLease). *)

(* The keep-alive's or a confirm's refresh; one under way when the lock is *)
(* dropped still counts                                                    *)
Confirmed(c) ==
    /\ caller[c] \in {"held", "leaving"} /\ server.holder = c
    /\ Granted(c)
    /\ age' = [age EXCEPT ![c] = 0]
    /\ caller' = [caller EXCEPT ![c] = IF @ = "leaving" THEN "gone" ELSE @]
    /\ UNCHANGED <<polls, job, pending, waiter, late, excused>>

(* mark_lost *)
Lost(c) ==
    /\ caller[c] = "held"
    /\ caller' = [caller EXCEPT ![c] = "lost"]
    /\ Track(<<c, "lost">>, "sending")
    /\ UNCHANGED <<polls, age, waiter, server, late, excused>>

(* The last handle is dropped *)
DropLock(c) ==
    /\ caller[c] \in {"held", "lost"}
    /\ \E st \in {"gone", "leaving"} : caller' = [caller EXCEPT ![c] = st]
    /\ Track(<<c, "drop">>, "sending")
    /\ UNCHANGED <<polls, age, waiter, server, late, excused>>

-----------------------------------------------------------------------------
(* release_loop, for each release owed. *)

Freed(c) ==
    server' = IF server.holder = c THEN [holder |-> Nobody, left |-> 0] ELSE server

(* The server answers: the lease of that uuid, if any, is gone *)
ReleaseAnswered(j) ==
    /\ job[j].st = "sending"
    /\ Freed(j[1])
    /\ Over(j)
    /\ UNCHANGED <<caller, polls, age, waiter, late, excused>>

(* Faulty variant: retried however old the lease is *)
ReleaseFailsAtAnyAge(j) ==
    /\ Faults /\ job[j].st = "sending"
    /\ \/ /\ job' = [job EXCEPT ![j].st = "pausing", ![j].timer = job[j].pause,
                       ![j].pause = IF 2 * @ < PAUSE_MAX THEN 2 * @ ELSE PAUSE_MAX]
          /\ UNCHANGED <<pending, excused>>
       \/ Over(j) /\ excused' = excused \cup {j[1]}
    /\ \/ UNCHANGED server
       \/ Freed(j[1])
    /\ UNCHANGED <<caller, polls, age, waiter, late>>

(* It fails in transport: sent again after a pause, while the lease could   *)
(* stand beyond that pause; it fails otherwise: given up                    *)
ReleaseFails(j) ==
    /\ Faults /\ job[j].st = "sending"
    /\ \/ /\ TTL - age[j[1]] > job[j].pause
          /\ job' = [job EXCEPT ![j].st = "pausing", ![j].timer = job[j].pause,
                       ![j].pause = IF 2 * @ < PAUSE_MAX THEN 2 * @ ELSE PAUSE_MAX]
          /\ UNCHANGED <<pending, excused>>
       \/ Over(j) /\ excused' = excused \cup {j[1]}
    /\ \/ UNCHANGED server
       \/ Freed(j[1])
    /\ UNCHANGED <<caller, polls, age, waiter, late>>

ReleaseAgain(j) ==
    /\ job[j].st = "pausing" /\ job[j].timer = 0
    /\ job' = [job EXCEPT ![j].st = "sending", ![j].retried = TRUE]
    /\ UNCHANGED <<caller, polls, age, pending, waiter, server, late, excused>>

(* A retry still out when the lease must have lapsed is cut off *)
ReleaseCutOff(j) ==
    /\ job[j].st = "sending" /\ job[j].retried /\ age[j[1]] = TTL
    /\ Over(j)
    /\ excused' = excused \cup {j[1]}
    /\ UNCHANGED <<caller, polls, age, waiter, server, late>>

(* Faulty variant: the count is given up with the task *)
SendDetachedUncounted(j) ==
    /\ job' = [job EXCEPT ![j] = [Owed("sending") EXCEPT !.detached = TRUE]]
    /\ pending' = pending - 1

(* The runtime of a task shuts down: the OwedRelease it drops sends the    *)
(* release anew from a thread of its own, if one starts.  A request cut    *)
(* off that way may be granted after its release.                          *)
SendDetached(j) ==
    /\ job' = [job EXCEPT ![j] = [Owed("sending") EXCEPT !.detached = TRUE]]
    /\ UNCHANGED pending

TaskCancelled(j) ==
    /\ Shutdowns /\ Live(j) /\ ~job[j].detached
    /\ \/ SendDetached(j)
       \/ Faults /\ Over(j)
    /\ late' = IF job[j].st = "armed" THEN late \cup {j[1]} ELSE late
    /\ excused' = IF job[j].st = "armed" \/ ~Live(j)' THEN excused \cup {j[1]} ELSE excused
    /\ caller' = IF job[j].st = "armed" /\ caller[j[1]] = "polling"
                 THEN [caller EXCEPT ![j[1]] = "error"] ELSE caller
    /\ UNCHANGED <<polls, age, waiter, server>>

-----------------------------------------------------------------------------
(* A shutdown: wait_for_lock_releases *)

WaitForReleases ==
    /\ waiter = "idle"
    /\ \A c \in Calls : caller[c] \in {"idle", "failed", "leaving", "gone"}
    /\ waiter' = "waiting"
    /\ UNCHANGED <<caller, polls, age, job, pending, server, late, excused>>

ReleasesSettled ==
    /\ waiter = "waiting" /\ pending = 0
    /\ waiter' = "done"
    /\ UNCHANGED <<caller, polls, age, job, pending, server, late, excused>>

-----------------------------------------------------------------------------
(* The server and time. *)

LateAcquire(c) ==
    /\ c \in late
    /\ late' = late \ {c}
    /\ server.holder \in {Nobody, c} /\ Granted(c)
    /\ UNCHANGED <<caller, polls, age, job, pending, waiter, excused>>

(* Another client takes and gives back the resource *)
OtherClient ==
    /\ \/ server.holder = Nobody /\ Granted(Other)
       \/ server.holder = Other /\ server' = [holder |-> Nobody, left |-> 0]
    /\ UNCHANGED <<caller, polls, age, job, pending, waiter, late, excused>>

Tick ==
    /\ age' = [c \in Calls |-> IF age[c] < TTL THEN age[c] + 1 ELSE TTL]
    /\ job' = [j \in Jobs |-> [job[j] EXCEPT !.timer = IF @ > 0 THEN @ - 1 ELSE 0]]
    /\ server' = IF server.left <= 1 THEN [holder |-> Nobody, left |-> 0]
                                     ELSE [server EXCEPT !.left = @ - 1]
    /\ UNCHANGED <<caller, polls, pending, waiter, late, excused>>

-----------------------------------------------------------------------------
Request(c) == PollGranted(c) \/ PollRefused(c) \/ PollFails(c)
Release(j) == ReleaseAnswered(j) \/ ReleaseFails(j) \/ ReleaseAgain(j) \/ ReleaseCutOff(j)

Call(c) ==
    \/ Poll(c) \/ PollsRunOut(c) \/ Request(c) \/ TakeAnswer(c) \/ CallerGoesAway(c)
    \/ Confirmed(c) \/ Lost(c) \/ DropLock(c)

Next ==
    \/ \E c \in Calls : Call(c) \/ LateAcquire(c)
    \/ \E j \in Jobs : Release(j) \/ TaskCancelled(j)
    \/ WaitForReleases \/ ReleasesSettled \/ OtherClient \/ Tick

(* Timers run out, a request is answered or fails, and a task that can go  *)
(* on is run: what the timers, the HTTP timeouts and the runtime provide   *)
Fairness ==
    /\ WF_vars(Tick) /\ WF_vars(ReleasesSettled)
    /\ \A c \in Calls : /\ WF_vars(Request(c)) /\ WF_vars(TakeAnswer(c))
                        /\ WF_vars(PollsRunOut(c))
                        /\ WF_vars(caller[c] = "resting" /\ Poll(c))
    /\ \A j \in Jobs : WF_vars(Release(j))

Spec == Init /\ [][Next]_vars /\ Fairness

-----------------------------------------------------------------------------
(* Properties. *)

TypeOK ==
    /\ caller \in [Calls -> {"idle", "held", "lost", "failed", "leaving", "gone"} \cup Asking]
    /\ polls \in [Calls -> [used : 0..ATTEMPTS, answered : BOOLEAN, errors : 0..ERROR_LIMIT]]
    /\ age \in [Calls -> 0..TTL]
    /\ job \in [Jobs -> [st : {"none", "armed", "sending", "pausing"}, pause : 0..PAUSE_MAX,
                         timer : 0..PAUSE_MAX, retried : BOOLEAN, detached : BOOLEAN]]
    /\ pending \in Nat
    /\ waiter \in {"idle", "waiting", "done"}
    /\ server \in [holder : Calls \cup {Nobody, Other}, left : 0..TTL]
    /\ late \subseteq Calls /\ excused \subseteq Calls

(* Somebody still answers for a lease of c: the caller, or a release owed *)
AnsweredFor(c) ==
    \/ caller[c] \in {"held", "lost"} \cup Asking
    \/ \E k \in Kinds : Live(<<c, k>>)

(* A lease on the server is never forgotten: somebody answers for it,      *)
(* unless a request failed with its outcome unknown, a release was given   *)
(* up, a shutdown cut a request off or a caller went away with the grant   *)
(* in its channel (request_acquire, OwedRelease)                           *)
NoForgottenLease ==
    \A c \in Calls : server.holder = c => AnsweredFor(c) \/ c \in excused

(* The count a shutdown waits on is the number of releases still owed: it  *)
(* misses none, however tasks end (PendingReleases, Drop for OwedRelease)  *)
LiveJobs == {j \in Jobs : Live(j)}
PendingCounts == IsFiniteSet(LiveJobs) /\ pending = Cardinality(LiveJobs)

(* Once the wait of a shutdown is over, no lease is left behind for other  *)
(* devices to wait out, with the same exceptions                           *)
CleanShutdown ==
    waiter = "done" => \A c \in Calls : server.holder = c => c \in excused

(* What waits here ends: acquire_lock with the lock, an error or its        *)
(* attempts used up, and a shutdown's wait for the releases, whatever       *)
(* fails or shuts down meanwhile (acquire_loop, release_loop)               *)
WaitsEnd ==
    /\ \A c \in Calls : caller[c] \in Asking ~> caller[c] \notin Asking
    /\ waiter = "waiting" ~> waiter = "done"

(* A call owes a release of each kind at most once: it polls anew only     *)
(* when its last request is settled, and is lost or dropped only once      *)
(* (request_acquire, mark_lost, Drop for SharedLease)                      *)
JobShape ==
    \A c \in Calls :
      /\ Live(<<c, "request">>) => caller[c] \in {"polling", "error", "failed", "gone"}
      /\ Live(<<c, "lost">>) => caller[c] \in {"lost", "gone", "leaving"}
      /\ Live(<<c, "drop">>) => caller[c] \in {"gone", "leaving"}

(* A lease on the server has a client that knows of its grant: the caller,  *)
(* or a release being sent.  A request not answered yet does not count: if  *)
(* it is answered with less than a grant, nothing would be released.        *)
GrantIsKnown ==
    /\ late \subseteq excused
    /\ \A c \in Calls : server.holder = c =>
         \/ c \in excused
         \/ caller[c] \in {"granted", "held", "lost"}
         \/ \E k \in Kinds : job[<<c, k>>].st \in {"sending", "pausing"}

(* A shutdown waits when no call can start a release any more, and is done  *)
(* when none is left (wait_for_lock_releases)                              *)
ShutdownIsQuiet ==
    /\ waiter # "idle" => \A c \in Calls : caller[c] \in {"idle", "failed", "leaving", "gone"}
    /\ waiter = "done" => LiveJobs = {}

(* The state of the calls and of the releases owed agree: the count is the *)
(* one a shutdown may go by, what it leaves behind is excused, and a lease *)
(* on the server is somebody's.  With the three before it, inductive.      *)
RequestInvariant ==
    /\ TypeOK /\ JobShape /\ GrantIsKnown /\ ShutdownIsQuiet
    /\ PendingCounts /\ CleanShutdown /\ NoForgottenLease
=============================================================================
