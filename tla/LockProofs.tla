----------------------------- MODULE LockProofs -----------------------------
(* Proofs about the two sides of a lock in one client: LockRequests, for    *)
(* any calls, limits, times and faults, and LockSharing, for any callers,   *)
(* any number of locks and any number of acquisitions to a call.  The two   *)
(* share no variable: each theorem is about the one specification it names. *)
EXTENDS LockRequests, LockSharing, FiniteSetTheorems, TLAPS

USE CallsAssumption, LimitsAssumption

(* The inductive part of RequestInvariant; the rest follows from it *)
RequestCore == TypeOK /\ JobShape /\ GrantIsKnown /\ ShutdownIsQuiet /\ PendingCounts

JobState == [st : {"none", "armed", "sending", "pausing"}, pause : 0..PAUSE_MAX,
             timer : 0..PAUSE_MAX, retried : BOOLEAN, detached : BOOLEAN]

-----------------------------------------------------------------------------
(* The releases owed and their count. *)

LEMMA JobTypes ==
    /\ NoJob \in JobState
    /\ \A st \in {"armed", "sending"} :
         /\ Owed(st) \in JobState
         /\ [Owed(st) EXCEPT !.detached = TRUE] \in JobState
         /\ Owed(st).st = st
         /\ [Owed(st) EXCEPT !.detached = TRUE].st = st
    /\ NoJob.st = "none"
<1>1. 0 \in 0..PAUSE_MAX /\ PAUSE_FIRST \in 0..PAUSE_MAX
  OBVIOUS
<1>2. NoJob \in JobState /\ NoJob.st = "none"
  BY <1>1 DEF NoJob, JobState
<1>3. ASSUME NEW st \in {"armed", "sending"}
      PROVE  /\ Owed(st) \in JobState
             /\ [Owed(st) EXCEPT !.detached = TRUE] \in JobState
             /\ Owed(st).st = st
             /\ [Owed(st) EXCEPT !.detached = TRUE].st = st
  <2>1. Owed(st) \in JobState /\ Owed(st).st = st
    BY <1>1, <1>2 DEF Owed, JobState
  <2> QED
    BY <2>1 DEF JobState
<1> QED
  BY <1>2, <1>3

LEMMA Pairs ==
    /\ \A c \in Calls, k \in Kinds : <<c, k>> \in Jobs
    /\ \A j \in Jobs : j[1] \in Calls /\ j[2] \in Kinds /\ j = <<j[1], j[2]>>
  BY DEF Jobs

(* A release newly owed counts one more *)
LEMMA TrackCounts ==
    ASSUME TypeOK, PendingCounts, NEW j \in Jobs, NEW st \in {"armed", "sending"},
           ~Live(j), Track(j, st)
    PROVE  /\ job' \in [Jobs -> JobState] /\ pending' \in Nat
           /\ job'[j].st = st /\ \A i \in Jobs \ {j} : job'[i] = job[i]
           /\ LiveJobs' = LiveJobs \cup {j}
           /\ PendingCounts'
<1>1. job' \in [Jobs -> JobState] /\ pending' \in Nat
  BY JobTypes DEF Track, TypeOK, JobState
<1>2. job'[j].st = st /\ \A i \in Jobs \ {j} : job'[i] = job[i]
  BY JobTypes DEF Track, TypeOK
<1>3. LiveJobs' = LiveJobs \cup {j}
  BY <1>2 DEF LiveJobs, Live
<1>4. j \notin LiveJobs
  BY DEF LiveJobs
<1>5. IsFiniteSet(LiveJobs \cup {j}) /\ Cardinality(LiveJobs \cup {j}) = Cardinality(LiveJobs) + 1
  BY <1>4, FS_AddElement DEF PendingCounts
<1> QED
  BY <1>1, <1>2, <1>3, <1>5 DEF PendingCounts, Track

(* A release settled counts one less *)
LEMMA OverCounts ==
    ASSUME TypeOK, PendingCounts, NEW j \in Jobs, Live(j), Over(j)
    PROVE  /\ job' \in [Jobs -> JobState] /\ pending' \in Nat
           /\ job'[j].st = "none" /\ \A i \in Jobs \ {j} : job'[i] = job[i]
           /\ LiveJobs' = LiveJobs \ {j}
           /\ PendingCounts'
<1>1. job' \in [Jobs -> JobState]
  BY JobTypes DEF Over, TypeOK, JobState
<1>2. job'[j].st = "none" /\ \A i \in Jobs \ {j} : job'[i] = job[i]
  BY JobTypes DEF Over, TypeOK
<1>3. LiveJobs' = LiveJobs \ {j}
  BY <1>2 DEF LiveJobs, Live
<1>4. j \in LiveJobs
  BY DEF LiveJobs
<1>5. IsFiniteSet(LiveJobs \ {j}) /\ Cardinality(LiveJobs \ {j}) = Cardinality(LiveJobs) - 1
  BY <1>4, FS_RemoveElement DEF PendingCounts
<1>6. pending' = Cardinality(LiveJobs \ {j}) /\ pending' \in Nat
  BY <1>5, FS_CardinalityType DEF PendingCounts, Over
<1> QED
  BY <1>1, <1>2, <1>3, <1>5, <1>6 DEF PendingCounts

(* A release that goes on counts as it did *)
LEMMA SameCounts ==
    ASSUME PendingCounts, UNCHANGED pending, \A j \in Jobs : Live(j)' <=> Live(j)
    PROVE  PendingCounts' /\ LiveJobs' = LiveJobs
  BY DEF PendingCounts, LiveJobs

-----------------------------------------------------------------------------
(* acquire_loop and request_acquire. *)

LEMMA PollKeeps ==
    ASSUME RequestCore, NEW c \in Calls, Poll(c)
    PROVE  RequestCore'
<1> DEFINE j == <<c, "request">>
<1>1. j \in Jobs /\ ~Live(j)
  BY Pairs DEF RequestCore, JobShape, Poll, Kinds
<1>2. TypeOK /\ PendingCounts /\ Track(j, "armed")
  BY DEF RequestCore, Poll
<1>3. /\ job' \in [Jobs -> JobState] /\ pending' \in Nat
      /\ job'[j].st = "armed" /\ \A i \in Jobs \ {j} : job'[i] = job[i]
      /\ LiveJobs' = LiveJobs \cup {j} /\ PendingCounts'
  BY <1>1, <1>2, TrackCounts
<1>4. TypeOK'
  BY <1>3 DEF RequestCore, TypeOK, JobState, Asking, Poll
<1>5. JobShape'
  BY <1>3, Pairs DEF RequestCore, TypeOK, JobShape, Live, Kinds, Poll
<1>6. GrantIsKnown'
  BY <1>1, <1>3, Pairs DEF RequestCore, TypeOK, GrantIsKnown, Live, Kinds, Poll
<1>7. ShutdownIsQuiet'
  BY DEF RequestCore, TypeOK, ShutdownIsQuiet, Poll
<1> QED
  BY <1>3, <1>4, <1>5, <1>6, <1>7 DEF RequestCore

LEMMA PollsRunOutKeeps ==
    ASSUME RequestCore, NEW c \in Calls, PollsRunOut(c)
    PROVE  RequestCore'
<1>1. TypeOK'
  BY DEF RequestCore, TypeOK, Asking, PollsRunOut
<1>2. JobShape'
  BY DEF RequestCore, TypeOK, JobShape, Live, Asking, PollsRunOut
<1>3. GrantIsKnown'
  BY DEF RequestCore, TypeOK, GrantIsKnown, PollsRunOut
<1>4. ShutdownIsQuiet' /\ PendingCounts'
  <2>1. \A j \in Jobs : Live(j)' <=> Live(j)
    BY DEF Live, PollsRunOut
  <2>2. UNCHANGED pending /\ PendingCounts
    BY DEF RequestCore, PollsRunOut
  <2>3. PendingCounts' /\ LiveJobs' = LiveJobs
    BY <2>1, <2>2, SameCounts
  <2> QED
    BY <2>3 DEF RequestCore, TypeOK, ShutdownIsQuiet, Asking, PollsRunOut
<1> QED
  BY <1>1, <1>2, <1>3, <1>4 DEF RequestCore

(* The answer settles the request, or turns its debt into a release *)
LEMMA AnsweredKeeps ==
    ASSUME RequestCore, NEW c \in Calls,
           NEW answer \in {"granted", "refused", "unreachable", "error"}, Answered(c, answer),
           server' \in [holder : Calls \cup {Nobody, Other}, left : 0..TTL],
           late' \subseteq excused', excused \subseteq excused', excused' \subseteq Calls,
           \A d \in Calls : server'.holder = d =>
             server.holder = d \/ d \in excused' \/ (d = c /\ answer = "granted")
    PROVE  RequestCore'
<1> DEFINE j == <<c, "request">>
<1>1. j \in Jobs /\ job[j].st = "armed" /\ Live(j)
  BY Pairs DEF Answered, Live, Kinds
<1>2. TypeOK /\ PendingCounts
  BY DEF RequestCore
<1>3. CASE caller[c] = "polling" \/ answer # "granted"
  <2>1. Over(j) /\ caller' = IF caller[c] = "polling" THEN [caller EXCEPT ![c] = answer] ELSE caller
    BY <1>3 DEF Answered
  <2>2. /\ job' \in [Jobs -> JobState] /\ pending' \in Nat
        /\ job'[j].st = "none" /\ \A i \in Jobs \ {j} : job'[i] = job[i]
        /\ LiveJobs' = LiveJobs \ {j} /\ PendingCounts'
    BY <1>1, <1>2, <2>1, OverCounts
  <2>3. TypeOK'
    BY <2>1, <2>2 DEF RequestCore, TypeOK, JobState, Asking, Answered
  <2>4. JobShape'
    BY <2>1, <2>2, Pairs DEF RequestCore, TypeOK, JobShape, Live, Kinds
  <2>5. GrantIsKnown'
    <3> SUFFICES ASSUME NEW d \in Calls, server'.holder = d, d \notin excused'
                 PROVE  \/ caller'[d] \in {"granted", "held", "lost"}
                        \/ \E k \in Kinds : job'[<<d, k>>].st \in {"sending", "pausing"}
      BY DEF GrantIsKnown
    <3>1. CASE server.holder = d
      <4>1. CASE \E k \in Kinds : job[<<d, k>>].st \in {"sending", "pausing"}
        BY <1>1, <2>2, <4>1, Pairs
      <4>2. CASE caller[d] \in {"granted", "held", "lost"}
        BY <2>1, <4>2 DEF RequestCore, TypeOK
      <4> QED
        BY <3>1, <4>1, <4>2 DEF RequestCore, GrantIsKnown
    <3>2. CASE server.holder # d
      BY <1>3, <2>1, <3>2 DEF RequestCore, TypeOK
    <3> QED
      BY <3>1, <3>2
  <2>6. ShutdownIsQuiet'
    BY <2>1, <2>2 DEF RequestCore, TypeOK, ShutdownIsQuiet, Answered
  <2> QED
    BY <2>2, <2>3, <2>4, <2>5, <2>6 DEF RequestCore
<1>4. CASE caller[c] # "polling" /\ answer = "granted"
  <2>1. job' = [job EXCEPT ![j] = Owed("sending")] /\ UNCHANGED <<caller, pending>>
    BY <1>4 DEF Answered
  <2>2. /\ job' \in [Jobs -> JobState]
        /\ job'[j].st = "sending" /\ \A i \in Jobs \ {j} : job'[i] = job[i]
    BY <1>1, <2>1, JobTypes DEF RequestCore, TypeOK, JobState
  <2>3. \A i \in Jobs : Live(i)' <=> Live(i)
    BY <1>1, <2>2 DEF Live
  <2>4. PendingCounts' /\ LiveJobs' = LiveJobs
    BY <1>2, <2>1, <2>3, SameCounts
  <2>5. TypeOK'
    BY <2>1, <2>2 DEF RequestCore, TypeOK, JobState, Answered
  <2>6. JobShape'
    BY <2>1, <2>3, Pairs DEF RequestCore, TypeOK, JobShape, Kinds
  <2>7. GrantIsKnown'
    BY <1>1, <1>4, <2>1, <2>2, Pairs DEF RequestCore, TypeOK, GrantIsKnown, Kinds
  <2>8. ShutdownIsQuiet'
    BY <2>1, <2>4 DEF RequestCore, TypeOK, ShutdownIsQuiet, Answered
  <2> QED
    BY <2>4, <2>5, <2>6, <2>7, <2>8 DEF RequestCore
<1> QED
  BY <1>3, <1>4

LEMMA RequestKeeps ==
    ASSUME RequestCore, NEW c \in Calls, Request(c)
    PROVE  RequestCore'
<1> DEFINE Leases == [holder : Calls \cup {Nobody, Other}, left : 0..TTL]
<1>0. [holder |-> c, left |-> TTL] \in Leases /\ server \in Leases
  BY DEF RequestCore, TypeOK
<1>1. CASE PollGranted(c)
  <2>1. server' \in Leases /\ \A d \in Calls : server'.holder = d => d = c
    BY <1>0, <1>1 DEF PollGranted, Granted
  <2>2. late' \subseteq excused' /\ excused \subseteq excused' /\ excused' \subseteq Calls
    BY <1>1 DEF PollGranted, RequestCore, TypeOK, GrantIsKnown
  <2>3. Answered(c, "granted")
    BY <1>1 DEF PollGranted
  <2> QED
    BY <2>1, <2>2, <2>3, AnsweredKeeps
<1>2. CASE PollRefused(c)
  <2>1. late' \subseteq excused' /\ excused \subseteq excused' /\ excused' \subseteq Calls
    BY <1>2 DEF PollRefused, RequestCore, TypeOK, GrantIsKnown
  <2>2. Answered(c, "refused") /\ server' = server
    BY <1>2 DEF PollRefused
  <2> QED
    BY <1>0, <2>1, <2>2, AnsweredKeeps
<1>3. CASE PollFails(c)
  <2>1. late' \subseteq excused' /\ excused \subseteq excused' /\ excused' \subseteq Calls
        /\ c \in excused'
    BY <1>3 DEF PollFails, RequestCore, TypeOK, GrantIsKnown
  <2>2. server' \in Leases /\ \A d \in Calls : server'.holder = d => server.holder = d \/ d = c
    BY <1>0, <1>3 DEF PollFails, Granted
  <2>3. PICK error \in {"unreachable", "error"} : Answered(c, error)
    BY <1>3 DEF PollFails
  <2> QED
    BY <2>1, <2>2, <2>3, AnsweredKeeps
<1> QED
  BY <1>1, <1>2, <1>3 DEF Request

LEMMA TakeAnswerKeeps ==
    ASSUME RequestCore, NEW c \in Calls, TakeAnswer(c)
    PROVE  RequestCore'
<1>1. TypeOK'
  <2>1. polls' \in [Calls -> [used : 0..ATTEMPTS, answered : BOOLEAN, errors : 0..ERROR_LIMIT]]
    <3> DEFINE answered == polls[c].answered \/ caller[c] = "refused"
               errors == IF caller[c] = "refused" THEN 0
                         ELSE IF WaitsOut(c) THEN polls[c].errors + 1 ELSE polls[c].errors
    <3>1. answered \in BOOLEAN
      OBVIOUS
    <3>2. errors \in 0..ERROR_LIMIT
      BY DEF RequestCore, TypeOK, WaitsOut
    <3>3. polls' = [polls EXCEPT ![c].answered = answered, ![c].errors = errors]
      BY DEF TakeAnswer
    <3> HIDE DEF answered, errors
    <3>4. polls \in [Calls -> [used : 0..ATTEMPTS, answered : BOOLEAN, errors : 0..ERROR_LIMIT]]
      BY DEF RequestCore, TypeOK
    <3>5. [polls EXCEPT ![c].answered = answered]
            \in [Calls -> [used : 0..ATTEMPTS, answered : BOOLEAN, errors : 0..ERROR_LIMIT]]
      BY <3>1, <3>4
    <3> QED
      BY <3>2, <3>3, <3>5
  <2>2. caller' \in [Calls -> {"idle", "held", "lost", "failed", "leaving", "gone"} \cup Asking]
    BY DEF RequestCore, TypeOK, Asking, TakeAnswer
  <2> QED
    BY <2>1, <2>2 DEF RequestCore, TypeOK, TakeAnswer
<1>2. JobShape'
  BY DEF RequestCore, TypeOK, JobShape, Live, Asking, TakeAnswer, WaitsOut
<1>3. GrantIsKnown'
  BY DEF RequestCore, TypeOK, GrantIsKnown, TakeAnswer, WaitsOut
<1>4. ShutdownIsQuiet' /\ PendingCounts'
  <2>1. \A j \in Jobs : Live(j)' <=> Live(j)
    BY DEF Live, TakeAnswer, WaitsOut
  <2>2. UNCHANGED pending /\ PendingCounts
    BY DEF RequestCore, TakeAnswer, WaitsOut
  <2>3. PendingCounts' /\ LiveJobs' = LiveJobs
    BY <2>1, <2>2, SameCounts
  <2> QED
    BY <2>3 DEF RequestCore, TypeOK, ShutdownIsQuiet, Asking, TakeAnswer, WaitsOut
<1> QED
  BY <1>1, <1>2, <1>3, <1>4 DEF RequestCore

LEMMA CallerGoesAwayKeeps ==
    ASSUME RequestCore, NEW c \in Calls, CallerGoesAway(c)
    PROVE  RequestCore'
<1>1. TypeOK'
  BY DEF RequestCore, TypeOK, Asking, CallerGoesAway
<1>2. JobShape'
  BY DEF RequestCore, TypeOK, JobShape, Live, Asking, CallerGoesAway
<1>3. GrantIsKnown'
  BY DEF RequestCore, TypeOK, GrantIsKnown, CallerGoesAway, Asking
<1>4. ShutdownIsQuiet' /\ PendingCounts'
  <2>1. \A j \in Jobs : Live(j)' <=> Live(j)
    BY DEF Live, CallerGoesAway
  <2>2. UNCHANGED pending /\ PendingCounts
    BY DEF RequestCore, CallerGoesAway
  <2>3. PendingCounts' /\ LiveJobs' = LiveJobs
    BY <2>1, <2>2, SameCounts
  <2> QED
    BY <2>3 DEF RequestCore, TypeOK, ShutdownIsQuiet, Asking, CallerGoesAway
<1> QED
  BY <1>1, <1>2, <1>3, <1>4 DEF RequestCore

-----------------------------------------------------------------------------
(* The lock in use. *)

LEMMA ConfirmedKeeps ==
    ASSUME RequestCore, NEW c \in Calls, Confirmed(c)
    PROVE  RequestCore'
<1>1. TypeOK'
  BY DEF RequestCore, TypeOK, Asking, Confirmed, Granted
<1>2. JobShape'
  BY DEF RequestCore, TypeOK, JobShape, Live, Asking, Confirmed, Granted
<1>3. GrantIsKnown'
  BY DEF RequestCore, TypeOK, GrantIsKnown, Confirmed, Granted
<1>4. ShutdownIsQuiet' /\ PendingCounts'
  <2>1. \A j \in Jobs : Live(j)' <=> Live(j)
    BY DEF Live, Confirmed, Granted
  <2>2. UNCHANGED pending /\ PendingCounts
    BY DEF RequestCore, Confirmed, Granted
  <2>3. PendingCounts' /\ LiveJobs' = LiveJobs
    BY <2>1, <2>2, SameCounts
  <2> QED
    BY <2>3 DEF RequestCore, TypeOK, ShutdownIsQuiet, Asking, Confirmed, Granted
<1> QED
  BY <1>1, <1>2, <1>3, <1>4 DEF RequestCore

LEMMA LostKeeps ==
    ASSUME RequestCore, NEW c \in Calls, Lost(c)
    PROVE  RequestCore'
<1> DEFINE j == <<c, "lost">>
<1>1. j \in Jobs /\ ~Live(j)
  BY Pairs DEF RequestCore, JobShape, Lost, Kinds
<1>2. TypeOK /\ PendingCounts /\ Track(j, "sending")
  BY DEF RequestCore, Lost
<1>3. /\ job' \in [Jobs -> JobState] /\ pending' \in Nat
      /\ job'[j].st = "sending" /\ \A i \in Jobs \ {j} : job'[i] = job[i]
      /\ LiveJobs' = LiveJobs \cup {j} /\ PendingCounts'
  BY <1>1, <1>2, TrackCounts
<1>4. TypeOK'
  BY <1>3 DEF RequestCore, TypeOK, JobState, Asking, Lost
<1>5. JobShape'
  BY <1>3, Pairs DEF RequestCore, TypeOK, JobShape, Live, Kinds, Lost
<1>6. GrantIsKnown'
  BY <1>1, <1>3, Pairs DEF RequestCore, TypeOK, GrantIsKnown, Live, Kinds, Lost
<1>7. ShutdownIsQuiet'
  BY DEF RequestCore, TypeOK, ShutdownIsQuiet, Lost
<1> QED
  BY <1>3, <1>4, <1>5, <1>6, <1>7 DEF RequestCore

LEMMA DropLockKeeps ==
    ASSUME RequestCore, NEW c \in Calls, DropLock(c)
    PROVE  RequestCore'
<1> DEFINE j == <<c, "drop">>
<1>1. j \in Jobs /\ ~Live(j)
  BY Pairs DEF RequestCore, JobShape, DropLock, Kinds
<1>2. TypeOK /\ PendingCounts /\ Track(j, "sending")
  BY DEF RequestCore, DropLock
<1>3. /\ job' \in [Jobs -> JobState] /\ pending' \in Nat
      /\ job'[j].st = "sending" /\ \A i \in Jobs \ {j} : job'[i] = job[i]
      /\ LiveJobs' = LiveJobs \cup {j} /\ PendingCounts'
  BY <1>1, <1>2, TrackCounts
<1>4. TypeOK'
  BY <1>3 DEF RequestCore, TypeOK, JobState, Asking, DropLock
<1>5. JobShape'
  BY <1>3, Pairs DEF RequestCore, TypeOK, JobShape, Live, Kinds, DropLock
<1>6. GrantIsKnown'
  BY <1>1, <1>3, Pairs DEF RequestCore, TypeOK, GrantIsKnown, Live, Kinds, DropLock
<1>7. ShutdownIsQuiet'
  BY DEF RequestCore, TypeOK, ShutdownIsQuiet, DropLock
<1> QED
  BY <1>3, <1>4, <1>5, <1>6, <1>7 DEF RequestCore

-----------------------------------------------------------------------------
(* release_loop. *)

(* A release that ends: answered, or given up and excused *)
LEMMA EndedKeeps ==
    ASSUME RequestCore, NEW j \in Jobs, Live(j), Over(j),
           UNCHANGED <<polls, age, waiter>>,
           caller' \in [Calls -> {"idle", "held", "lost", "failed", "leaving", "gone"} \cup Asking],
           \A c \in Calls : caller'[c] = caller[c]
             \/ (c = j[1] /\ j[2] = "request" /\ caller[c] = "polling" /\ caller'[c] = "error"),
           server' \in [holder : Calls \cup {Nobody, Other}, left : 0..TTL],
           \A c \in Calls : server'.holder = c => server.holder = c,
           late' \subseteq excused', excused \subseteq excused', excused' \subseteq Calls,
           server'.holder # j[1] \/ j[1] \in excused'
    PROVE  RequestCore'
<1>1. TypeOK /\ PendingCounts
  BY DEF RequestCore
<1>2. /\ job' \in [Jobs -> JobState] /\ pending' \in Nat
      /\ job'[j].st = "none" /\ \A i \in Jobs \ {j} : job'[i] = job[i]
      /\ LiveJobs' = LiveJobs \ {j} /\ PendingCounts'
  BY <1>1, OverCounts
<1>3. TypeOK'
  BY <1>2 DEF RequestCore, TypeOK, JobState
<1>4. JobShape'
  BY <1>2, Pairs DEF RequestCore, JobShape, Live, Kinds
<1>5. GrantIsKnown'
  <2> SUFFICES ASSUME NEW c \in Calls, server'.holder = c, c \notin excused'
               PROVE  \/ caller'[c] \in {"granted", "held", "lost"}
                      \/ \E k \in Kinds : job'[<<c, k>>].st \in {"sending", "pausing"}
    BY DEF GrantIsKnown
  <2>1. c # j[1] /\ server.holder = c /\ c \notin excused
    OBVIOUS
  <2>2. \A k \in Kinds : job'[<<c, k>>] = job[<<c, k>>]
    BY <1>2, <2>1, Pairs
  <2> QED
    BY <2>1, <2>2 DEF RequestCore, GrantIsKnown
<1>6. ShutdownIsQuiet'
  BY <1>2 DEF RequestCore, ShutdownIsQuiet
<1> QED
  BY <1>2, <1>3, <1>4, <1>5, <1>6 DEF RequestCore

(* A release that goes on, in another state or from another thread *)
LEMMA GoesOnKeeps ==
    ASSUME RequestCore, NEW j \in Jobs, Live(j), job' \in [Jobs -> JobState],
           job'[j].st \in {"sending", "pausing"}, \A i \in Jobs \ {j} : job'[i] = job[i],
           UNCHANGED <<polls, age, waiter, pending>>,
           caller' \in [Calls -> {"idle", "held", "lost", "failed", "leaving", "gone"} \cup Asking],
           \A c \in Calls : caller'[c] = caller[c]
             \/ (c = j[1] /\ j[2] = "request" /\ caller[c] = "polling" /\ caller'[c] = "error"),
           server' \in [holder : Calls \cup {Nobody, Other}, left : 0..TTL],
           \A c \in Calls : server'.holder = c => server.holder = c,
           late' \subseteq excused', excused \subseteq excused', excused' \subseteq Calls
    PROVE  RequestCore'
<1>1. TypeOK /\ PendingCounts
  BY DEF RequestCore
<1>3. \A i \in Jobs : Live(i)' <=> Live(i)
  BY DEF Live
<1>4. PendingCounts' /\ LiveJobs' = LiveJobs
  BY <1>1, <1>3, SameCounts
<1>5. TypeOK'
  BY DEF RequestCore, TypeOK, JobState
<1>6. JobShape'
  BY <1>3, Pairs DEF RequestCore, JobShape, Kinds
<1>7. GrantIsKnown'
  <2> SUFFICES ASSUME NEW c \in Calls, server'.holder = c, c \notin excused'
               PROVE  \/ caller'[c] \in {"granted", "held", "lost"}
                      \/ \E k \in Kinds : job'[<<c, k>>].st \in {"sending", "pausing"}
    BY DEF GrantIsKnown
  <2>1. CASE c = j[1]
    BY <2>1, Pairs
  <2>2. CASE c # j[1]
    <3>1. \A k \in Kinds : job'[<<c, k>>] = job[<<c, k>>]
      BY <2>2, Pairs
    <3> QED
      BY <2>2, <3>1 DEF RequestCore, GrantIsKnown
  <2> QED
    BY <2>1, <2>2
<1>8. ShutdownIsQuiet'
  BY <1>4 DEF RequestCore, ShutdownIsQuiet
<1> QED
  BY <1>4, <1>5, <1>6, <1>7, <1>8 DEF RequestCore

LEMMA FreedHolder ==
    ASSUME RequestCore, NEW c \in Calls, Freed(c)
    PROVE  /\ server' \in [holder : Calls \cup {Nobody, Other}, left : 0..TTL]
           /\ \A d \in Calls : server'.holder = d => server.holder = d
           /\ server'.holder # c
  BY DEF RequestCore, TypeOK, Freed

LEMMA ReleaseKeeps ==
    ASSUME RequestCore, NEW j \in Jobs, Release(j)
    PROVE  RequestCore'
<1>0. /\ j[1] \in Calls /\ TypeOK /\ late \subseteq excused /\ excused \subseteq Calls
      /\ caller \in [Calls -> {"idle", "held", "lost", "failed", "leaving", "gone"} \cup Asking]
      /\ server \in [holder : Calls \cup {Nobody, Other}, left : 0..TTL]
      /\ job[j] \in JobState
  BY Pairs DEF RequestCore, TypeOK, GrantIsKnown, JobState
<1>1. CASE ReleaseAnswered(j)
  <2>1. Live(j) /\ Over(j) /\ Freed(j[1]) /\ UNCHANGED <<caller, polls, age, waiter, late, excused>>
    BY <1>1 DEF ReleaseAnswered, Live
  <2>2. /\ server' \in [holder : Calls \cup {Nobody, Other}, left : 0..TTL]
        /\ \A d \in Calls : server'.holder = d => server.holder = d
        /\ server'.holder # j[1]
    BY <1>0, <2>1, FreedHolder
  <2>3. UNCHANGED <<polls, age, waiter>> /\ caller' = caller /\ late' = late /\ excused' = excused
    BY <2>1
  <2> QED
    BY <1>0, <2>1, <2>2, <2>3, EndedKeeps
<1>2. CASE ReleaseFails(j)
  <2>1. Live(j) /\ UNCHANGED <<polls, age, waiter>> /\ caller' = caller /\ late' = late
    BY <1>2 DEF ReleaseFails, Live
  <2>2. /\ server' \in [holder : Calls \cup {Nobody, Other}, left : 0..TTL]
        /\ \A d \in Calls : server'.holder = d => server.holder = d
    BY <1>0, <1>2, FreedHolder DEF ReleaseFails
  <2>3. CASE Over(j) /\ excused' = excused \cup {j[1]}
    BY <1>0, <2>1, <2>2, <2>3, EndedKeeps
  <2>4. CASE ~(Over(j) /\ excused' = excused \cup {j[1]})
    <3>1. /\ UNCHANGED <<pending, excused>>
          /\ job' = [job EXCEPT ![j].st = "pausing", ![j].timer = job[j].pause,
                       ![j].pause = IF 2 * @ < PAUSE_MAX THEN 2 * @ ELSE PAUSE_MAX]
      BY <1>2, <2>4 DEF ReleaseFails
    <3>2. (IF 2 * job[j].pause < PAUSE_MAX THEN 2 * job[j].pause ELSE PAUSE_MAX) \in 0..PAUSE_MAX
      BY <1>0 DEF JobState
    <3>3. /\ job' \in [Jobs -> JobState] /\ job'[j].st = "pausing"
          /\ \A i \in Jobs \ {j} : job'[i] = job[i]
      BY <1>0, <3>1, <3>2 DEF JobState, TypeOK
    <3>4. UNCHANGED <<polls, age, waiter, pending>> /\ excused' = excused
      BY <2>1, <3>1
    <3> QED
      BY <1>0, <2>1, <2>2, <3>3, <3>4, GoesOnKeeps
  <2> QED
    BY <2>3, <2>4
<1>3. CASE ReleaseAgain(j)
  <2>1. Live(j) /\ job' = [job EXCEPT ![j].st = "sending", ![j].retried = TRUE]
        /\ UNCHANGED <<polls, age, waiter, pending>>
        /\ caller' = caller /\ server' = server /\ late' = late /\ excused' = excused
    BY <1>3 DEF ReleaseAgain, Live
  <2>2. /\ job' \in [Jobs -> JobState] /\ job'[j].st = "sending"
        /\ \A i \in Jobs \ {j} : job'[i] = job[i]
    BY <1>0, <2>1 DEF JobState, TypeOK
  <2> QED
    BY <1>0, <2>1, <2>2, GoesOnKeeps
<1>4. CASE ReleaseCutOff(j)
  <2>1. Live(j) /\ Over(j) /\ excused' = excused \cup {j[1]}
        /\ UNCHANGED <<polls, age, waiter>>
        /\ caller' = caller /\ server' = server /\ late' = late
    BY <1>4 DEF ReleaseCutOff, Live
  <2> QED
    BY <1>0, <2>1, EndedKeeps
<1> QED
  BY <1>1, <1>2, <1>3, <1>4 DEF Release

(* Only a request is ever armed: see JobShape and Track *)
LEMMA TaskCancelledKeeps ==
    ASSUME RequestCore, NEW j \in Jobs, TaskCancelled(j)
    PROVE  RequestCore'
<1>0. /\ j[1] \in Calls /\ TypeOK /\ late \subseteq excused /\ excused \subseteq Calls
      /\ server \in [holder : Calls \cup {Nobody, Other}, left : 0..TTL]
  BY Pairs DEF RequestCore, TypeOK, GrantIsKnown
<1>1. Live(j) /\ UNCHANGED <<polls, age, waiter, server>>
  BY DEF TaskCancelled
<1>2. /\ late' \subseteq excused' /\ excused \subseteq excused' /\ excused' \subseteq Calls
      /\ ~Live(j)' => j[1] \in excused'
  BY <1>0 DEF TaskCancelled
<1>3. caller' \in [Calls -> {"idle", "held", "lost", "failed", "leaving", "gone"} \cup Asking]
  BY <1>0 DEF TaskCancelled, TypeOK, Asking
<1>4. \A c \in Calls : caller'[c] = caller[c]
        \/ (c = j[1] /\ j[2] = "request" /\ caller[c] = "polling" /\ caller'[c] = "error")
  <2>1. Live(j) /\ caller[j[1]] = "polling" => j[2] = "request"
    BY Pairs DEF RequestCore, JobShape, Kinds
  <2>2. \/ caller' = caller
        \/ caller[j[1]] = "polling" /\ caller' = [caller EXCEPT ![j[1]] = "error"]
    BY DEF TaskCancelled
  <2> QED
    BY <1>0, <1>1, <2>1, <2>2 DEF TypeOK
<1>5. CASE SendDetached(j)
  <2>1. job' = [job EXCEPT ![j] = [Owed("sending") EXCEPT !.detached = TRUE]]
        /\ UNCHANGED <<polls, age, waiter, pending>>
    BY <1>1, <1>5 DEF SendDetached
  <2>2. /\ job' \in [Jobs -> JobState] /\ job'[j].st = "sending"
        /\ \A i \in Jobs \ {j} : job'[i] = job[i]
    BY <1>0, <2>1, JobTypes DEF JobState, TypeOK
  <2> QED
    BY <1>0, <1>1, <1>2, <1>3, <1>4, <2>1, <2>2, GoesOnKeeps
<1>6. CASE Over(j)
  <2>1. ~Live(j)'
    BY <1>0, <1>6, JobTypes DEF Over, Live, TypeOK
  <2> QED
    BY <1>0, <1>1, <1>2, <1>3, <1>4, <1>6, <2>1, EndedKeeps
<1> QED
  BY <1>5, <1>6 DEF TaskCancelled

-----------------------------------------------------------------------------
(* The shutdown, the server and time. *)

LEMMA LateAcquireKeeps ==
    ASSUME RequestCore, NEW c \in Calls, LateAcquire(c)
    PROVE  RequestCore'
<1>1. TypeOK'
  BY DEF RequestCore, TypeOK, Asking, LateAcquire, Granted
<1>2. JobShape'
  BY DEF RequestCore, TypeOK, JobShape, Live, Asking, LateAcquire, Granted
<1>3. GrantIsKnown'
  BY DEF RequestCore, TypeOK, GrantIsKnown, LateAcquire, Granted
<1>4. ShutdownIsQuiet' /\ PendingCounts'
  <2>1. \A j \in Jobs : Live(j)' <=> Live(j)
    BY DEF Live, LateAcquire, Granted
  <2>2. UNCHANGED pending /\ PendingCounts
    BY DEF RequestCore, LateAcquire, Granted
  <2>3. PendingCounts' /\ LiveJobs' = LiveJobs
    BY <2>1, <2>2, SameCounts
  <2> QED
    BY <2>3 DEF RequestCore, TypeOK, ShutdownIsQuiet, Asking, LateAcquire, Granted
<1> QED
  BY <1>1, <1>2, <1>3, <1>4 DEF RequestCore

LEMMA OtherClientKeeps ==
    ASSUME RequestCore, OtherClient
    PROVE  RequestCore'
<1>1. TypeOK'
  BY DEF RequestCore, TypeOK, Asking, OtherClient, Granted
<1>2. JobShape'
  BY DEF RequestCore, TypeOK, JobShape, Live, Asking, OtherClient, Granted
<1>3. GrantIsKnown'
  BY DEF RequestCore, TypeOK, GrantIsKnown, OtherClient, Granted
<1>4. ShutdownIsQuiet' /\ PendingCounts'
  <2>1. \A j \in Jobs : Live(j)' <=> Live(j)
    BY DEF Live, OtherClient, Granted
  <2>2. UNCHANGED pending /\ PendingCounts
    BY DEF RequestCore, OtherClient, Granted
  <2>3. PendingCounts' /\ LiveJobs' = LiveJobs
    BY <2>1, <2>2, SameCounts
  <2> QED
    BY <2>3 DEF RequestCore, TypeOK, ShutdownIsQuiet, Asking, OtherClient, Granted
<1> QED
  BY <1>1, <1>2, <1>3, <1>4 DEF RequestCore

LEMMA WaitForReleasesKeeps ==
    ASSUME RequestCore, WaitForReleases
    PROVE  RequestCore'
<1>1. TypeOK'
  BY DEF RequestCore, TypeOK, Asking, WaitForReleases
<1>2. JobShape'
  BY DEF RequestCore, TypeOK, JobShape, Live, Asking, WaitForReleases
<1>3. GrantIsKnown'
  BY DEF RequestCore, TypeOK, GrantIsKnown, WaitForReleases
<1>4. ShutdownIsQuiet' /\ PendingCounts'
  <2>1. \A j \in Jobs : Live(j)' <=> Live(j)
    BY DEF Live, WaitForReleases
  <2>2. UNCHANGED pending /\ PendingCounts
    BY DEF RequestCore, WaitForReleases
  <2>3. PendingCounts' /\ LiveJobs' = LiveJobs
    BY <2>1, <2>2, SameCounts
  <2> QED
    BY <2>3 DEF RequestCore, TypeOK, ShutdownIsQuiet, Asking, WaitForReleases
<1> QED
  BY <1>1, <1>2, <1>3, <1>4 DEF RequestCore

LEMMA ReleasesSettledKeeps ==
    ASSUME RequestCore, ReleasesSettled
    PROVE  RequestCore'
<1>1. LiveJobs = {}
  BY FS_EmptySet DEF RequestCore, PendingCounts, ReleasesSettled
<1>2. \A j \in Jobs : Live(j)' <=> Live(j)
  BY DEF Live, ReleasesSettled
<1>3. UNCHANGED pending /\ PendingCounts
  BY DEF RequestCore, ReleasesSettled
<1>4. PendingCounts' /\ LiveJobs' = LiveJobs
  BY <1>2, <1>3, SameCounts
<1>5. TypeOK' /\ GrantIsKnown'
  BY DEF RequestCore, TypeOK, GrantIsKnown, ReleasesSettled
<1>6. JobShape' /\ ShutdownIsQuiet'
  BY <1>1, <1>2, <1>4, Pairs DEF RequestCore, JobShape, ShutdownIsQuiet, ReleasesSettled, Kinds
<1> QED
  BY <1>4, <1>5, <1>6 DEF RequestCore

LEMMA TickKeeps ==
    ASSUME RequestCore, Tick
    PROVE  RequestCore'
<1>1. job' \in [Jobs -> JobState] /\ \A j \in Jobs : job'[j].st = job[j].st
  <2>1. ASSUME NEW j \in Jobs PROVE job'[j] \in JobState /\ job'[j].st = job[j].st
    BY DEF RequestCore, TypeOK, JobState, Tick
  <2> QED
    BY <2>1 DEF Tick
<1>2. /\ server' \in [holder : Calls \cup {Nobody, Other}, left : 0..TTL]
      /\ \A c \in Calls : server'.holder = c => server.holder = c
  BY DEF RequestCore, TypeOK, Tick
<1>3. age' \in [Calls -> 0..TTL]
  BY DEF RequestCore, TypeOK, Tick
<1>4. TypeOK'
  BY <1>1, <1>2, <1>3 DEF RequestCore, TypeOK, JobState, Tick
<1>5. \A j \in Jobs : Live(j)' <=> Live(j)
  BY <1>1 DEF Live
<1>6. UNCHANGED pending /\ PendingCounts
  BY DEF RequestCore, Tick
<1>7. PendingCounts' /\ LiveJobs' = LiveJobs
  BY <1>5, <1>6, SameCounts
<1>8. JobShape' /\ ShutdownIsQuiet'
  BY <1>5, <1>7, Pairs DEF RequestCore, JobShape, ShutdownIsQuiet, Tick, Kinds
<1>9. GrantIsKnown'
  BY <1>1, <1>2, Pairs DEF RequestCore, GrantIsKnown, Tick, Kinds
<1> QED
  BY <1>4, <1>7, <1>8, <1>9 DEF RequestCore

-----------------------------------------------------------------------------

LEMMA InitRequests == Init => RequestCore
<1> SUFFICES ASSUME Init PROVE RequestCore
  OBVIOUS
<1>1. job \in [Jobs -> JobState] /\ \A j \in Jobs : ~Live(j)
  BY JobTypes DEF Init, Live
<1>2. polls \in [Calls -> [used : 0..ATTEMPTS, answered : BOOLEAN, errors : 0..ERROR_LIMIT]]
  BY DEF Init, FreshPolls
<1>3. TypeOK
  BY <1>1, <1>2 DEF Init, TypeOK, JobState
<1>4. JobShape /\ ShutdownIsQuiet
  BY <1>1, Pairs DEF Init, JobShape, ShutdownIsQuiet, Kinds
<1>5. GrantIsKnown
  BY DEF Init, GrantIsKnown
<1>6. LiveJobs = {}
  BY <1>1 DEF LiveJobs
<1>7. PendingCounts
  BY <1>6, FS_EmptySet DEF Init, PendingCounts
<1> QED
  BY <1>3, <1>4, <1>5, <1>7 DEF RequestCore

LEMMA NextRequests == RequestCore /\ [Next]_vars => RequestCore'
<1> SUFFICES ASSUME RequestCore, [Next]_vars
             PROVE  RequestCore'
  OBVIOUS
<1>1. CASE UNCHANGED vars
  BY <1>1
  DEF vars, RequestCore, TypeOK, JobShape, GrantIsKnown, ShutdownIsQuiet, PendingCounts,
              LiveJobs, Live
<1>2. ASSUME NEW c \in Calls, Call(c) \/ LateAcquire(c)
      PROVE  RequestCore'
  BY <1>2, PollKeeps, PollsRunOutKeeps, RequestKeeps, TakeAnswerKeeps, CallerGoesAwayKeeps,
     ConfirmedKeeps, LostKeeps, DropLockKeeps, LateAcquireKeeps
  DEF Call
<1>3. ASSUME NEW j \in Jobs, Release(j) \/ TaskCancelled(j)
      PROVE  RequestCore'
  BY <1>3, ReleaseKeeps, TaskCancelledKeeps
<1>4. CASE WaitForReleases \/ ReleasesSettled \/ OtherClient \/ Tick
  BY <1>4, WaitForReleasesKeeps, ReleasesSettledKeeps, OtherClientKeeps, TickKeeps
<1> QED
  BY <1>1, <1>2, <1>3, <1>4 DEF Next

(* Whatever fails, is cancelled or is cut off, for any number of calls: the *)
(* count a shutdown waits on is the number of releases owed, a lease on the *)
(* server is always somebody's to release, and none is left behind when the *)
(* wait is over, apart from the excused ones (OwedRelease, PendingReleases) *)
THEOREM LeasesAreAnsweredFor == Spec => []RequestInvariant
<1>1. RequestCore => RequestInvariant
  <2> SUFFICES ASSUME RequestCore PROVE RequestInvariant
    OBVIOUS
  <2>1. NoForgottenLease
    BY Pairs DEF RequestCore, GrantIsKnown, NoForgottenLease, AnsweredFor, Live, Asking
  <2>2. CleanShutdown
    BY Pairs DEF RequestCore, GrantIsKnown, ShutdownIsQuiet, CleanShutdown, LiveJobs, Live
  <2> QED
    BY <2>1, <2>2 DEF RequestCore, RequestInvariant
<1>2. Spec => []RequestCore
  BY InitRequests, NextRequests, PTL DEF Spec
<1> QED
  BY <1>1, <1>2, PTL

-----------------------------------------------------------------------------
(* Sharing in a process.  What a call's end leaves of the locks. *)

USE CallersAssumption, AcquisitionsAssumption

LEMMA KeptType ==
    ASSUME NEW S, NEW f, f \in [Locks -> S], NEW gone \in S
    PROVE  Kept(f, gone) \in [Locks -> S]
  BY DEF Kept

LEMMA ForgetsTypes ==
    ASSUME SharingTypeOK, Forgets
    PROVE  /\ lease' \in [Locks -> {"fresh", "stale", "lost"}]
           /\ failed' \in [Locks -> BOOLEAN]
<1>1. lease' \in [Locks -> {"fresh", "stale", "lost"}]
  BY KeptType DEF SharingTypeOK, Forgets
<1>2. failed' \in [Locks -> BOOLEAN]
  BY KeptType, Zenon DEF SharingTypeOK, Forgets
<1> QED
  BY <1>1, <1>2

LEMMA AskOverTypes ==
    ASSUME SharingTypeOK, NEW u \in Callers, mine[u] \in Locks, NEW failure \in BOOLEAN,
           NEW outcome \in {"fresh", "stale", "lost"}, AskOver(u, failure, outcome)
    PROVE  /\ conf' \in [Callers -> {"none", "starting", "waiting", "asking"}]
           /\ seen' \in [Callers -> BOOLEAN]
           /\ heard' \in [Callers -> {"nothing", "answer", "failure"}]
           /\ mutex' \in [Locks -> Callers \cup {None}]
           /\ lease' \in [Locks -> {"fresh", "stale", "lost"}]
           /\ failed' \in [Locks -> BOOLEAN]
<1>1. conf' \in [Callers -> {"none", "starting", "waiting", "asking"}]
  BY DEF SharingTypeOK, AskOver
<1>2. seen' \in [Callers -> BOOLEAN]
  BY DEF SharingTypeOK, AskOver, WaitsFor
<1>3. heard' \in [Callers -> {"nothing", "answer", "failure"}]
  BY DEF SharingTypeOK, AskOver
<1>4. mutex' \in [Locks -> Callers \cup {None}]
  BY DEF SharingTypeOK, AskOver
<1>5. lease' \in [Locks -> {"fresh", "stale", "lost"}]
  <2>1. [lease EXCEPT ![mine[u]] = outcome] \in [Locks -> {"fresh", "stale", "lost"}]
    BY DEF SharingTypeOK
  <2> QED
    BY <2>1, KeptType DEF AskOver
<1>6. failed' \in [Locks -> BOOLEAN]
  <2>1. [failed EXCEPT ![mine[u]] = failure] \in [Locks -> BOOLEAN]
    BY DEF SharingTypeOK
  <2> QED
    BY <2>1, KeptType, Zenon DEF AskOver
<1> QED
  BY <1>1, <1>2, <1>3, <1>4, <1>5, <1>6

-----------------------------------------------------------------------------
(* cached_or_acquired. *)

LEMMA CallKeeps ==
    ASSUME SharingInvariant, NEW u \in Callers, TakeLock(u)
    PROVE  SharingInvariant'
<1>1. SharingTypeOK'
  BY DEF SharingInvariant, SharingTypeOK, Places, CallShape, TakeLock, Goes, confVars
<1>2. CallShape'
  BY DEF SharingInvariant, SharingTypeOK, CallShape, TakeLock, Goes, confVars
<1>3. MutexShape'
  BY DEF SharingInvariant, SharingTypeOK, CallShape, MutexShape, TakeLock, Goes, confVars
<1>4. OneLock'
  BY DEF SharingInvariant, SharingTypeOK, CallShape, OneLock, NoSelfContention, HoldersShare,
         TakeLock, Goes, confVars
<1>5. NothingHeardYet'
  BY DEF SharingInvariant, SharingTypeOK, CallShape, NothingHeardYet, TakeLock, Goes, confVars
<1>6. HoldersShare'
  BY DEF SharingInvariant, SharingTypeOK, CallShape, HoldersShare, OneLock, TakeLock, Goes,
         confVars
<1>7. NoSelfContention'
  BY DEF SharingInvariant, SharingTypeOK, CallShape, NoSelfContention, OneLock, TakeLock,
         Goes, confVars
<1>8. FailureIsShared'
  BY DEF SharingInvariant, SharingTypeOK, CallShape, FailureIsShared, SharesFailure,
         NothingHeardYet, TakeLock, Goes, confVars
<1> QED
  BY <1>1, <1>2, <1>3, <1>4, <1>5, <1>6, <1>7, <1>8 DEF SharingInvariant

LEMMA ReadCacheKeeps ==
    ASSUME SharingInvariant, NEW u \in Callers, ReadCache(u)
    PROVE  SharingInvariant'
<1>1. SharingTypeOK'
  BY DEF SharingInvariant, SharingTypeOK, Places, CallShape, ReadCache, Upgraded, Goes, Alive
<1>2. CallShape'
  BY DEF SharingInvariant, SharingTypeOK, CallShape, ReadCache, Upgraded, Goes, Alive
<1>3. MutexShape'
  BY DEF SharingInvariant, SharingTypeOK, CallShape, MutexShape, ReadCache, Upgraded, Goes,
         Alive
<1>4. OneLock'
  BY DEF SharingInvariant, SharingTypeOK, CallShape, OneLock, NoSelfContention, HoldersShare,
         ReadCache, Upgraded, Goes, Alive
<1>5. NothingHeardYet'
  BY DEF SharingInvariant, SharingTypeOK, CallShape, NothingHeardYet, ReadCache, Upgraded,
         Goes, Alive
<1>6. HoldersShare'
  BY DEF SharingInvariant, SharingTypeOK, CallShape, HoldersShare, OneLock, ReadCache,
         Upgraded, Goes, Alive
<1>7. NoSelfContention'
  BY DEF SharingInvariant, SharingTypeOK, CallShape, NoSelfContention, OneLock, ReadCache,
         Upgraded, Goes, Alive
<1>8. FailureIsShared'
  BY DEF SharingInvariant, SharingTypeOK, CallShape, FailureIsShared, SharesFailure,
         NothingHeardYet, ReadCache, Upgraded, Goes, Alive
<1> QED
  BY <1>1, <1>2, <1>3, <1>4, <1>5, <1>6, <1>7, <1>8 DEF SharingInvariant

LEMMA WriteCacheKeeps ==
    ASSUME SharingInvariant, NEW u \in Callers, WriteCache(u)
    PROVE  SharingInvariant'
<1>1. SharingTypeOK'
  BY DEF SharingInvariant, SharingTypeOK, Places, CallShape, WriteCache, Upgraded, Goes, Alive
<1>2. CallShape'
  BY DEF SharingInvariant, SharingTypeOK, CallShape, WriteCache, Upgraded, Goes, Alive
<1>3. MutexShape'
  BY DEF SharingInvariant, SharingTypeOK, CallShape, MutexShape, WriteCache, Upgraded, Goes,
         Alive
<1>4. OneLock'
  BY DEF SharingInvariant, SharingTypeOK, CallShape, OneLock, NoSelfContention, HoldersShare,
         WriteCache, Upgraded, Goes, Alive
<1>5. NothingHeardYet'
  BY DEF SharingInvariant, SharingTypeOK, CallShape, NothingHeardYet, WriteCache, Upgraded,
         Goes, Alive
<1>6. HoldersShare'
  BY DEF SharingInvariant, SharingTypeOK, CallShape, HoldersShare, OneLock, WriteCache,
         Upgraded, Goes, Alive
<1>7. NoSelfContention'
  BY DEF SharingInvariant, SharingTypeOK, CallShape, NoSelfContention, OneLock, WriteCache,
         Upgraded, Goes, Alive
<1>8. FailureIsShared'
  BY DEF SharingInvariant, SharingTypeOK, CallShape, FailureIsShared, SharesFailure,
         NothingHeardYet, WriteCache, Upgraded, Goes, Alive
<1> QED
  BY <1>1, <1>2, <1>3, <1>4, <1>5, <1>6, <1>7, <1>8 DEF SharingInvariant

LEMMA AcquiredKeeps ==
    ASSUME SharingInvariant, NEW u \in Callers, NEW l \in Locks, Acquired(u, l)
    PROVE  SharingInvariant'
<1>1. SharingTypeOK'
  BY DEF SharingInvariant, SharingTypeOK, Places, CallShape, Acquired, Goes, Named, Unused,
         Alive
<1>2. CallShape'
  BY DEF SharingInvariant, SharingTypeOK, CallShape, Acquired, Goes, Named, Unused, Alive
<1>3. MutexShape'
  BY DEF SharingInvariant, SharingTypeOK, CallShape, MutexShape, Acquired, Goes, Named,
         Unused, Alive
<1>4. OneLock'
  BY DEF SharingInvariant, SharingTypeOK, CallShape, OneLock, NoSelfContention, HoldersShare,
         Acquired, Goes, Named, Unused, Alive
<1>5. NothingHeardYet'
  BY DEF SharingInvariant, SharingTypeOK, CallShape, NothingHeardYet, Acquired, Goes, Named,
         Unused, Alive
<1>6. HoldersShare'
  BY DEF SharingInvariant, SharingTypeOK, CallShape, HoldersShare, OneLock, Acquired, Goes,
         Named, Unused, Alive
<1>7. NoSelfContention'
  BY DEF SharingInvariant, SharingTypeOK, CallShape, NoSelfContention, OneLock, Acquired,
         Goes, Named, Unused, Alive
<1>8. FailureIsShared'
  BY DEF SharingInvariant, SharingTypeOK, CallShape, FailureIsShared, SharesFailure,
         NothingHeardYet, Acquired, Goes, Named, Unused, Alive
<1> QED
  BY <1>1, <1>2, <1>3, <1>4, <1>5, <1>6, <1>7, <1>8 DEF SharingInvariant

LEMMA AcquireFailsKeeps ==
    ASSUME SharingInvariant, NEW u \in Callers, AcquireFails(u)
    PROVE  SharingInvariant'
<1>1. SharingTypeOK'
  <2>1. SharingTypeOK /\ Forgets
    BY DEF SharingInvariant, AcquireFails
  <2> QED
    BY <2>1, ForgetsTypes
    DEF SharingInvariant, SharingTypeOK, Places, CallShape, AcquireFails, Returns, Goes,
           Unlocked
<1>2. CallShape'
  BY DEF SharingInvariant, SharingTypeOK, CallShape, AcquireFails, Returns, Goes, Unlocked,
         Forgets, Kept, Alive
<1>3. MutexShape'
  BY DEF SharingInvariant, SharingTypeOK, CallShape, MutexShape, AcquireFails, Returns, Goes,
         Unlocked, Forgets, Kept, Alive
<1>4. OneLock'
  BY DEF SharingInvariant, SharingTypeOK, CallShape, OneLock, NoSelfContention, HoldersShare,
         AcquireFails, Returns, Goes, Unlocked, Forgets, Kept, Alive
<1>5. NothingHeardYet'
  BY DEF SharingInvariant, SharingTypeOK, CallShape, NothingHeardYet, AcquireFails, Returns,
         Goes, Unlocked, Forgets, Kept, Alive
<1>6. HoldersShare'
  BY DEF SharingInvariant, SharingTypeOK, CallShape, HoldersShare, OneLock, AcquireFails,
         Returns, Goes, Unlocked, Forgets, Kept, Alive
<1>7. NoSelfContention'
  BY DEF SharingInvariant, SharingTypeOK, CallShape, NoSelfContention, OneLock, AcquireFails,
         Returns, Goes, Unlocked, Forgets, Kept, Alive
<1>8. FailureIsShared'
  BY DEF SharingInvariant, SharingTypeOK, CallShape, FailureIsShared, SharesFailure,
         NothingHeardYet, AcquireFails, Returns, Goes, Unlocked, Forgets, Kept, Alive
<1> QED
  BY <1>1, <1>2, <1>3, <1>4, <1>5, <1>6, <1>7, <1>8 DEF SharingInvariant

LEMMA DropHandleKeeps ==
    ASSUME SharingInvariant, NEW u \in Callers, DropHandle(u)
    PROVE  SharingInvariant'
<1>1. SharingTypeOK'
  <2>1. SharingTypeOK /\ Forgets
    BY DEF SharingInvariant, DropHandle
  <2> QED
    BY <2>1, ForgetsTypes
    DEF SharingInvariant, SharingTypeOK, Places, CallShape, DropHandle, Returns, Goes, Unlocked
<1>2. CallShape'
  BY DEF SharingInvariant, SharingTypeOK, CallShape, DropHandle, Returns, Goes, Unlocked,
         Forgets, Kept, Alive
<1>3. MutexShape'
  BY DEF SharingInvariant, SharingTypeOK, CallShape, MutexShape, DropHandle, Returns, Goes,
         Unlocked, Forgets, Kept, Alive
<1>4. OneLock'
  BY DEF SharingInvariant, SharingTypeOK, CallShape, OneLock, NoSelfContention, HoldersShare,
         DropHandle, Returns, Goes, Unlocked, Forgets, Kept, Alive
<1>5. NothingHeardYet'
  BY DEF SharingInvariant, SharingTypeOK, CallShape, NothingHeardYet, DropHandle, Returns, Goes,
         Unlocked, Forgets, Kept, Alive
<1>6. HoldersShare'
  BY DEF SharingInvariant, SharingTypeOK, CallShape, HoldersShare, OneLock, DropHandle,
         Returns, Goes, Unlocked, Forgets, Kept, Alive
<1>7. NoSelfContention'
  BY DEF SharingInvariant, SharingTypeOK, CallShape, NoSelfContention, OneLock, DropHandle,
         Returns, Goes, Unlocked, Forgets, Kept, Alive
<1>8. FailureIsShared'
  BY DEF SharingInvariant, SharingTypeOK, CallShape, FailureIsShared, SharesFailure,
         NothingHeardYet, DropHandle, Returns, Goes, Unlocked, Forgets, Kept, Alive
<1> QED
  BY <1>1, <1>2, <1>3, <1>4, <1>5, <1>6, <1>7, <1>8 DEF SharingInvariant

LEMMA CancelledKeeps ==
    ASSUME SharingInvariant, NEW u \in Callers, Cancelled(u)
    PROVE  SharingInvariant'
<1>1. SharingTypeOK'
  <2>1. SharingTypeOK /\ Forgets
    BY DEF SharingInvariant, Cancelled
  <2> QED
    BY <2>1, ForgetsTypes
    DEF SharingInvariant, SharingTypeOK, Places, CallShape, Cancelled, Returns, Goes, Unlocked,
        ConfirmOver
<1>2. CallShape'
  BY DEF SharingInvariant, SharingTypeOK, CallShape, Cancelled, Returns, Goes, Unlocked,
         Forgets, Kept, Alive, ConfirmOver
<1>3. MutexShape'
  BY DEF SharingInvariant, SharingTypeOK, CallShape, MutexShape, Cancelled, Returns, Goes,
         Unlocked, Forgets, Kept, Alive, ConfirmOver
<1>4. OneLock'
  BY DEF SharingInvariant, SharingTypeOK, CallShape, OneLock, NoSelfContention, HoldersShare,
         Cancelled, Returns, Goes, Unlocked, Forgets, Kept, Alive, ConfirmOver
<1>5. NothingHeardYet'
  BY DEF SharingInvariant, SharingTypeOK, CallShape, NothingHeardYet, Cancelled, Returns, Goes,
         Unlocked, Forgets, Kept, Alive, ConfirmOver
<1>6. HoldersShare'
  BY DEF SharingInvariant, SharingTypeOK, CallShape, HoldersShare, OneLock, Cancelled,
         Returns, Goes, Unlocked, Forgets, Kept, Alive, ConfirmOver
<1>7. NoSelfContention'
  BY DEF SharingInvariant, SharingTypeOK, CallShape, NoSelfContention, OneLock, Cancelled,
         Returns, Goes, Unlocked, Forgets, Kept, Alive, ConfirmOver
<1>8. FailureIsShared'
  BY DEF SharingInvariant, SharingTypeOK, CallShape, FailureIsShared, SharesFailure,
         NothingHeardYet, Cancelled, Returns, Goes, Unlocked, Forgets, Kept, Alive,
         ConfirmOver
<1> QED
  BY <1>1, <1>2, <1>3, <1>4, <1>5, <1>6, <1>7, <1>8 DEF SharingInvariant

LEMMA RetakeKeeps ==
    ASSUME SharingInvariant, NEW u \in Callers, Retake(u)
    PROVE  SharingInvariant'
<1>1. SharingTypeOK'
  BY DEF SharingInvariant, SharingTypeOK, Places, CallShape, Retake, Goes, confVars
<1>2. CallShape'
  BY DEF SharingInvariant, SharingTypeOK, CallShape, Retake, Goes, confVars
<1>3. MutexShape'
  BY DEF SharingInvariant, SharingTypeOK, CallShape, MutexShape, Retake, Goes, confVars
<1>4. OneLock'
  BY DEF SharingInvariant, SharingTypeOK, CallShape, OneLock, NoSelfContention, HoldersShare,
         Retake, Goes, confVars
<1>5. NothingHeardYet'
  BY DEF SharingInvariant, SharingTypeOK, CallShape, NothingHeardYet, Retake, Goes, confVars
<1>6. HoldersShare'
  BY DEF SharingInvariant, SharingTypeOK, CallShape, HoldersShare, OneLock, Retake, Goes,
         confVars
<1>7. NoSelfContention'
  BY DEF SharingInvariant, SharingTypeOK, CallShape, NoSelfContention, OneLock, Retake, Goes,
         confVars
<1>8. FailureIsShared'
  BY DEF SharingInvariant, SharingTypeOK, CallShape, FailureIsShared, SharesFailure,
         NothingHeardYet, Retake, Goes, confVars
<1> QED
  BY <1>1, <1>2, <1>3, <1>4, <1>5, <1>6, <1>7, <1>8 DEF SharingInvariant

-----------------------------------------------------------------------------
(* confirm_via. *)

LEMMA SettledConfirmedKeeps ==
    ASSUME SharingInvariant, NEW u \in Callers, conf[u] \in {"starting", "waiting"},
           lease[mine[u]] = "fresh", CallConfirmed(u), ConfirmOver(u), Forgets,
           UNCHANGED <<mutex, leased>>
    PROVE  SharingInvariant'
<1>1. SharingTypeOK'
  <2>1. SharingTypeOK /\ Forgets
    BY DEF SharingInvariant
  <2> QED
    BY <2>1, ForgetsTypes
    DEF SharingInvariant, SharingTypeOK, Places, CallShape, CallConfirmed, Goes, Unlocked,
           ConfirmOver
<1>2. CallShape'
  BY DEF SharingInvariant, SharingTypeOK, CallShape, CallConfirmed, Goes, Unlocked,
         ConfirmOver, Forgets, Kept, Alive
<1>3. MutexShape'
  BY DEF SharingInvariant, SharingTypeOK, CallShape, MutexShape, CallConfirmed, Goes, Unlocked,
         ConfirmOver, Forgets, Kept, Alive
<1>4. OneLock'
  BY DEF SharingInvariant, SharingTypeOK, CallShape, OneLock, NoSelfContention, HoldersShare,
         CallConfirmed, Goes, Unlocked, ConfirmOver, Forgets, Kept, Alive
<1>5. NothingHeardYet'
  BY DEF SharingInvariant, SharingTypeOK, CallShape, NothingHeardYet, CallConfirmed, Goes,
         Unlocked, ConfirmOver, Forgets, Kept, Alive
<1>6. HoldersShare'
  BY DEF SharingInvariant, SharingTypeOK, CallShape, HoldersShare, OneLock, CallConfirmed,
         Goes, Unlocked, ConfirmOver, Forgets, Kept, Alive
<1>7. NoSelfContention'
  BY DEF SharingInvariant, SharingTypeOK, CallShape, NoSelfContention, OneLock,
         CallConfirmed, Goes, Unlocked, ConfirmOver, Forgets, Kept, Alive
<1>8. FailureIsShared'
  BY DEF SharingInvariant, SharingTypeOK, CallShape, FailureIsShared, SharesFailure,
         NothingHeardYet, CallConfirmed, Goes, Unlocked, ConfirmOver, Forgets, Kept, Alive
<1> QED
  BY <1>1, <1>2, <1>3, <1>4, <1>5, <1>6, <1>7, <1>8 DEF SharingInvariant

LEMMA SettledLostKeeps ==
    ASSUME SharingInvariant, NEW u \in Callers, conf[u] \in {"starting", "waiting"},
           lease[mine[u]] = "lost", FoundLost(u), ConfirmOver(u), Forgets,
           UNCHANGED <<mutex, leased>>
    PROVE  SharingInvariant'
<1>1. SharingTypeOK'
  <2>1. SharingTypeOK /\ Forgets
    BY DEF SharingInvariant
  <2> QED
    BY <2>1, ForgetsTypes
    DEF SharingInvariant, SharingTypeOK, Places, CallShape, FoundLost, ConfirmOver, Returns,
           Goes, Unlocked
<1>2. CallShape'
  BY DEF SharingInvariant, SharingTypeOK, CallShape, FoundLost, ConfirmOver, Returns, Goes,
         Unlocked, Forgets, Kept, Alive
<1>3. MutexShape'
  BY DEF SharingInvariant, SharingTypeOK, CallShape, MutexShape, FoundLost, ConfirmOver,
         Returns, Goes, Unlocked, Forgets, Kept, Alive
<1>4. OneLock'
  BY DEF SharingInvariant, SharingTypeOK, CallShape, OneLock, NoSelfContention, HoldersShare,
         FoundLost, ConfirmOver, Returns, Goes, Unlocked, Forgets, Kept, Alive
<1>5. NothingHeardYet'
  BY DEF SharingInvariant, SharingTypeOK, CallShape, NothingHeardYet, FoundLost, ConfirmOver,
         Returns, Goes, Unlocked, Forgets, Kept, Alive
<1>6. HoldersShare'
  BY DEF SharingInvariant, SharingTypeOK, CallShape, HoldersShare, OneLock, FoundLost,
         ConfirmOver, Returns, Goes, Unlocked, Forgets, Kept, Alive
<1>7. NoSelfContention'
  BY DEF SharingInvariant, SharingTypeOK, CallShape, NoSelfContention, OneLock, FoundLost,
         ConfirmOver, Returns, Goes, Unlocked, Forgets, Kept, Alive
<1>8. FailureIsShared'
  BY DEF SharingInvariant, SharingTypeOK, CallShape, FailureIsShared, SharesFailure,
         NothingHeardYet, FoundLost, ConfirmOver, Returns, Goes, Unlocked, Forgets, Kept,
         Alive
<1> QED
  BY <1>1, <1>2, <1>3, <1>4, <1>5, <1>6, <1>7, <1>8 DEF SharingInvariant

LEMMA SharedFailureKeeps ==
    ASSUME SharingInvariant, NEW u \in Callers, conf[u] = "waiting", lease[mine[u]] = "stale",
           Returns(u), ConfirmOver(u), Forgets, UNCHANGED <<mutex, leased>>
    PROVE  SharingInvariant'
<1>1. SharingTypeOK'
  <2>1. SharingTypeOK /\ Forgets
    BY DEF SharingInvariant
  <2> QED
    BY <2>1, ForgetsTypes
    DEF SharingInvariant, SharingTypeOK, Places, CallShape, ConfirmOver, Returns, Goes, Unlocked
<1>2. CallShape'
  BY DEF SharingInvariant, SharingTypeOK, CallShape, ConfirmOver, Returns, Goes, Unlocked,
         Forgets, Kept, Alive
<1>3. MutexShape'
  BY DEF SharingInvariant, SharingTypeOK, CallShape, MutexShape, ConfirmOver, Returns, Goes,
         Unlocked, Forgets, Kept, Alive
<1>4. OneLock'
  BY DEF SharingInvariant, SharingTypeOK, CallShape, OneLock, NoSelfContention, HoldersShare,
         ConfirmOver, Returns, Goes, Unlocked, Forgets, Kept, Alive
<1>5. NothingHeardYet'
  BY DEF SharingInvariant, SharingTypeOK, CallShape, NothingHeardYet, ConfirmOver, Returns,
         Goes, Unlocked, Forgets, Kept, Alive
<1>6. HoldersShare'
  BY DEF SharingInvariant, SharingTypeOK, CallShape, HoldersShare, OneLock, ConfirmOver,
         Returns, Goes, Unlocked, Forgets, Kept, Alive
<1>7. NoSelfContention'
  BY DEF SharingInvariant, SharingTypeOK, CallShape, NoSelfContention, OneLock, ConfirmOver,
         Returns, Goes, Unlocked, Forgets, Kept, Alive
<1>8. FailureIsShared'
  BY DEF SharingInvariant, SharingTypeOK, CallShape, FailureIsShared, SharesFailure,
         NothingHeardYet, ConfirmOver, Returns, Goes, Unlocked, Forgets, Kept, Alive
<1> QED
  BY <1>1, <1>2, <1>3, <1>4, <1>5, <1>6, <1>7, <1>8 DEF SharingInvariant

LEMMA WaitsKeeps ==
    ASSUME SharingInvariant, NEW u \in Callers, conf[u] = "starting", lease[mine[u]] = "stale",
           conf' = [conf EXCEPT ![u] = "waiting"],
           UNCHANGED <<callVars, seen, heard, mutex, failed, lease, leased>>
    PROVE  SharingInvariant'
<1>1. SharingTypeOK'
  BY DEF SharingInvariant, SharingTypeOK, Places, CallShape, callVars
<1>2. CallShape'
  BY DEF SharingInvariant, SharingTypeOK, CallShape, callVars
<1>3. MutexShape'
  BY DEF SharingInvariant, SharingTypeOK, CallShape, MutexShape, callVars
<1>4. OneLock'
  BY DEF SharingInvariant, SharingTypeOK, CallShape, OneLock, NoSelfContention, HoldersShare,
         callVars
<1>5. NothingHeardYet'
  BY DEF SharingInvariant, SharingTypeOK, CallShape, NothingHeardYet, callVars
<1>6. HoldersShare'
  BY DEF SharingInvariant, SharingTypeOK, CallShape, HoldersShare, OneLock, callVars
<1>7. NoSelfContention'
  BY DEF SharingInvariant, SharingTypeOK, CallShape, NoSelfContention, OneLock, callVars
<1>8. FailureIsShared'
  BY DEF SharingInvariant, SharingTypeOK, CallShape, FailureIsShared, SharesFailure,
         NothingHeardYet, callVars
<1> QED
  BY <1>1, <1>2, <1>3, <1>4, <1>5, <1>6, <1>7, <1>8 DEF SharingInvariant

LEMMA AsksKeeps ==
    ASSUME SharingInvariant, NEW u \in Callers, conf[u] = "waiting", mutex[mine[u]] = None,
           conf' = [conf EXCEPT ![u] = "asking"],
           mutex' = [mutex EXCEPT ![mine[u]] = u],
           UNCHANGED <<callVars, seen, heard, failed, lease, leased>>
    PROVE  SharingInvariant'
<1>1. SharingTypeOK'
  BY DEF SharingInvariant, SharingTypeOK, Places, CallShape, callVars
<1>2. CallShape'
  BY DEF SharingInvariant, SharingTypeOK, CallShape, callVars
<1>3. MutexShape'
  BY DEF SharingInvariant, SharingTypeOK, CallShape, MutexShape, callVars
<1>4. OneLock'
  BY DEF SharingInvariant, SharingTypeOK, CallShape, OneLock, NoSelfContention, HoldersShare,
         callVars
<1>5. NothingHeardYet'
  BY DEF SharingInvariant, SharingTypeOK, CallShape, NothingHeardYet, callVars
<1>6. HoldersShare'
  BY DEF SharingInvariant, SharingTypeOK, CallShape, HoldersShare, OneLock, callVars
<1>7. NoSelfContention'
  BY DEF SharingInvariant, SharingTypeOK, CallShape, NoSelfContention, OneLock, callVars
<1>8. FailureIsShared'
  BY DEF SharingInvariant, SharingTypeOK, CallShape, FailureIsShared, SharesFailure,
         NothingHeardYet, callVars
<1> QED
  BY <1>1, <1>2, <1>3, <1>4, <1>5, <1>6, <1>7, <1>8 DEF SharingInvariant

LEMMA AskConfirmsKeeps ==
    ASSUME SharingInvariant, NEW u \in Callers, AskConfirms(u)
    PROVE  SharingInvariant'
<1>1. SharingTypeOK'
  <2>1. mine[u] \in Locks
    BY DEF SharingInvariant, SharingTypeOK, CallShape, AskConfirms
  <2>2. "fresh" \in {"fresh", "stale", "lost"}
    BY <2>1 DEF SharingInvariant, SharingTypeOK
  <2>3. AskOver(u, FALSE, "fresh")
    BY DEF AskConfirms
  <2>4. SharingTypeOK /\ FALSE \in BOOLEAN
    BY DEF SharingInvariant
  <2>5. /\ conf' \in [Callers -> {"none", "starting", "waiting", "asking"}]
        /\ seen' \in [Callers -> BOOLEAN]
        /\ heard' \in [Callers -> {"nothing", "answer", "failure"}]
        /\ mutex' \in [Locks -> Callers \cup {None}]
        /\ lease' \in [Locks -> {"fresh", "stale", "lost"}]
        /\ failed' \in [Locks -> BOOLEAN]
    BY <2>1, <2>2, <2>3, <2>4, AskOverTypes
  <2>6. UNCHANGED leased
    BY <2>3 DEF AskOver
  <2> QED
    BY <2>1, <2>4, <2>5, <2>6
    DEF SharingInvariant, SharingTypeOK, Places, CallShape, AskConfirms, CallConfirmed, Goes,
           Unlocked
<1>2. CallShape'
  BY DEF SharingInvariant, SharingTypeOK, CallShape, AskConfirms, CallConfirmed, AskOver,
         WaitsFor, Goes, Kept, Alive, Unlocked
<1>3. MutexShape'
  BY DEF SharingInvariant, SharingTypeOK, CallShape, MutexShape, AskConfirms, CallConfirmed,
         AskOver, WaitsFor, Goes, Kept, Alive, Unlocked
<1>4. OneLock'
  BY DEF SharingInvariant, SharingTypeOK, CallShape, OneLock, NoSelfContention, HoldersShare,
         AskConfirms, CallConfirmed, AskOver, WaitsFor, Goes, Kept, Alive, Unlocked
<1>5. NothingHeardYet'
  BY DEF SharingInvariant, SharingTypeOK, CallShape, NothingHeardYet, AskConfirms,
         CallConfirmed, AskOver, WaitsFor, Goes, Kept, Alive, Unlocked
<1>6. HoldersShare'
  BY DEF SharingInvariant, SharingTypeOK, CallShape, HoldersShare, OneLock, AskConfirms,
         CallConfirmed, AskOver, WaitsFor, Goes, Kept, Alive, Unlocked
<1>7. NoSelfContention'
  BY DEF SharingInvariant, SharingTypeOK, CallShape, NoSelfContention, OneLock, AskConfirms,
         CallConfirmed, AskOver, WaitsFor, Goes, Kept, Alive, Unlocked
<1>8. FailureIsShared'
  BY DEF SharingInvariant, SharingTypeOK, CallShape, FailureIsShared, SharesFailure,
         NothingHeardYet, AskConfirms, CallConfirmed, AskOver, WaitsFor, Goes, Kept, Alive,
         Unlocked
<1> QED
  BY <1>1, <1>2, <1>3, <1>4, <1>5, <1>6, <1>7, <1>8 DEF SharingInvariant

LEMMA AskLosesKeeps ==
    ASSUME SharingInvariant, NEW u \in Callers, AskLoses(u)
    PROVE  SharingInvariant'
<1>1. SharingTypeOK'
  <2>1. mine[u] \in Locks
    BY DEF SharingInvariant, SharingTypeOK, CallShape, AskLoses
  <2>2. "lost" \in {"fresh", "stale", "lost"}
    BY <2>1 DEF SharingInvariant, SharingTypeOK
  <2>3. AskOver(u, FALSE, "lost")
    BY DEF AskLoses
  <2>4. SharingTypeOK /\ FALSE \in BOOLEAN
    BY DEF SharingInvariant
  <2>5. /\ conf' \in [Callers -> {"none", "starting", "waiting", "asking"}]
        /\ seen' \in [Callers -> BOOLEAN]
        /\ heard' \in [Callers -> {"nothing", "answer", "failure"}]
        /\ mutex' \in [Locks -> Callers \cup {None}]
        /\ lease' \in [Locks -> {"fresh", "stale", "lost"}]
        /\ failed' \in [Locks -> BOOLEAN]
    BY <2>1, <2>2, <2>3, <2>4, AskOverTypes
  <2>6. UNCHANGED leased
    BY <2>3 DEF AskOver
  <2> QED
    BY <2>1, <2>4, <2>5, <2>6
    DEF SharingInvariant, SharingTypeOK, Places, CallShape, AskLoses, FoundLost, Returns,
           Goes, Unlocked
<1>2. CallShape'
  BY DEF SharingInvariant, SharingTypeOK, CallShape, AskLoses, FoundLost, Returns, AskOver,
         WaitsFor, Goes, Kept, Alive, Unlocked
<1>3. MutexShape'
  BY DEF SharingInvariant, SharingTypeOK, CallShape, MutexShape, AskLoses, FoundLost, Returns,
         AskOver, WaitsFor, Goes, Kept, Alive, Unlocked
<1>4. OneLock'
  <2>1. /\ \A v \in Callers : mine'[v] # None => mine'[v] = mine[v] /\ pc'[v] = pc[v]
        /\ \A v \in Callers : pc'[v] \in {"rechecking", "trying"} => pc'[v] = pc[v] /\ v # u
        /\ UNCHANGED cache
    BY DEF SharingInvariant, SharingTypeOK, CallShape, AskLoses, FoundLost, Returns, Goes
  <2>2. \A v \in Callers : mine'[v] # None => lease'[mine'[v]] \in {lease[mine[v]], "lost"}
    BY <2>1 DEF SharingInvariant, SharingTypeOK, CallShape, AskLoses, AskOver, Kept, Alive
  <2>3. \A v \in Callers : v # u => mine'[v] = mine[v]
    BY DEF SharingInvariant, SharingTypeOK, AskLoses, FoundLost, Returns
  <2> QED
    BY <2>1, <2>2, <2>3 DEF SharingInvariant, SharingTypeOK, OneLock
<1>5. NothingHeardYet'
  BY DEF SharingInvariant, SharingTypeOK, CallShape, NothingHeardYet, AskLoses, FoundLost,
         Returns, AskOver, WaitsFor, Goes, Kept, Alive, Unlocked
<1>6. HoldersShare'
  BY DEF SharingInvariant, SharingTypeOK, CallShape, HoldersShare, OneLock, AskLoses, FoundLost,
         Returns, AskOver, WaitsFor, Goes, Kept, Alive, Unlocked
<1>7. NoSelfContention'
  BY DEF SharingInvariant, SharingTypeOK, CallShape, NoSelfContention, OneLock, AskLoses,
         FoundLost, Returns, AskOver, WaitsFor, Goes, Kept, Alive, Unlocked
<1>8. FailureIsShared'
  BY DEF SharingInvariant, SharingTypeOK, CallShape, FailureIsShared, SharesFailure,
         NothingHeardYet, AskLoses, FoundLost, Returns, AskOver, WaitsFor, Goes, Kept, Alive,
         Unlocked
<1> QED
  BY <1>1, <1>2, <1>3, <1>4, <1>5, <1>6, <1>7, <1>8 DEF SharingInvariant

LEMMA AskFailsKeeps ==
    ASSUME SharingInvariant, NEW u \in Callers, AskFails(u)
    PROVE  SharingInvariant'
<1>1. SharingTypeOK'
  <2>1. mine[u] \in Locks
    BY DEF SharingInvariant, SharingTypeOK, CallShape, AskFails
  <2>2. lease[mine[u]] \in {"fresh", "stale", "lost"}
    BY <2>1 DEF SharingInvariant, SharingTypeOK
  <2>3. AskOver(u, TRUE, lease[mine[u]])
    BY DEF AskFails
  <2>4. SharingTypeOK /\ TRUE \in BOOLEAN
    BY DEF SharingInvariant
  <2>5. /\ conf' \in [Callers -> {"none", "starting", "waiting", "asking"}]
        /\ seen' \in [Callers -> BOOLEAN]
        /\ heard' \in [Callers -> {"nothing", "answer", "failure"}]
        /\ mutex' \in [Locks -> Callers \cup {None}]
        /\ lease' \in [Locks -> {"fresh", "stale", "lost"}]
        /\ failed' \in [Locks -> BOOLEAN]
    BY <2>1, <2>2, <2>3, <2>4, AskOverTypes
  <2>6. UNCHANGED leased
    BY <2>3 DEF AskOver
  <2> QED
    BY <2>1, <2>4, <2>5, <2>6
    DEF SharingInvariant, SharingTypeOK, Places, CallShape, AskFails, Returns, Goes, Unlocked
<1>2. CallShape'
  BY DEF SharingInvariant, SharingTypeOK, CallShape, AskFails, Returns, AskOver, WaitsFor,
         Goes, Kept, Alive, Unlocked
<1>3. MutexShape'
  BY DEF SharingInvariant, SharingTypeOK, CallShape, MutexShape, AskFails, Returns, AskOver,
         WaitsFor, Goes, Kept, Alive, Unlocked
<1>4. OneLock'
  BY DEF SharingInvariant, SharingTypeOK, CallShape, OneLock, NoSelfContention, HoldersShare,
         AskFails, Returns, AskOver, WaitsFor, Goes, Kept, Alive, Unlocked
<1>5. NothingHeardYet'
  BY DEF SharingInvariant, SharingTypeOK, CallShape, NothingHeardYet, AskFails, Returns,
         AskOver, WaitsFor, Goes, Kept, Alive, Unlocked
<1>6. HoldersShare'
  BY DEF SharingInvariant, SharingTypeOK, CallShape, HoldersShare, OneLock, AskFails, Returns,
         AskOver, WaitsFor, Goes, Kept, Alive, Unlocked
<1>7. NoSelfContention'
  BY DEF SharingInvariant, SharingTypeOK, CallShape, NoSelfContention, OneLock, AskFails,
         Returns, AskOver, WaitsFor, Goes, Kept, Alive, Unlocked
<1>8. FailureIsShared'
  <2> SUFFICES ASSUME NEW v \in Callers, conf'[v] = "waiting"
               PROVE  SharesFailure(v)' <=> heard'[v] = "failure"
    BY DEF FailureIsShared
  <2>1. v # u /\ mine'[v] = mine[v] /\ conf[v] = "waiting" /\ mine[v] \in Locks
    BY DEF SharingInvariant, SharingTypeOK, CallShape, AskFails, Returns, AskOver
  <2>2. failed'[mine[v]] = [failed EXCEPT ![mine[u]] = TRUE][mine[v]]
    BY <2>1 DEF AskFails, AskOver, Kept, Alive
  <2>3. CASE mine[v] = mine[u]
    <3>1. failed'[mine[v]] = TRUE
      BY <2>1, <2>2, <2>3 DEF SharingInvariant, SharingTypeOK
    <3>2. seen'[v] = TRUE /\ heard'[v] = "failure"
      BY <2>1, <2>3 DEF AskFails, AskOver, WaitsFor
    <3> QED
      BY <2>1, <3>1, <3>2 DEF SharesFailure
  <2>4. CASE mine[v] # mine[u]
    <3>1. failed'[mine[v]] = failed[mine[v]]
      BY <2>1, <2>2, <2>4 DEF SharingInvariant, SharingTypeOK
    <3>2. seen'[v] = seen[v] /\ heard'[v] = heard[v]
      BY <2>1, <2>4 DEF SharingInvariant, SharingTypeOK, AskFails, AskOver, WaitsFor
    <3> QED
      BY <2>1, <3>1, <3>2 DEF SharingInvariant, FailureIsShared, SharesFailure
  <2> QED
    BY <2>3, <2>4
<1> QED
  BY <1>1, <1>2, <1>3, <1>4, <1>5, <1>6, <1>7, <1>8 DEF SharingInvariant

-----------------------------------------------------------------------------
(* The keep-alive and the server. *)

LEMMA LeaseKeeps ==
    ASSUME SharingInvariant, NEW l \in Locks,
           LeaseAges(l) \/ KeepConfirms(l) \/ KeepLoses(l) \/ LeaseLapses(l) \/ LeaseReleased(l)
    PROVE  SharingInvariant'
<1>1. SharingTypeOK'
  BY DEF SharingInvariant, SharingTypeOK, Places, CallShape, LeaseAges, KeepConfirms, KeepLoses,
         LeaseLapses, LeaseReleased, callVars, confVars, Alive
<1>2. CallShape'
  BY DEF SharingInvariant, SharingTypeOK, CallShape, LeaseAges, KeepConfirms, KeepLoses,
         LeaseLapses, LeaseReleased, callVars, confVars, Alive
<1>3. MutexShape'
  BY DEF SharingInvariant, SharingTypeOK, CallShape, MutexShape, LeaseAges, KeepConfirms,
         KeepLoses, LeaseLapses, LeaseReleased, callVars, confVars, Alive
<1>4. OneLock'
  BY DEF SharingInvariant, SharingTypeOK, CallShape, OneLock, NoSelfContention, HoldersShare,
         LeaseAges, KeepConfirms, KeepLoses, LeaseLapses, LeaseReleased, callVars, confVars,
         Alive
<1>5. NothingHeardYet'
  BY DEF SharingInvariant, SharingTypeOK, CallShape, NothingHeardYet, LeaseAges, KeepConfirms,
         KeepLoses, LeaseLapses, LeaseReleased, callVars, confVars, Alive
<1>6. HoldersShare'
  BY DEF SharingInvariant, SharingTypeOK, CallShape, HoldersShare, OneLock, LeaseAges,
         KeepConfirms, KeepLoses, LeaseLapses, LeaseReleased, callVars, confVars, Alive
<1>7. NoSelfContention'
  BY DEF SharingInvariant, SharingTypeOK, CallShape, NoSelfContention, OneLock, LeaseAges,
         KeepConfirms, KeepLoses, LeaseLapses, LeaseReleased, callVars, confVars, Alive
<1>8. FailureIsShared'
  BY DEF SharingInvariant, SharingTypeOK, CallShape, FailureIsShared, SharesFailure,
         NothingHeardYet, LeaseAges, KeepConfirms, KeepLoses, LeaseLapses, LeaseReleased,
         callVars, confVars, Alive
<1> QED
  BY <1>1, <1>2, <1>3, <1>4, <1>5, <1>6, <1>7, <1>8 DEF SharingInvariant

-----------------------------------------------------------------------------

LEMMA SettledKeeps ==
    ASSUME SharingInvariant, NEW u \in Callers, conf[u] \in {"starting", "waiting"}, Settled(u)
    PROVE  SharingInvariant'
  BY SettledConfirmedKeeps, SettledLostKeeps DEF Settled

LEMMA ConfirmStartsKeeps ==
    ASSUME SharingInvariant, NEW u \in Callers, ConfirmStarts(u)
    PROVE  SharingInvariant'
  BY SettledKeeps, WaitsKeeps DEF ConfirmStarts

LEMMA ConfirmLocksKeeps ==
    ASSUME SharingInvariant, NEW u \in Callers, ConfirmLocks(u)
    PROVE  SharingInvariant'
  BY SettledKeeps, SharedFailureKeeps, AsksKeeps DEF ConfirmLocks

LEMMA InitShares == SharingInit => SharingInvariant
<1> SUFFICES ASSUME SharingInit PROVE SharingInvariant
  OBVIOUS
<1>1. SharingTypeOK
  BY DEF SharingInit, SharingTypeOK, Places
<1>2. CallShape /\ MutexShape /\ OneLock /\ NothingHeardYet
  BY DEF SharingInit, CallShape, MutexShape, OneLock, NothingHeardYet
<1>3. HoldersShare /\ NoSelfContention /\ FailureIsShared
  BY DEF SharingInit, HoldersShare, NoSelfContention, FailureIsShared
<1> QED
  BY <1>1, <1>2, <1>3 DEF SharingInvariant

LEMMA NextShares == SharingInvariant /\ [SharingNext]_sharingVars => SharingInvariant'
<1> SUFFICES ASSUME SharingInvariant, [SharingNext]_sharingVars
             PROVE  SharingInvariant'
  OBVIOUS
<1>1. CASE UNCHANGED sharingVars
  <2>1. SharingTypeOK' /\ CallShape' /\ MutexShape' /\ OneLock' /\ NothingHeardYet'
    BY <1>1 DEF sharingVars, SharingInvariant, SharingTypeOK, CallShape, MutexShape, OneLock,
           NothingHeardYet
  <2>2. HoldersShare' /\ NoSelfContention' /\ FailureIsShared'
    BY <1>1 DEF sharingVars, SharingInvariant, HoldersShare, NoSelfContention, FailureIsShared,
                SharesFailure
  <2> QED
    BY <2>1, <2>2 DEF SharingInvariant
<1>2. ASSUME NEW u \in Callers, Caller(u)
      PROVE  SharingInvariant'
  BY <1>2, CallKeeps, ReadCacheKeeps, WriteCacheKeeps, AcquiredKeeps, AcquireFailsKeeps,
     DropHandleKeeps, CancelledKeeps, RetakeKeeps, ConfirmStartsKeeps, ConfirmLocksKeeps,
     AskConfirmsKeeps, AskLosesKeeps, AskFailsKeeps
  DEF Caller, Ask
<1>3. ASSUME NEW l \in Locks,
             LeaseAges(l) \/ KeepConfirms(l) \/ KeepLoses(l) \/ LeaseLapses(l) \/ LeaseReleased(l)
      PROVE  SharingInvariant'
  BY <1>3, LeaseKeeps
<1> QED
  BY <1>1, <1>2, <1>3 DEF SharingNext

(* For any number of callers, calls and locks: callers that hold a lock     *)
(* which is not lost hold the cached one, none acquires while somebody has  *)
(* one, and a confirm returns only the failure of the request it waited     *)
(* through (cached_or_acquired, confirm_via)                                *)
THEOREM ProcessSharesOneLock == SharingSpec => []SharingInvariant
  BY InitShares, NextShares, PTL DEF SharingSpec

LEMMA HandedOutStep ==
    ASSUME SharingInvariant, [SharingNext]_sharingVars, NEW u \in Callers,
           pc[u] # "holding", pc'[u] = "holding"
    PROVE  lease'[mine'[u]] = "fresh"
<1>1. CASE \E v \in Callers : AskConfirms(v)
  <2> PICK v \in Callers : AskConfirms(v)
    BY <1>1
  <2>1. v = u /\ mine' = mine /\ mine[u] \in Locks
    BY DEF SharingInvariant, SharingTypeOK, CallShape, AskConfirms, CallConfirmed, Goes
  <2> QED
    BY <2>1 DEF AskConfirms, AskOver, Kept, Alive, SharingInvariant, SharingTypeOK
<1>2. CASE \E v \in Callers : conf[v] \in {"starting", "waiting"} /\ Settled(v)
  <2> PICK v \in Callers : conf[v] \in {"starting", "waiting"} /\ Settled(v)
    BY <1>2
  <2>1. v = u /\ CallConfirmed(u) /\ mine[u] \in Locks
    BY DEF SharingInvariant, SharingTypeOK, CallShape, Settled, FoundLost, Returns,
           CallConfirmed, Goes
  <2>2. mine' = mine /\ lease[mine[u]] = "fresh" /\ Forgets
    BY <2>1 DEF SharingInvariant, SharingTypeOK, Settled, CallConfirmed, FoundLost, Returns,
           Goes
  <2> QED
    BY <2>1, <2>2 DEF Forgets, Kept, Alive, SharingInvariant, SharingTypeOK
<1>3. CASE ~(\E v \in Callers : AskConfirms(v))
           /\ ~(\E v \in Callers : conf[v] \in {"starting", "waiting"} /\ Settled(v))
  <2>1. UNCHANGED sharingVars => FALSE
    BY DEF sharingVars
  <2>2. ASSUME NEW v \in Callers, Caller(v)
        PROVE  FALSE
    <3> USE DEF SharingInvariant, SharingTypeOK, Goes
    <3>1. CASE TakeLock(v) \/ ReadCache(v) \/ WriteCache(v) \/ (\E l \in Locks : Acquired(v, l))
      BY <3>1 DEF TakeLock, ReadCache, WriteCache, Upgraded, Acquired
    <3>2. CASE AcquireFails(v) \/ DropHandle(v) \/ Cancelled(v) \/ Retake(v)
      BY <3>2 DEF AcquireFails, DropHandle, Cancelled, Retake, Returns
    <3>3. CASE ConfirmStarts(v)
      BY <1>3, <3>3 DEF ConfirmStarts, callVars
    <3>4. CASE ConfirmLocks(v)
      BY <1>3, <3>4 DEF ConfirmLocks, Returns, callVars
    <3>5. CASE AskLoses(v)
      BY <3>5 DEF AskLoses, FoundLost, Returns
    <3>6. CASE AskFails(v)
      BY <3>6 DEF AskFails, Returns
    <3> QED
      BY <1>3, <2>2, <3>1, <3>2, <3>3, <3>4, <3>5, <3>6 DEF Caller, Ask
  <2>3. ASSUME NEW l \in Locks,
               LeaseAges(l) \/ KeepConfirms(l) \/ KeepLoses(l) \/ LeaseLapses(l)
                 \/ LeaseReleased(l)
        PROVE  FALSE
    BY <2>3 DEF LeaseAges, KeepConfirms, KeepLoses, LeaseLapses, LeaseReleased, callVars
  <2> QED
    BY <2>1, <2>2, <2>3 DEF SharingNext
<1> QED
  BY <1>1, <1>2, <1>3

(* A call ends with a lock only at a moment when that lock's lease is       *)
(* confirmed, whatever other calls and the keep-alive learnt meanwhile      *)
(* (settled, ask)                                                           *)
THEOREM HandsOutConfirmedLocks == SharingSpec => HandedOutConfirmed
<1>1. SharingInvariant /\ [SharingNext]_sharingVars =>
        [\A u \in Callers : pc[u] # "holding" /\ pc'[u] = "holding" =>
           lease'[mine'[u]] = "fresh"]_sharingVars
  BY HandedOutStep
<1> QED
  BY <1>1, ProcessSharesOneLock, PTL DEF SharingSpec, HandedOutConfirmed
=============================================================================
