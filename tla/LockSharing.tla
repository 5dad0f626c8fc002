----------------------------- MODULE LockSharing -----------------------------
(***************************************************************************)
(* How the callers of one process share a lock: the cache of lock_drive,   *)
(* lock_notes and lock_chats (cached_or_acquired in                        *)
(* filen-sdk-rs/src/sync/mod.rs: a Weak handle behind an RwLock), and the  *)
(* one request their confirm calls share (ResourceLock::confirm_via in     *)
(* sync/lock/mod.rs: a mutex, a count of requests, the last failure).      *)
(*                                                                         *)
(* A lock's lease is fresh while is_valid, stale while unconfirmed, and    *)
(* lost for good; LockLease has its clocks and requests.  A lock lives as  *)
(* long as a caller has a handle of it; its name is used anew after that.  *)
(* A call compares the count of requests only for equality with the one it *)
(* read, so `seen' records the outcome of that comparison.                 *)
(***************************************************************************)
EXTENDS Naturals

CONSTANTS
    Callers,              \* tasks of the process that take the lock
    Retaking,             \* those that take it anew when they lose it
    Locks,                \* names of the locks acquired
    None,
    ACQUISITIONS_PER_CALL

ASSUME CallersAssumption == Retaking \subseteq Callers /\ None \notin Callers \cup Locks
ASSUME AcquisitionsAssumption == ACQUISITIONS_PER_CALL \in Nat \ {0}

VARIABLES
    pc,        \* pc[u]: where a caller is in cached_or_acquired
    mine,      \* mine[u]: the handle it works with or was given
    old,       \* old[u]: a lost lock it keeps while it takes a new one
    tries,     \* tries[u]: its acquisitions
    conf,      \* conf[u]: where it is in confirm
    seen,      \* seen[u]: the count of requests changed since its confirm began
    cache,     \* the lock the cache's Weak points to
    writer,    \* the caller that holds the cache's write lock
    lease,     \* lease[l]
    mutex,     \* mutex[l]: the caller that holds `confirming'
    heard,     \* heard[u]: history, how the last request it waited through ended
    failed,    \* failed[l]: `confirming' holds the last request's failure
    leased     \* the locks the server has a lease of

sharingVars == <<pc, mine, old, tries, conf, seen, heard, cache, writer, lease, mutex, failed, leased>>

callVars == <<pc, mine, old, tries, cache, writer>>
confVars == <<conf, seen, heard, mutex, failed>>

Alive(l) == \E u \in Callers : mine[u] = l \/ old[u] = l

(* A lock whose last handle is gone leaves nothing behind in the process *)
Kept(f, gone) == [l \in Locks |-> IF Alive(l)' THEN f[l] ELSE gone]

(* The name a lock acquired next gets: one that nothing mentions.  Names    *)
(* are interchangeable, so which of those it is makes no difference.        *)
Unused == {l \in Locks : ~Alive(l) /\ l \notin leased /\ cache # l}

Named(l) == Unused # {} /\ l = CHOOSE x \in Unused : TRUE

SharingInit ==
    /\ pc = [u \in Callers |-> "idle"]
    /\ mine = [u \in Callers |-> None] /\ old = [u \in Callers |-> None]
    /\ tries = [u \in Callers |-> 0]
    /\ conf = [u \in Callers |-> "none"] /\ seen = [u \in Callers |-> FALSE]
    /\ heard = [u \in Callers |-> "nothing"]
    /\ cache = None /\ writer = None
    /\ lease = [l \in Locks |-> "lost"]
    /\ mutex = [l \in Locks |-> None] /\ failed = [l \in Locks |-> FALSE]
    /\ leased = {}

-----------------------------------------------------------------------------
(* cached_or_acquired. *)

Unlocked(u) == IF writer = u THEN None ELSE writer

Goes(u, place) == pc' = [pc EXCEPT ![u] = place]

(* The call returns: with an error, or with its lock *)
Returns(u) ==
    /\ Goes(u, "idle")
    /\ mine' = [mine EXCEPT ![u] = None] /\ old' = [old EXCEPT ![u] = None]
    /\ tries' = [tries EXCEPT ![u] = 0]
    /\ writer' = Unlocked(u)
    /\ UNCHANGED cache

Forgets == lease' = Kept(lease, "lost") /\ failed' = Kept(failed, FALSE)

TakeLock(u) ==
    /\ pc[u] = "idle"
    /\ Goes(u, "reading")
    /\ UNCHANGED <<mine, old, tries, cache, writer, confVars, lease, leased>>

(* The cached lock, if it lives, is upgraded and confirmed *)
Upgraded(u, found, otherwise) ==
    IF cache # None /\ Alive(cache)
    THEN /\ Goes(u, found)
         /\ mine' = [mine EXCEPT ![u] = cache]
         /\ conf' = [conf EXCEPT ![u] = "starting"]
    ELSE Goes(u, otherwise) /\ UNCHANGED <<mine, conf>>

ReadCache(u) ==
    /\ pc[u] = "reading" /\ writer = None
    /\ Upgraded(u, "checking", "queued")
    /\ UNCHANGED <<old, tries, cache, writer, seen, heard, mutex, failed, lease, leased>>

(* Faulty variant: the cache is not looked at again under the write lock *)
WriteCacheUnchecked(u) ==
    /\ pc[u] = "queued" /\ writer = None
    /\ writer' = u
    /\ Goes(u, "acquiring")
    /\ UNCHANGED <<old, mine, tries, cache, confVars, lease, leased>>

WriteCache(u) ==
    /\ pc[u] = "queued" /\ writer = None
    /\ writer' = u
    /\ Upgraded(u, "rechecking", "acquiring")
    /\ UNCHANGED <<old, tries, cache, seen, heard, mutex, failed, lease, leased>>

(* acquire() returns a lock, whose lease may be unconfirmed by now; or fails *)
Acquired(u, l) ==
    /\ pc[u] = "acquiring" /\ leased = {} /\ Named(l)
    /\ Goes(u, "trying")
    /\ mine' = [mine EXCEPT ![u] = l]
    /\ tries' = [tries EXCEPT ![u] = @ + 1]
    /\ conf' = [conf EXCEPT ![u] = "starting"]
    /\ \E age \in {"fresh", "stale"} : lease' = [lease EXCEPT ![l] = age]
    /\ failed' = [failed EXCEPT ![l] = FALSE]
    /\ leased' = {l}
    /\ UNCHANGED <<old, cache, writer, seen, heard, mutex>>

AcquireFails(u) ==
    /\ pc[u] = "acquiring"
    /\ Returns(u) /\ Forgets
    /\ UNCHANGED <<conf, seen, heard, mutex, leased>>

(* What a call does with the result of its confirm *)
CallConfirmed(u) ==
    /\ Goes(u, "holding")
    /\ cache' = IF pc[u] = "trying" THEN mine[u] ELSE cache
    /\ tries' = [tries EXCEPT ![u] = 0]
    /\ writer' = Unlocked(u)
    /\ UNCHANGED <<mine, old>>

(* Faulty variant: no limit to the acquisitions *)
FoundLostEndlessly(u) ==
    /\ Goes(u, IF pc[u] = "checking" THEN "queued" ELSE "acquiring")
    /\ mine' = [mine EXCEPT ![u] = None]
    /\ tries' = [tries EXCEPT ![u] = 0]
    /\ UNCHANGED <<old, cache, writer>>

FoundLost(u) ==
    IF pc[u] = "trying" /\ tries[u] >= ACQUISITIONS_PER_CALL
    THEN Returns(u)
    ELSE /\ Goes(u, IF pc[u] = "checking" THEN "queued" ELSE "acquiring")
         /\ mine' = [mine EXCEPT ![u] = None]
         /\ UNCHANGED <<old, tries, cache, writer>>

ConfirmOver(u) ==
    /\ conf' = [conf EXCEPT ![u] = "none"] /\ seen' = [seen EXCEPT ![u] = FALSE]
    /\ heard' = [heard EXCEPT ![u] = "nothing"]

(* The caller is done with its lock, or its call is cancelled.  A lock     *)
(* request cut off that way may be granted; its task releases the grant.   *)
DropHandle(u) ==
    /\ pc[u] = "holding"
    /\ Returns(u) /\ Forgets
    /\ UNCHANGED <<conf, seen, heard, mutex, leased>>

Cancelled(u) ==
    /\ pc[u] \notin {"idle", "holding"}
    /\ Returns(u) /\ Forgets /\ ConfirmOver(u)
    /\ mutex' = [l \in Locks |-> IF mutex[l] = u THEN None ELSE mutex[l]]
    /\ \/ UNCHANGED leased
       \/ \E l \in Locks : /\ pc[u] = "acquiring" /\ leased = {} /\ Named(l)
                           /\ leased' = {l}

(* confirm_or_retake: a holder that finds its lock lost takes a new one *)
Retake(u) ==
    /\ u \in Retaking
    /\ pc[u] = "holding" /\ lease[mine[u]] = "lost" /\ old[u] = None
    /\ Goes(u, "reading")
    /\ mine' = [mine EXCEPT ![u] = None] /\ old' = [old EXCEPT ![u] = mine[u]]
    /\ UNCHANGED <<tries, cache, writer, confVars, lease, leased>>

-----------------------------------------------------------------------------
(* ResourceLock::confirm_via. *)

(* Faulty variant: an unconfirmed lease passes *)
SettledUnconfirmed(u) ==
    /\ \/ lease[mine[u]] # "lost" /\ CallConfirmed(u)
       \/ lease[mine[u]] = "lost" /\ FoundLost(u)
    /\ ConfirmOver(u) /\ Forgets
    /\ UNCHANGED <<mutex, leased>>

(* Answered at once: the lease is confirmed, or lost (settled) *)
Settled(u) ==
    /\ \/ lease[mine[u]] = "fresh" /\ CallConfirmed(u)
       \/ lease[mine[u]] = "lost" /\ FoundLost(u)
    /\ ConfirmOver(u) /\ Forgets
    /\ UNCHANGED <<mutex, leased>>

ConfirmStarts(u) ==
    /\ conf[u] = "starting"
    /\ \/ Settled(u)
       \/ /\ lease[mine[u]] = "stale"
          /\ conf' = [conf EXCEPT ![u] = "waiting"]
          /\ UNCHANGED <<callVars, seen, heard, mutex, failed, lease, leased>>

(* Faulty variant: any failure left behind is the call's own *)
SharesAnyFailure(u) == failed[mine[u]]

(* The mutex is its: answered by now, by the request it waited for, or its  *)
(* own request to make                                                     *)
SharesFailure(u) == seen[u] /\ failed[mine[u]]

ConfirmLocks(u) ==
    /\ conf[u] = "waiting" /\ mutex[mine[u]] = None
    /\ \/ Settled(u)
       \/ /\ lease[mine[u]] = "stale" /\ SharesFailure(u)
          /\ Returns(u) /\ ConfirmOver(u) /\ Forgets
          /\ UNCHANGED <<mutex, leased>>
       \/ /\ lease[mine[u]] = "stale" /\ ~SharesFailure(u)
          /\ conf' = [conf EXCEPT ![u] = "asking"]
          /\ mutex' = [mutex EXCEPT ![mine[u]] = u]
          /\ UNCHANGED <<callVars, seen, heard, failed, lease, leased>>

WaitsFor(v, u) == conf[v] = "waiting" /\ mine[v] = mine[u]

(* ask returned: counted for those that wait, its failure kept for them *)
AskOver(u, failure, outcome) ==
    /\ conf' = [conf EXCEPT ![u] = "none"]
    /\ seen' = [v \in Callers |-> IF v = u THEN FALSE
                                  ELSE seen[v] \/ WaitsFor(v, u)]
    /\ heard' = [v \in Callers |-> IF v = u THEN "nothing"
                                   ELSE IF ~WaitsFor(v, u) THEN heard[v]
                                   ELSE IF failure THEN "failure" ELSE "answer"]
    /\ mutex' = [mutex EXCEPT ![mine[u]] = None]
    /\ failed' = Kept([failed EXCEPT ![mine[u]] = failure], FALSE)
    /\ lease' = Kept([lease EXCEPT ![mine[u]] = outcome], "lost")
    /\ UNCHANGED leased

AskConfirms(u) ==
    /\ conf[u] = "asking" /\ lease[mine[u]] # "lost" /\ mine[u] \in leased
    /\ CallConfirmed(u) /\ AskOver(u, FALSE, "fresh")

AskLoses(u) ==
    /\ conf[u] = "asking"
    /\ FoundLost(u) /\ AskOver(u, FALSE, "lost")

AskFails(u) ==
    /\ conf[u] = "asking" /\ lease[mine[u]] # "lost"
    /\ Returns(u) /\ AskOver(u, TRUE, lease[mine[u]])

Ask(u) == AskConfirms(u) \/ AskLoses(u) \/ AskFails(u)

-----------------------------------------------------------------------------
(* The keep-alive and the server. *)

LeaseAges(l) ==
    /\ Alive(l) /\ lease[l] = "fresh"
    /\ lease' = [lease EXCEPT ![l] = "stale"]
    /\ UNCHANGED <<callVars, confVars, leased>>

KeepConfirms(l) ==
    /\ Alive(l) /\ lease[l] = "stale" /\ l \in leased
    /\ lease' = [lease EXCEPT ![l] = "fresh"]
    /\ UNCHANGED <<callVars, confVars, leased>>

KeepLoses(l) ==
    /\ Alive(l) /\ lease[l] = "stale"
    /\ lease' = [lease EXCEPT ![l] = "lost"]
    /\ UNCHANGED <<callVars, confVars, leased>>

(* The lease lapses unconfirmed, or its release arrives *)
LeaseLapses(l) ==
    /\ l \in leased /\ Alive(l) /\ lease[l] = "stale"
    /\ leased' = leased \ {l}
    /\ UNCHANGED <<callVars, confVars, lease>>

LeaseReleased(l) ==
    /\ l \in leased /\ (~Alive(l) \/ lease[l] = "lost")
    /\ leased' = leased \ {l}
    /\ UNCHANGED <<callVars, confVars, lease>>

-----------------------------------------------------------------------------
Caller(u) ==
    \/ TakeLock(u) \/ ReadCache(u) \/ WriteCache(u) \/ (\E l \in Locks : Acquired(u, l))
    \/ AcquireFails(u) \/ DropHandle(u) \/ Cancelled(u) \/ Retake(u)
    \/ ConfirmStarts(u) \/ ConfirmLocks(u) \/ Ask(u)

SharingNext ==
    \/ \E u \in Callers : Caller(u)
    \/ \E l \in Locks : \/ LeaseAges(l) \/ KeepConfirms(l) \/ KeepLoses(l)
                        \/ LeaseLapses(l) \/ LeaseReleased(l)

(* A call that can go on does.  tokio's RwLock and Mutex serve their       *)
(* waiters in order, hence the strong fairness; ask and acquire end (see   *)
(* LockLease and LockRequests), and releases arrive or leases lapse.       *)
(* Nothing makes a holder let go of its lock.                              *)
SharingFairness ==
    /\ \A u \in Callers :
         /\ SF_sharingVars(ReadCache(u)) /\ SF_sharingVars(WriteCache(u)) /\ SF_sharingVars(ConfirmLocks(u))
         /\ WF_sharingVars(ConfirmStarts(u)) /\ WF_sharingVars(Ask(u))
         /\ WF_sharingVars(\E l \in Locks : Acquired(u, l))
    /\ \A l \in Locks : WF_sharingVars(LeaseReleased(l))

SharingSpec == SharingInit /\ [][SharingNext]_sharingVars /\ SharingFairness

-----------------------------------------------------------------------------
(* Properties. *)

Places == {"idle", "reading", "checking", "queued", "rechecking", "acquiring", "trying", "holding"}

SharingTypeOK ==
    /\ pc \in [Callers -> Places]
    /\ mine \in [Callers -> Locks \cup {None}] /\ old \in [Callers -> Locks \cup {None}]
    /\ tries \in [Callers -> 0..ACQUISITIONS_PER_CALL]
    /\ conf \in [Callers -> {"none", "starting", "waiting", "asking"}]
    /\ seen \in [Callers -> BOOLEAN] /\ heard \in [Callers -> {"nothing", "answer", "failure"}]
    /\ cache \in Locks \cup {None} /\ writer \in Callers \cup {None}
    /\ lease \in [Locks -> {"fresh", "stale", "lost"}]
    /\ mutex \in [Locks -> Callers \cup {None}] /\ failed \in [Locks -> BOOLEAN]
    /\ leased \subseteq Locks

(* All callers that hold a lock not lost hold the one in the cache, so a   *)
(* process never competes with itself for a lock (cached_or_acquired)      *)
HoldersShare ==
    \A u \in Callers : pc[u] = "holding" /\ lease[mine[u]] # "lost" => cache = mine[u]

(* No lock is acquired while a caller has a handle of one that is not      *)
(* lost: the acquisition would wait for the process's own lease            *)
NoSelfContention ==
    \A u, v \in Callers :
      pc[u] = "acquiring" /\ mine[v] # None => lease[mine[v]] = "lost"

(* A confirm that waited returns the failure of the last request it waited *)
(* through, and of no other: not one from before it began, nor one that a  *)
(* later request made up for (confirmations, last_failure)                 *)
FailureIsShared ==
    \A u \in Callers : conf[u] = "waiting" => (SharesFailure(u) <=> heard[u] = "failure")

(* A caller is handed a lock confirmed at that moment, never one another   *)
(* call found lost meanwhile                                               *)
HandedOutConfirmed ==
    [][\A u \in Callers : pc[u] # "holding" /\ pc'[u] = "holding" =>
         lease'[mine'[u]] = "fresh"]_sharingVars

(* Every call for the lock ends, with a lock or an error, whatever the     *)
(* holders of the lock do                                                  *)
CallEnds == \A u \in Callers : pc[u] # "idle" ~> pc[u] \in {"idle", "holding"}

(* Where a call is says what it has: a handle, a confirm, the write lock   *)
(* of the cache, and acquisitions left to make (cached_or_acquired)        *)
CallShape ==
    \A u \in Callers :
      /\ mine[u] # None <=> pc[u] \in {"checking", "rechecking", "trying", "holding"}
      /\ conf[u] # "none" <=> pc[u] \in {"checking", "rechecking", "trying"}
      /\ writer = u <=> pc[u] \in {"rechecking", "acquiring", "trying"}
      /\ tries[u] # 0 => pc[u] \in {"acquiring", "trying"}
      /\ pc[u] = "acquiring" => tries[u] < ACQUISITIONS_PER_CALL
      /\ old[u] # None => lease[old[u]] = "lost"

(* `confirming' is held by the one call that asks, if any (confirm_via)    *)
MutexShape ==
    \A u \in Callers, l \in Locks : mutex[l] = u <=> conf[u] = "asking" /\ mine[u] = l

(* A handle that is not lost is of the cached lock, or of the one lock that *)
(* its acquirer is still confirming; that one nobody else has (the cache is *)
(* only written under its write lock)                                      *)
OneLock ==
    \A u \in Callers :
      /\ mine[u] # None /\ lease[mine[u]] # "lost" => mine[u] = cache \/ pc[u] = "trying"
      /\ pc[u] = "rechecking" => mine[u] = cache
      /\ pc[u] = "trying" =>
           \A v \in Callers \ {u} : mine[v] # None => lease[mine[v]] = "lost" /\ mine[v] # mine[u]

(* A confirm that has not come to its mutex yet has waited for no request  *)
NothingHeardYet ==
    \A u \in Callers : conf[u] \in {"none", "starting"} => ~seen[u] /\ heard[u] = "nothing"

(* One lock to a process: its callers share it, none asks the server for   *)
(* another while somebody holds it, and none is given a stale failure.     *)
(* With the four before it this is inductive.                              *)
SharingInvariant ==
    /\ SharingTypeOK /\ CallShape /\ MutexShape /\ OneLock /\ NothingHeardYet
    /\ HoldersShare /\ NoSelfContention /\ FailureIsShared
=============================================================================
