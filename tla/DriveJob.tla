------------------------------ MODULE DriveJob ------------------------------
(* A copy job on the drive: job/mod.rs, job/report.rs, fs/drive_job and     *)
(* fs/copy/engine.  A driver creates the planned directories, then runs a   *)
(* task per file that transfers its chunks and registers it; everything     *)
(* that writes takes the drive lock, every chunk a piece of the client's    *)
(* memory budget.  A controller pauses, resumes and cancels; other clients  *)
(* hold the lock, take names and share the destination.  Between two steps  *)
(* lies an await, or a point where another thread may run.                  *)
EXTENDS Naturals, FiniteSets

CONSTANTS
    Dirs, Files,      \* the planned items
    Dest,             \* the existing directory the copy goes to
    Driver,           \* the driver, as a holder of the drive lock
    Parent,           \* of each item: Dest or a planned directory
    PlannedName,      \* of each top-level item: its place among the keep-both names
    Chunks,           \* of each file: how many chunks hold data
    Colored,          \* the directories whose color is set
    UNVERIFIED,       \* the listing of Dest hid names: names are checked beforehand too
    MEMORY,           \* chunks the memory budget has room for
    CHUNKS_PER_FILE,
    PARALLEL,         \* MAX_SMALL_PARALLEL_REQUESTS
    NAME_ATTEMPTS,    \* TOP_LEVEL_NAME_ATTEMPTS
    MAX_NAME,         \* bound: names are 1 .. MAX_NAME
    Wanted,           \* bound: the names another client may take
    MAX_VERBS,        \* bound: what the controller does
    MAX_FAULTS        \* bound: requests that fail

Items   == Dirs \cup Files
Holders == Items \cup {Driver}
Names   == 1 .. MAX_NAME
TopLevel == {i \in Items : Parent[i] = Dest}

ASSUME PlanAssumption ==
    /\ Dest \notin Items /\ Driver \notin Items /\ Dirs \cap Files = {} /\ IsFiniteSet(Items)
    /\ Parent \in [Items -> Dirs \cup {Dest}] /\ PlannedName \in [Items -> Names]
    /\ Chunks \in [Files -> Nat] /\ Colored \subseteq Dirs
    /\ UNVERIFIED \in BOOLEAN /\ Wanted \subseteq Names
    /\ MAX_NAME \in Nat /\ NAME_ATTEMPTS \in Nat \ {0}
    /\ \A i \in TopLevel : PlannedName[i] + NAME_ATTEMPTS - 1 <= MAX_NAME
    /\ {MEMORY, CHUNKS_PER_FILE, PARALLEL} \subseteq Nat \ {0}
    /\ MAX_VERBS \in Nat /\ MAX_FAULTS \in Nat

VARIABLES
    ctl,      \* JobControl: pause and cancel as last sent, gone (the controller), stop
    core,     \* RunCore: pause_requested, paused, winding_down
    phase,    \* CopyPhase
    pc,       \* where the driver is
    fatal,    \* the error that ended the job is recorded
    at,       \* where each item is
    held,     \* each holder's drive lock, from the wait for it to its drop
    stale,    \* the holders whose lease is lost
    chunk,    \* of each file: the stage of its chunks
    name,     \* of each item: the name it goes for, and how many were taken
    told,     \* of each item: reported done or failed
    targets,  \* the destination was shared when the job looked first
    current,  \* ... and when it looked last
    left,     \* what the last look still has to propagate
    unshared, \* the items whose propagation was reported failed
    made,     \* on the server: each item, as a new file or directory or as a version
    entry,    \* on the server: who has the names of Dest
    shared,   \* on the server: the destination is shared
    inShare,  \* on the server: the items in the share
    foreign,  \* another client's turn with the lock: not yet, now, over
    verbs, faults

control == <<ctl, verbs>>
server  == <<made, entry, shared, inShare, foreign>>
report  == <<told, unshared, fatal>>
recheck == <<targets, current, left>>
vars == <<control, core, phase, pc, at, held, stale, chunk, name, report, recheck, server, faults>>

-----------------------------------------------------------------------------
(* Control and its report. *)

IsPauseRequested == ctl.pause /\ ~ctl.gone
IsStopping == ctl.cancel \/ ctl.stop
Ended == phase \in {"done", "cancelled", "failed"}

RunState(c) ==
    CASE c.winding = "cancel" -> "cancelling"
      [] c.winding # "cancel" /\ c.paused -> "paused"
      [] c.winding = "no" /\ ~c.paused /\ c.asked -> "pausing"
      [] OTHER -> "running"

HasLock(h)   == held[h] \in {"got", "good"}
HasMemory(s) == s \in {"got", "fetch", "upload"}
OpOut(s)     == s \in {"todo", "done"}

AllChunks == UNION {{f} \X (1 .. Chunks[f]) : f \in Files}

\* Mutant for JobInvariant: an operation counts only once it has the lock
OpsInFlight_locked(hs, cs) ==
    Cardinality({h \in Holders : hs[h] \in {"good", "leaving"}})
    + Cardinality({x \in AllChunks : ~OpOut(cs[x[1]][x[2]])})

(* ops_in_flight, and update_paused, which every change of the state ends with *)
OpsInFlight(hs, cs) ==
    Cardinality({h \in Holders : hs[h] # "none"})
    + Cardinality({x \in AllChunks : ~OpOut(cs[x[1]][x[2]])})

UpdatePaused(c, hs, cs) ==
    [c EXCEPT !.paused = c.asked /\ c.winding = "no" /\ OpsInFlight(hs, cs) = 0]

Tick == core' = UpdatePaused(core, held', chunk')

SetPauseRequested(c, requested) == [c EXCEPT !.asked = requested]
WindDown(c) ==
    [c EXCEPT !.winding = CASE ctl.cancel -> "cancel"
                            [] ~ctl.cancel /\ c.winding = "no" -> "error"
                            [] OTHER -> c.winding]

Pause == ~ctl.pause /\ ctl' = [ctl EXCEPT !.pause = TRUE]
Resume == ctl.pause /\ ctl' = [ctl EXCEPT !.pause = FALSE]
Cancel == ~ctl.cancel /\ ctl' = [ctl EXCEPT !.cancel = TRUE]
DropController == ctl' = [ctl EXCEPT !.gone = TRUE]
Controls ==
    /\ ~Ended /\ ~ctl.gone /\ verbs < MAX_VERBS /\ verbs' = verbs + 1
    /\ Pause \/ Resume \/ Cancel \/ DropController
    /\ UNCHANGED <<core, phase, pc, at, held, stale, chunk, name, report, recheck, server, faults>>

-----------------------------------------------------------------------------
(* The other clients and the server. *)

Fault == faults < MAX_FAULTS /\ faults' = faults + 1

(* Nobody else has the lock while a lease of this client stands.  A lease  *)
(* is lost at any time, but not between its confirmation and the write     *)
(* that follows: what a confirmation is worth is the subject of LockLease. *)
Covered == \E h \in Holders \ stale : HasLock(h)
LeaseLost ==
    /\ foreign = "not yet" /\ Covered
    /\ stale' = {h \in Holders : HasLock(h)}
    /\ foreign' = "now"
    /\ UNCHANGED <<control, core, phase, pc, at, held, chunk, name, report, recheck,
                   made, entry, shared, inShare, faults>>

ForeignTakes ==
    /\ foreign = "not yet" /\ ~Covered
    /\ foreign' = "now"
    /\ UNCHANGED <<control, core, phase, pc, at, held, stale, chunk, name, report, recheck,
                   made, entry, shared, inShare, faults>>

(* A client that writes under the lock: it may take names before it leaves *)
ForeignLeaves ==
    /\ foreign = "now" /\ foreign' = "over"
    /\ \/ \E n \in Wanted : entry[n] = "free" /\ entry' = [entry EXCEPT ![n] = "foreign"]
       \/ UNCHANGED entry
    /\ UNCHANGED <<control, core, phase, pc, at, held, stale, chunk, name, report, recheck,
                   made, shared, inShare, faults>>

(* Somebody shares the destination, with what is in it *)
UserShares ==
    /\ ~Ended /\ ~shared /\ shared' = TRUE
    /\ inShare' = {i \in Items : made[i] # "no"}
    /\ UNCHANGED <<control, core, phase, pc, at, held, stale, chunk, name, report, recheck,
                   made, entry, foreign, faults>>

-----------------------------------------------------------------------------
(* The drive lock as an operation of the job: HeldLock, wait_for_lock.     *)
(* held goes none, waiting, got (not yet asked about a pause), good,       *)
(* leaving (the lock is dropped, the operation not), none.                 *)

StartWait(h) == held' = [held EXCEPT ![h] = "waiting"]
Leave(h)     == held' = [held EXCEPT ![h] = "leaving"] /\ stale' = stale \ {h}
Granted(h)   == /\ held[h] = "waiting" /\ ~IsStopping /\ ~IsPauseRequested /\ foreign # "now"
                /\ held' = [held EXCEPT ![h] = "got"]
Keeps(h)     == held[h] = "got" /\ ~IsPauseRequested /\ held' = [held EXCEPT ![h] = "good"]

\* Mutant for JobEnds: a wait for the lock is not given up for a stop
StopEndsWait_paused(h) == held[h] = "waiting" /\ IsStopping /\ IsPauseRequested /\ Leave(h)

StopEndsWait(h) == held[h] = "waiting" /\ IsStopping /\ Leave(h)


PauseEndsWait(h) == /\ \/ held[h] = "waiting" /\ ~IsStopping
                       \/ held[h] = "got"
                    /\ IsPauseRequested /\ Leave(h)

LockFails(h) == held[h] = "waiting" /\ ~IsStopping /\ ~IsPauseRequested /\ Fault /\ Leave(h)

(* confirm: not if the lease is lost, nor if the server answers with an error *)
Confirmed(h)   == held[h] = "good" /\ h \notin stale /\ UNCHANGED faults
Unconfirmed(h) == /\ held[h] = "good"
                  /\ \/ h \in stale /\ UNCHANGED faults
                     \/ h \notin stale /\ Fault
                  /\ Leave(h)

OpFinished(h) ==
    /\ held[h] = "leaving" /\ held' = [held EXCEPT ![h] = "none"]
    /\ UNCHANGED chunk /\ Tick
    /\ UNCHANGED <<control, phase, pc, at, stale, name, report, recheck, server, faults>>

-----------------------------------------------------------------------------
(* An item under the lock: create_dir, finalize_new_file, register,        *)
(* confirmed_after_write, propagate_after_write.                           *)

LockStages == {"check", "write", "color", "propagate"}
Written(i) == at[i] \in {"color", "propagate"}

(* Where an item starts under the lock: names in a directory the job made  *)
(* are its own, and a directory whose name is taken is told so             *)
UnderLock(i) == IF i \in TopLevel /\ (i \in Files \/ UNVERIFIED) THEN "check" ELSE "write"

Goes(i, to) == at' = [at EXCEPT ![i] = to]

(* The outcome of an item that fails: one error or one that ends the job *)
Fails(i) == \E out \in {"failed", "fatal"} : Goes(i, out)

(* The lock is dropped, if it is held *)
Drops(i) == IF HasLock(i) THEN Leave(i) ELSE UNCHANGED <<held, stale>>

(* What follows the write: the color, the share, or the end *)
AfterColor(i) == IF targets THEN "propagate" ELSE "over"
AfterWrite(i) == IF i \in Colored THEN "color" ELSE AfterColor(i)

\* Mutant for CreatedIsReported: a written item is given up like any other
GivesUp_written(i, out) == Goes(i, out) /\ UNCHANGED unshared

(* A stop or an error keeps the lock from being had: an item not written   *)
(* is given up; one that was is reported, with what was not done for it    *)
GivesUp(i, out) ==
    IF Written(i) THEN /\ Goes(i, "over")
                       /\ unshared' = IF targets THEN unshared \cup {i} ELSE unshared
                  ELSE Goes(i, out) /\ UNCHANGED unshared

(* lock_after_pauses: files, and directories that exist, wait out a pause; *)
(* a directory not yet created goes back to the driver                     *)
ItemWaits(i) ==
    /\ at[i] \in LockStages /\ held[i] = "none"
    /\ IF i \in Dirs /\ ~Written(i) THEN TRUE ELSE ~IsStopping /\ ~IsPauseRequested
    /\ StartWait(i) /\ UNCHANGED chunk /\ Tick
    /\ UNCHANGED <<control, phase, pc, at, stale, name, report, recheck, server, faults>>

ItemStopped(i) ==
    /\ at[i] \in LockStages
    /\ \/ /\ held[i] = "none" /\ IsStopping /\ (i \in Files \/ Written(i))
          /\ UNCHANGED <<held, stale>>
       \/ StopEndsWait(i)
    /\ GivesUp(i, IF i \in Dirs THEN "back" ELSE "stopped")
    /\ UNCHANGED <<control, core, phase, pc, chunk, name, told, fatal, recheck, server, faults>>

ItemPaused(i) ==
    /\ PauseEndsWait(i)
    /\ IF i \in Dirs /\ ~Written(i) THEN Goes(i, "back") ELSE UNCHANGED at
    /\ UNCHANGED <<control, core, phase, pc, chunk, name, report, recheck, server, faults>>

ItemLocked(i) ==
    /\ Granted(i) \/ Keeps(i)
    /\ UNCHANGED <<control, core, phase, pc, at, stale, chunk, name, report, recheck, server, faults>>

ItemLockFails(i) ==
    /\ LockFails(i)
    /\ \E out \in {"failed", "fatal"} : GivesUp(i, out)
    /\ UNCHANGED <<control, core, phase, pc, chunk, name, told, fatal, recheck, server>>

(* NameRetry::next, after a name that was taken *)
NextName(i, then) ==
    LET n == name[i] IN
    IF n.tries + 1 >= NAME_ATTEMPTS
    THEN Drops(i) /\ Goes(i, "failed") /\ UNCHANGED name
    ELSE /\ Goes(i, then) /\ UNCHANGED <<held, stale>>
         /\ name' = [name EXCEPT ![i] = [is |-> n.is + 1, tries |-> n.tries + 1]]

(* NameRetry::free_name, one name at a time: before a file's transfer if   *)
(* the listing hid names, and under the lock                               *)
NameCheck(i, free) ==
    \/ entry[name[i].is] = "free" /\ Goes(i, free) /\ UNCHANGED <<held, stale, name, faults>>
    \/ entry[name[i].is] # "free" /\ NextName(i, at[i]) /\ UNCHANGED faults
    \/ Fault /\ Drops(i) /\ Fails(i) /\ UNCHANGED name

ItemChecks(i) ==
    /\ at[i] = "check" /\ held[i] = "good" /\ NameCheck(i, "write")
    /\ UNCHANGED <<control, core, phase, pc, chunk, report, recheck, server>>

(* Nothing but the name was read under the lock: if the lease cannot be    *)
(* confirmed, both are asked for again                                     *)
ItemUnconfirmed(i) ==
    /\ at[i] = "write" /\ Unconfirmed(i) /\ Goes(i, UnderLock(i))
    /\ UNCHANGED <<control, core, phase, pc, chunk, name, report, recheck, server>>

(* The item lands, under its name if it is in Dest *)
Lands(i, as) ==
    /\ made' = [made EXCEPT ![i] = as]
    /\ entry' = IF i \in TopLevel /\ as = "new" THEN [entry EXCEPT ![name[i].is] = "job"]
                                                ELSE entry
    /\ UNCHANGED <<shared, inShare, foreign>>

Taken(i) == i \in TopLevel /\ entry[name[i].is] # "free"

(* What follows a write that was answered; the lock is kept for it *)
Answered(i) ==
    /\ Goes(i, AfterWrite(i))
    /\ IF AfterWrite(i) = "over" THEN Leave(i) ELSE UNCHANGED <<held, stale>>

(* confirm and finish_upload: the server makes a file whose name is taken a version *)
FileWrites(i) ==
    /\ i \in Files /\ at[i] = "write" /\ held[i] = "good" /\ i \notin stale
    /\ \/ /\ Lands(i, IF Taken(i) THEN "version" ELSE "new")
          /\ Answered(i) /\ UNCHANGED faults
       \/ /\ Fault /\ Leave(i) /\ Fails(i)
          /\ \/ Lands(i, IF Taken(i) THEN "version" ELSE "new")
             \/ UNCHANGED server
    /\ UNCHANGED <<control, core, phase, pc, chunk, name, report, recheck>>

(* confirm and create_dir_unpropagated: a directory whose name is taken is merged *)
DirWrites(i) ==
    /\ i \in Dirs /\ at[i] = "write" /\ held[i] = "good" /\ i \notin stale
    /\ \/ /\ ~Taken(i) /\ Lands(i, "new")
          /\ Answered(i) /\ UNCHANGED <<name, faults>>
       \/ /\ Taken(i) /\ NextName(i, UnderLock(i)) /\ UNCHANGED <<server, faults>>
       \/ /\ Fault /\ Leave(i) /\ Fails(i) /\ UNCHANGED name
          /\ \/ ~Taken(i) /\ Lands(i, "new")
             \/ UNCHANGED server
    /\ UNCHANGED <<control, core, phase, pc, chunk, report, recheck>>

(* confirmed_after_write and the color *)
DirColors(i) ==
    /\ at[i] = "color"
    /\ \/ /\ Confirmed(i) /\ Goes(i, AfterColor(i))
          /\ IF AfterColor(i) = "over" THEN Leave(i) ELSE UNCHANGED <<held, stale>>
       \/ Unconfirmed(i) /\ UNCHANGED at
    /\ UNCHANGED <<control, core, phase, pc, chunk, name, report, recheck, server>>

\* Mutant for SharesAreKept: a lost lease ends the propagation unreported
ItemPropagates_once(i) ==
    /\ at[i] = "propagate"
    /\ \/ /\ Confirmed(i) /\ Leave(i) /\ Goes(i, "over")
          /\ inShare' = inShare \cup {i} /\ UNCHANGED unshared
       \/ Unconfirmed(i) /\ Goes(i, "over") /\ UNCHANGED <<inShare, unshared>>
    /\ UNCHANGED <<control, core, phase, pc, chunk, name, told, fatal, recheck,
                   made, entry, shared, foreign>>

(* propagate: added to the share, or reported *)
ItemPropagates(i) ==
    /\ at[i] = "propagate"
    /\ \/ /\ Confirmed(i) /\ Leave(i) /\ Goes(i, "over")
          /\ inShare' = inShare \cup {i} /\ UNCHANGED unshared
       \/ /\ held[i] = "good" /\ i \notin stale /\ Fault /\ Leave(i) /\ Goes(i, "over")
          /\ unshared' = unshared \cup {i} /\ UNCHANGED inShare
       \/ Unconfirmed(i) /\ UNCHANGED <<at, inShare, unshared>>
    /\ UNCHANGED <<control, core, phase, pc, chunk, name, told, fatal, recheck,
                   made, entry, shared, foreign>>

-----------------------------------------------------------------------------
(* A file's task up to its registration: copy_file, reserve_chunk.  A      *)
(* chunk goes todo, wait (for memory), got, fetch, upload, freed, done; or *)
(* yield, when a pause takes it back.                                      *)

Stage(f, c, to) == chunk' = [chunk EXCEPT ![f][c] = to]
MemoryInUse == Cardinality({x \in AllChunks : HasMemory(chunk[x[1]][x[2]])})

FileStarts(f) ==
    /\ at[f] = "start"
    /\ \/ IsStopping /\ Goes(f, "stopped")
       \/ /\ ~IsStopping /\ ~IsPauseRequested
          /\ Goes(f, IF UNVERIFIED /\ f \in TopLevel THEN "verify" ELSE "copy")
    /\ UNCHANGED <<control, core, phase, pc, held, stale, chunk, name, report, recheck, server, faults>>

FileVerifies(f) ==
    /\ at[f] = "verify" /\ NameCheck(f, "copy")
    /\ UNCHANGED <<control, core, phase, pc, chunk, report, recheck, server>>

ReservesChunk(f, c) ==
    /\ at[f] = "copy" /\ ~IsStopping /\ ~IsPauseRequested
    /\ chunk[f][c] = "todo"
    /\ \A d \in 1 .. c - 1 : chunk[f][d] \in {"fetch", "upload", "freed", "done"}
    /\ Cardinality({d \in 1 .. Chunks[f] : chunk[f][d] \in {"fetch", "upload"}}) < CHUNKS_PER_FILE
    /\ Stage(f, c, "wait") /\ UNCHANGED held /\ Tick
    /\ UNCHANGED <<control, phase, pc, at, stale, name, report, recheck, server, faults>>

(* The semaphore, and whether a pause came meanwhile *)
ChunkWaits(f, c) ==
    /\ at[f] = "copy"
    /\ \/ /\ chunk[f][c] = "wait" /\ ~IsStopping /\ ~IsPauseRequested
          /\ MemoryInUse < MEMORY /\ Stage(f, c, "got")
       \/ chunk[f][c] = "wait" /\ ~IsStopping /\ IsPauseRequested /\ Stage(f, c, "yield")
       \/ chunk[f][c] = "got" /\ Stage(f, c, IF IsPauseRequested THEN "yield" ELSE "fetch")
    /\ UNCHANGED <<control, core, phase, pc, at, held, stale, name, report, recheck, server, faults>>

(* Chunks are hashed in order, between their download and their upload *)
ChunkMoves(f, c) ==
    /\ at[f] = "copy"
    /\ \/ /\ chunk[f][c] = "fetch" /\ \A d \in 1 .. c - 1 : chunk[f][d] # "fetch"
          /\ Stage(f, c, "upload")
       \/ chunk[f][c] = "upload" /\ Stage(f, c, "freed")
    /\ UNCHANGED <<control, core, phase, pc, at, held, stale, name, report, recheck, server, faults>>

ChunkOpFinished(f, c) ==
    /\ \/ chunk[f][c] = "yield" /\ Stage(f, c, "todo")
       \/ chunk[f][c] = "freed" /\ Stage(f, c, "done")
    /\ UNCHANGED held /\ Tick
    /\ UNCHANGED <<control, phase, pc, at, stale, name, report, recheck, server, faults>>

(* What is in flight is dropped with the task *)
DropsChunks(f) ==
    chunk' = [chunk EXCEPT ![f] = [c \in 1 .. Chunks[f] |->
                  IF OpOut(chunk[f][c]) THEN chunk[f][c] ELSE "freed"]]

FileStops(f) ==
    /\ at[f] = "copy" /\ IsStopping
    /\ \E c \in 1 .. Chunks[f] : chunk[f][c] \notin {"freed", "done"}
    /\ Goes(f, "stopped") /\ DropsChunks(f)
    /\ UNCHANGED <<control, core, phase, pc, held, stale, name, report, recheck, server, faults>>

(* A transfer fails, or the data is not what the metadata says *)
FileTransferFails(f) ==
    /\ at[f] = "copy"
    /\ \/ ~IsStopping /\ \E c \in 1 .. Chunks[f] : chunk[f][c] \in {"fetch", "upload"}
       \/ \A c \in 1 .. Chunks[f] : chunk[f][c] = "done"
    /\ Fault /\ Fails(f) /\ DropsChunks(f)
    /\ UNCHANGED <<control, core, phase, pc, held, stale, name, report, recheck, server>>

FileCopied(f) ==
    /\ at[f] = "copy" /\ \A c \in 1 .. Chunks[f] : chunk[f][c] = "done"
    /\ Goes(f, UnderLock(f))
    /\ UNCHANGED <<control, core, phase, pc, held, stale, chunk, name, report, recheck, server, faults>>

-----------------------------------------------------------------------------
(* The driver: Job::run. *)

InFlight == {i \in Items : at[i] \notin {"planned", "ready", "gone"}}
Ready    == {i \in Dirs : at[i] = "ready"}
Unspawned == {f \in Files : at[f] = "planned"}
Finished(i) ==
    /\ at[i] \in {"over", "failed", "fatal", "stopped", "back"} /\ held[i] = "none"
    /\ i \in Files => \A c \in 1 .. Chunks[i] : OpOut(chunk[i][c])

(* All that is planned below i: the least set that has the children of i   *)
(* and of its members                                                      *)
Below(i) ==
    {j \in Items : \A S \in SUBSET Items :
        (\A k \in Items : Parent[k] \in S \cup {i} => k \in S) => j \in S}

AfterPhase == IF phase = "dirs" THEN [phase |-> "files", pc |-> "top"]
                                ELSE [phase |-> "finishing", pc |-> "park"]

DropsWarmLock == IF HasLock(Driver) THEN Leave(Driver) ELSE UNCHANGED <<held, stale>>

(* Reporter::checkpoint, and where the driver goes on after it *)
AfterCheckpoint ==
    CASE phase \in {"dirs", "files"} -> "top"
      [] phase = "targets" \/ (phase = "finishing" /\ current = "unknown") -> "fetch"
      [] OTHER -> "lock"

DriverParks ==
    /\ pc \in {"park", "parked"} /\ held[Driver] = "none"
    /\ UNCHANGED <<held, chunk>>
    /\ LET asked == SetPauseRequested(core, IsPauseRequested) IN
       \/ IsStopping /\ pc' = "stopped" /\ core' = UpdatePaused(WindDown(asked), held, chunk)
       \/ /\ ~IsStopping /\ ~IsPauseRequested
          /\ pc' = AfterCheckpoint /\ core' = UpdatePaused(asked, held, chunk)
       \/ /\ ~IsStopping /\ IsPauseRequested /\ pc = "park"
          /\ pc' = "parked" /\ core' = UpdatePaused(asked, held, chunk)
    /\ UNCHANGED <<control, phase, at, stale, name, report, recheck, server, faults>>

(* An error that ends the job: Fatal::stop *)
EndsJob ==
    /\ fatal' = TRUE /\ ctl' = [ctl EXCEPT !.stop = TRUE]
    /\ core' = UpdatePaused(WindDown(core), held', chunk')

(* fetch_targets, and the look at them in recheck_targets *)
DriverFetches ==
    /\ pc = "fetch"
    /\ \/ /\ IsStopping /\ pc' = "stopped" /\ UNCHANGED <<ctl, core, fatal, phase, recheck, faults>>
       \/ /\ ~IsStopping /\ phase = "targets"
          /\ targets' = shared /\ pc' = "top"
          /\ phase' = (IF Ready = {} THEN "files" ELSE "dirs")
          /\ UNCHANGED <<ctl, core, fatal, current, left, faults>>
       \/ /\ ~IsStopping /\ phase = "targets" /\ Fault /\ EndsJob /\ pc' = "stopped"
          /\ UNCHANGED <<phase, recheck>>
       \/ /\ ~IsStopping /\ phase = "finishing"
          /\ current' = (IF shared THEN "shared" ELSE "private")
          /\ pc' = (IF shared /\ ~targets THEN "lock" ELSE "ok")
          /\ UNCHANGED <<ctl, core, fatal, phase, targets, left, faults>>
       \/ /\ ~IsStopping /\ phase = "finishing" /\ Fault /\ pc' = "ok"
          /\ UNCHANGED <<ctl, core, fatal, phase, recheck>>
    /\ UNCHANGED <<verbs, at, held, stale, chunk, name, told, unshared, server>>

(* What can start is started; when nothing runs and nothing is left the    *)
(* phase is over                                                           *)
Spawns ==
    LET orphans == {f \in Unspawned : Parent[f] \in Dirs /\ told[Parent[f]] # "done"}
        able    == IF phase = "dirs" THEN Ready ELSE Unspawned \ orphans
    IN
    \E S \in SUBSET able :
        /\ Cardinality(S) + Cardinality(InFlight) <= PARALLEL
        /\ S = able \/ Cardinality(S) + Cardinality(InFlight) = PARALLEL
        /\ at' = [i \in Items |-> CASE i \in S -> IF i \in Dirs THEN UnderLock(i) ELSE "start"
                                    [] phase = "files" /\ i \in orphans -> "gone"
                                    [] OTHER -> at[i]]
        /\ IF S \cup InFlight # {} THEN pc' = "select" /\ UNCHANGED phase
           ELSE pc' = AfterPhase.pc /\ phase' = AfterPhase.phase

(* The head of the loops of create_dirs and copy_files *)
DriverLoops ==
    /\ pc = "top" /\ held[Driver] \in {"none", "good"}
    /\ LET asked == SetPauseRequested(core, IsPauseRequested)
           idle  == InFlight = {}
       IN
       \/ /\ IsStopping
          /\ IF idle THEN DropsWarmLock ELSE UNCHANGED <<held, stale>>
          /\ pc' = (IF idle THEN "stopped" ELSE "select")
          /\ core' = UpdatePaused(WindDown(asked), held, chunk)
          /\ UNCHANGED <<at, phase>>
       \/ /\ ~IsStopping /\ IsPauseRequested
          /\ IF idle THEN DropsWarmLock ELSE UNCHANGED <<held, stale>>
          /\ IF idle /\ phase = "files" /\ Unspawned = {}
             THEN pc' = AfterPhase.pc /\ phase' = AfterPhase.phase
             ELSE pc' = (IF idle THEN "park" ELSE "select") /\ UNCHANGED phase
          /\ core' = UpdatePaused(asked, held, chunk)
          /\ UNCHANGED at
       \/ /\ ~IsStopping /\ ~IsPauseRequested
          /\ core' = UpdatePaused(asked, held, chunk)
          /\ IF phase = "dirs" /\ held[Driver] = "none" /\ Ready # {}
             THEN pc' = "lock" /\ UNCHANGED <<at, phase, held, stale>>
             ELSE /\ Spawns
                  /\ IF phase' # phase THEN DropsWarmLock ELSE UNCHANGED <<held, stale>>
    /\ UNCHANGED <<control, chunk, name, report, recheck, server, faults>>

(* A copy that became a version of another file counts as failed *)
Outcome(i) == IF made[i] = "version" THEN "failed" ELSE "done"

(* dir_finished, file_finished *)
DriverCollects(i) ==
    /\ pc = "select" /\ Finished(i) /\ pc' = "top"
    /\ LET failed == {i} \cup Below(i) IN
       \/ /\ at[i] = "over"
          /\ told' = [told EXCEPT ![i] = Outcome(i)]
          /\ at' = [j \in Items |-> CASE j = i -> "gone"
                                      [] j \in Dirs /\ Parent[j] = i -> "ready"
                                      [] OTHER -> at[j]]
          /\ UNCHANGED <<ctl, fatal, held, chunk>> /\ Tick
       \/ /\ at[i] \in {"failed", "fatal"}
          /\ told' = [j \in Items |-> IF j \in failed THEN "failed" ELSE told[j]]
          /\ at' = [j \in Items |-> IF j = i \/ j \in failed \cap Dirs THEN "gone" ELSE at[j]]
          /\ UNCHANGED <<held, chunk>>
          /\ IF at[i] = "fatal" /\ ~fatal THEN EndsJob ELSE (UNCHANGED <<ctl, fatal>> /\ Tick)
       \/ /\ at[i] \in {"stopped", "back"}
          /\ Goes(i, IF at[i] = "back" THEN "ready" ELSE "gone")
          /\ UNCHANGED <<ctl, fatal, told, held, chunk>> /\ Tick
    /\ UNCHANGED <<verbs, phase, stale, name, unshared, recheck, server, faults>>

(* A pause, a resume, a stop or the timer; the last two change something   *)
(* only if the first three do                                              *)
DriverWakes ==
    /\ pc = "select"
    /\ \/ core.asked # IsPauseRequested
       \/ IsStopping /\ core.winding = "no"
       \/ ctl.cancel /\ core.winding # "cancel"
    /\ pc' = "top"
    /\ UNCHANGED <<control, core, phase, at, held, stale, chunk, name, report, recheck, server, faults>>

(* The lock of create_dirs, kept warm, and the one of recheck_targets      *)
DriverWaits ==
    /\ pc = "lock" /\ held[Driver] = "none"
    /\ StartWait(Driver) /\ UNCHANGED chunk /\ Tick
    /\ UNCHANGED <<control, phase, pc, at, stale, name, report, recheck, server, faults>>

CreatedTops == {i \in TopLevel : told[i] = "done"}

DriverLocks ==
    /\ pc = "lock"
    /\ \/ Granted(Driver) /\ UNCHANGED <<pc, phase, at, stale, left>>
       \/ Keeps(Driver) /\ phase = "dirs" /\ Spawns /\ UNCHANGED <<stale, left>>
       \/ /\ Keeps(Driver) /\ phase = "finishing" /\ pc' = "propagate"
          /\ left' = (IF left = {} THEN CreatedTops ELSE left)
          /\ UNCHANGED <<phase, at, stale>>
       \/ /\ StopEndsWait(Driver) /\ pc' = (IF phase = "dirs" THEN "top" ELSE "stopped")
          /\ UNCHANGED <<phase, at, left>>
       \/ /\ PauseEndsWait(Driver) /\ pc' = (IF phase = "dirs" THEN "top" ELSE "park")
          /\ UNCHANGED <<phase, at, left>>
    /\ UNCHANGED <<control, core, chunk, name, report, targets, current, server, faults>>

(* A failure ends create_dirs; recheck_targets only logs one before it     *)
(* began, after which nobody knows of the share, and reports one after     *)
DriverLockFails ==
    /\ pc = "lock" /\ LockFails(Driver) /\ UNCHANGED chunk
    /\ IF phase = "dirs"
       THEN EndsJob /\ pc' = "stopped" /\ UNCHANGED <<unshared, current>>
       ELSE /\ UNCHANGED <<ctl, core, fatal>> /\ pc' = "ok"
            /\ unshared' = unshared \cup left
            /\ current' = IF left = {} THEN "unknown" ELSE current
    /\ UNCHANGED <<verbs, phase, at, name, told, targets, left, server>>

(* propagate_tree of one created item, or the end of recheck_targets *)
DriverPropagates ==
    /\ pc = "propagate"
    /\ \/ /\ left = {} /\ Leave(Driver) /\ pc' = "ok"
          /\ UNCHANGED <<left, inShare, unshared, faults>>
       \/ \E i \in left :
              \/ /\ Confirmed(Driver) /\ left' = left \ {i} /\ UNCHANGED <<pc, held, stale>>
                 /\ inShare' = inShare \cup {j \in {i} \cup Below(i) : made[j] # "no"}
                 /\ UNCHANGED unshared
              \/ /\ Fault /\ left' = left \ {i} /\ UNCHANGED <<pc, held, stale>>
                 /\ unshared' = unshared \cup {i} /\ UNCHANGED inShare
       \/ /\ left # {} /\ Unconfirmed(Driver) /\ pc' = "lock"
          /\ UNCHANGED <<left, inShare, unshared>>
    /\ UNCHANGED <<control, core, phase, at, chunk, name, told, fatal, targets, current,
                   made, entry, shared, foreign>>

(* Fatal::end, Reporter::finish *)
JobFinishes ==
    /\ pc \in {"ok", "stopped"} /\ held[Driver] = "none" /\ pc' = "over"
    /\ phase' = CASE fatal -> "failed"
                  [] ~fatal /\ pc = "stopped" -> IF ctl.cancel THEN "cancelled" ELSE "failed"
                  [] OTHER -> "done"
    /\ core' = [core EXCEPT !.asked = FALSE, !.paused = FALSE]
    /\ UNCHANGED <<control, at, held, stale, chunk, name, report, recheck, server, faults>>

-----------------------------------------------------------------------------

Init ==
    /\ ctl = [pause |-> FALSE, cancel |-> FALSE, gone |-> FALSE, stop |-> FALSE]
    /\ core = [asked |-> FALSE, paused |-> FALSE, winding |-> "no"]
    /\ phase = "targets" /\ pc = "park" /\ fatal = FALSE
    /\ at = [i \in Items |-> IF i \in Dirs \cap TopLevel THEN "ready" ELSE "planned"]
    /\ held = [h \in Holders |-> "none"] /\ stale = {}
    /\ chunk = [f \in Files |-> [c \in 1 .. Chunks[f] |-> "todo"]]
    /\ name = [i \in Items |-> [is |-> PlannedName[i], tries |-> 0]]
    /\ told = [i \in Items |-> "none"]
    /\ targets = FALSE /\ current = "unknown" /\ left = {} /\ unshared = {}
    /\ made = [i \in Items |-> "no"]
    /\ entry = [n \in Names |-> "free"]
    /\ shared \in BOOLEAN /\ inShare = {}
    /\ foreign = "not yet"
    /\ verbs = 0 /\ faults = 0

ItemSteps(i) ==
    \/ ItemWaits(i) \/ ItemStopped(i) \/ ItemPaused(i) \/ ItemLocked(i)
    \/ ItemChecks(i) \/ ItemUnconfirmed(i) \/ FileWrites(i) \/ DirWrites(i)
    \/ DirColors(i) \/ ItemPropagates(i)

FileSteps(f) == FileStarts(f) \/ FileVerifies(f) \/ FileStops(f) \/ FileCopied(f)

ChunkSteps(f, c) ==
    ReservesChunk(f, c) \/ ChunkWaits(f, c) \/ ChunkMoves(f, c) \/ ChunkOpFinished(f, c)

DriverSteps ==
    \/ DriverParks \/ DriverFetches \/ DriverLoops \/ DriverWakes
    \/ DriverWaits \/ DriverLocks \/ DriverPropagates \/ JobFinishes
    \/ \E i \in Items : DriverCollects(i)

Next ==
    \/ Controls \/ LeaseLost \/ ForeignTakes \/ ForeignLeaves \/ UserShares
    \/ \E h \in Holders : OpFinished(h)
    \/ \E i \in Items : ItemSteps(i) \/ ItemLockFails(i)
    \/ \E f \in Files : FileSteps(f) \/ FileTransferFails(f)
    \/ \E f \in Files : \E c \in 1 .. Chunks[f] : ChunkSteps(f, c)
    \/ DriverSteps \/ DriverLockFails

(* Tasks that can go on do, requests end.  Nothing makes the controller    *)
(* resume or another client let go of the lock.                            *)
Fairness ==
    /\ WF_vars(DriverSteps)
    /\ \A h \in Holders : WF_vars(OpFinished(h))
    /\ \A i \in Items : WF_vars(ItemSteps(i))
    /\ \A f \in Files : WF_vars(FileSteps(f))
    /\ \A f \in Files : \A c \in 1 .. Chunks[f] : WF_vars(ChunkSteps(f, c))

Spec == Init /\ [][Next]_vars /\ Fairness
-----------------------------------------------------------------------------
(* Properties. *)

Core == [asked : BOOLEAN, paused : BOOLEAN, winding : {"no", "error", "cancel"}]
ControlTypes ==
    /\ ctl \in [pause : BOOLEAN, cancel : BOOLEAN, gone : BOOLEAN, stop : BOOLEAN]
    /\ core \in Core /\ fatal \in BOOLEAN
    /\ phase \in {"targets", "dirs", "files", "finishing", "done", "cancelled", "failed"}
    /\ pc \in {"park", "parked", "fetch", "top", "select", "lock", "propagate",
               "ok", "stopped", "over"}

Stages == {"todo", "wait", "got", "fetch", "upload", "freed", "yield", "done"}
TaskTypes ==
    /\ at \in [Items -> LockStages \cup {"planned", "ready", "start", "verify", "copy", "over",
                                         "failed", "fatal", "stopped", "back", "gone"}]
    /\ held \in [Holders -> {"none", "waiting", "got", "good", "leaving"}]
    /\ stale \subseteq {h \in Holders : HasLock(h)}
    /\ DOMAIN chunk = Files /\ \A f \in Files : chunk[f] \in [1 .. Chunks[f] -> Stages]
    /\ name \in [Items -> [is : Names, tries : 0 .. NAME_ATTEMPTS]]

ServerTypes ==
    /\ told \in [Items -> {"none", "done", "failed"}]
    /\ made \in [Items -> {"no", "new", "version"}]
    /\ entry \in [Names -> {"free", "foreign", "job"}]
    /\ targets \in BOOLEAN /\ shared \in BOOLEAN
    /\ current \in {"unknown", "private", "shared"}
    /\ left \subseteq Items /\ unshared \subseteq Items /\ inShare \subseteq Items
    /\ foreign \in {"not yet", "now", "over"}

TypeOK == ControlTypes /\ TaskTypes /\ ServerTypes

(* A job reported paused holds no drive lock and no memory, whatever       *)
(* started, ended or was let in while the pause came and went              *)
(* (RunState::Paused)                                                      *)
PausedHoldsNothing ==
    RunState(core) = "paused" => ~(\E h \in Holders : HasLock(h)) /\ MemoryInUse = 0

(* A copied file is a new file, never a version of one another client put  *)
(* there under the lock: the name was free under the lease it is           *)
(* registered under (register)                                             *)
NewFilesAreNew == \A f \in Files : made[f] # "version"

(* An item that is not in flight has no operation out; its lock is waited  *)
(* for and held only for what it is needed for; names are looked at in     *)
(* Dest only (create_dir, copy_file, finalize_new_file)                    *)
Idle(i) == at[i] \in {"planned", "ready", "gone"}
ShapeOf(i) ==
    /\ Idle(i) => held[i] = "none" /\ (i \in Files => \A c \in 1 .. Chunks[i] : OpOut(chunk[i][c]))
    /\ held[i] \in {"waiting", "got", "good"} => at[i] \in LockStages
    /\ at[i] \in {"check", "verify"} => i \in TopLevel
    /\ i \in Files => at[i] \notin {"ready", "back", "color"}
    /\ i \in Dirs => at[i] \notin {"start", "verify", "copy", "stopped"}
TaskShape == \A i \in Items : ShapeOf(i)

(* What is in flight is the driver's: it leaves a phase, parks and ends    *)
(* with nothing in flight, and creates directories with its lock kept      *)
(* (create_dirs, copy_files, Job::run)                                     *)
DriverShape ==
    /\ pc \notin {"top", "select"} => InFlight = {}
    /\ phase = "dirs" /\ InFlight # {} => held[Driver] = "good"
    /\ Ended <=> pc = "over"
    /\ Ended => held[Driver] = "none"
    /\ phase = "targets" => /\ pc \in {"park", "parked", "fetch", "stopped"}
                            /\ \A i \in Items : told[i] = "none"
    /\ pc = "fetch" => phase \in {"targets", "finishing"}
    /\ pc = "propagate" => phase = "finishing" /\ held[Driver] = "good"
    /\ pc = "ok" => phase = "finishing"
    /\ pc = "lock" => phase \in {"dirs", "finishing"}
    /\ pc \in {"top", "select"} => phase \in {"dirs", "files"}

(* An item is reported once and by what became of it: what was made is in  *)
(* the hands of its task until then (dir_finished, file_finished)          *)
ReportOf(i) ==
    /\ at[i] \in {"color", "propagate", "over"} => made[i] # "no"
    /\ made[i] # "no" => \/ at[i] \in {"color", "propagate", "over", "failed", "fatal"}
                         \/ at[i] = "gone" /\ told[i] # "none"
    /\ told[i] = "done" => at[i] = "gone" /\ made[i] = "new"
    /\ i \in Dirs => made[i] # "version"
ReportShape == \A i \in Items : ReportOf(i)

(* Nothing is begun below a directory that is not reported done            *)
(* (dest_parent, fail_subtree)                                             *)
Begun(i) == at[i] \notin {"planned", "gone"} \/ made[i] # "no"
CreatedTopDown ==
    /\ \A i \in Items : Begun(i) => \A k \in Items : i \in Below(k) => told[k] = "done"
    /\ \A i \in Items : told[i] = "done" => \E t \in CreatedTops : i \in {t} \cup Below(t)

(* An item that went under the lock in a shared destination does not come  *)
(* out of it without its share, or the report that it has none             *)
SharesFound ==
    /\ targets => shared
    /\ current = "shared" => shared
    /\ targets => \A i \in Items : at[i] = "over" \/ told[i] = "done" => i \in inShare \cup unshared

(* The recheck at the end is about a share found late, and misses no       *)
(* created item (recheck_targets)                                          *)
Shared(t) == t \in inShare /\ \A j \in Below(t) : made[j] # "no" => j \in inShare
RecheckShape ==
    /\ phase \in {"targets", "dirs", "files"} => current = "unknown" /\ left = {}
    /\ phase = "finishing" /\ pc = "fetch" => current = "unknown"
    /\ phase = "finishing" /\ pc \in {"lock", "propagate"} => current = "shared" /\ ~targets
    /\ phase = "finishing" /\ pc \in {"park", "parked"} /\ current # "unknown" =>
           current = "shared" /\ ~targets
    /\ pc = "propagate" \/ left # {} =>
           \A t \in CreatedTops : t \in left \cup unshared \/ Shared(t)
    /\ (pc = "ok" \/ phase = "done") /\ current = "shared" /\ ~targets =>
           \A t \in CreatedTops : t \in unshared \/ Shared(t)

(* A job reported paused has no operation out at all *)
PausedIsQuiet ==
    core.paused => /\ \A h \in Holders : held[h] = "none"
                   /\ \A f \in Files : \A c \in 1 .. Chunks[f] : OpOut(chunk[f][c])

(* Names are tried in their order, and in Dest only (NameRetry::next) *)
NamesInOrder ==
    \A i \in Items : /\ name[i].is = PlannedName[i] + name[i].tries
                     /\ name[i].tries < NAME_ATTEMPTS
                     /\ i \notin TopLevel => name[i].tries = 0

(* Another client has the lock only while every lease here is lost, and a  *)
(* file about to be registered has a free name as long as its lease stands *)
(* (register)                                                              *)
NameIsFree ==
    /\ foreign = "now" => ~Covered
    /\ \A f \in Files \cap TopLevel :
           at[f] = "write" => /\ held[f] = "good"
                              /\ f \notin stale => entry[name[f].is] = "free"

(* What the job relies on at each of its awaits, whatever its names are *)
JobCore ==
    /\ TypeOK /\ TaskShape /\ DriverShape /\ ReportShape /\ CreatedTopDown /\ SharesFound
    /\ RecheckShape /\ PausedIsQuiet /\ NamesInOrder

JobInvariant == JobCore /\ NameIsFree /\ PausedHoldsNothing /\ NewFilesAreNew

(* When the job has ended, whatever it made on the server was reported,    *)
(* also if it was cancelled or stopped meanwhile; what was reported done   *)
(* is there; and nothing of the job is in flight (finalize_new_file,       *)
(* create_dirs, copy_files)                                                *)
CreatedIsReported ==
    Ended => /\ \A i \in Items : made[i] # "no" => told[i] # "none"
             /\ \A i \in Items : told[i] = "done" => made[i] = "new"
             /\ OpsInFlight(held, chunk) = 0

(* What the job reports done in a shared destination is in the share, or   *)
(* reported not to be: for shares the job found at its start however it    *)
(* ends, for those it found at its end if it got there with the lock       *)
(* (register, create_dir, recheck_targets)                                 *)
SharesAreKept ==
    Ended => \A i \in Items :
        told[i] = "done" /\ (targets \/ (phase = "done" /\ current = "shared")) =>
            \/ i \in inShare \cup unshared
            \/ ~targets /\ \E j \in unshared : i \in Below(j)


(* A cancelled or failed job ends even if the lock is never had; any job   *)
(* ends that is not paused for good if the others let go of the lock,      *)
(* however little memory there is (JobControl::stopping, reserve_chunk)    *)
JobEnds ==
    /\ IsStopping ~> Ended
    /\ <>[](~IsPauseRequested /\ foreign # "now") => <>Ended
=============================================================================
