----------------------------- MODULE CacheWorker -----------------------------
(***************************************************************************)
(* The worker of the metadata cache (filen-sdk-rs/src/cache): it mirrors   *)
(* the subtrees of the registered sync roots into SQLite.  Drive events    *)
(* reach it through the socket and a bounded channel, are persisted,       *)
(* applied in order of their drive message ids and deleted, and move a     *)
(* watermark; whatever may have been missed is recovered by a resync,      *)
(* which lists every root under the drive lock.  The process can die       *)
(* between any two transactions.                                           *)
(*                                                                         *)
(* A change is a drive event under one root.  The rows of a root are the   *)
(* set of the changes they show: an upsert adds its change, a listing sets *)
(* them all.  Changes of kind "noop" are those the cache cannot apply, and *)
(* "restore" those whose contents no event sends.                          *)
(***************************************************************************)
EXTENDS Integers, Sequences, FiniteSets, FiniteSetsExt

CONSTANTS
    Roots,           \* the dirs that can be registered as sync roots
    Kinds,           \* of the changes made: "plain", "noop", "restore"
    Calls,           \* of an application: "add", "remove", "evict", "shutdown",
                     \* "catch up"
    Faults,          \* what goes wrong in this instance, see AllFaults
    EVENT_SHED_CAP,  \* capacity of the event channel
    BATCH_SIZE,      \* events a drain applies in one transaction
    MAX_CONTROL,     \* bound: messages waiting in the control channel
    MAX_ID           \* bound: changes made to the drive

AllFaults == {
    "crash",     \* the process dies
    "drop",      \* the SDK loses an event
    "shed",      \* more drive events wait than the channel holds
    "latch",     \* the worker runs between a shed and its latch
    "signal",    \* a disconnect or a subscription meets a full channel
    "db",        \* a write to the database fails
    "db remove", \* the one that removes a root fails
    "corrupt",   \* a persisted event does not decode
    "poison",    \* an event fails to apply
    "gap read",  \* a gap-check cannot read the remote drive id
    "read",      \* any other read of the remote drive id fails
    "lock",      \* the drive lock stays contended
    "listing",   \* a root fails to list, transiently
    "lag"}       \* the server lists a restored dir short, for a moment

ASSUME FaultsAssumption == Faults \subseteq AllFaults
ASSUME KindsAssumption == Kinds \subseteq {"plain", "noop", "restore"}
ASSUME CallsAssumption == Calls \subseteq {"add", "remove", "evict", "shutdown", "catch up"}
ASSUME BoundsAssumption ==
    /\ EVENT_SHED_CAP \in Nat \ {0} /\ BATCH_SIZE \in Nat \ {0}
    /\ MAX_CONTROL \in Nat \ {0} /\ MAX_ID \in Nat

None == -1   \* no watermark yet

VARIABLES
    log,         \* the changes made to the drive, by drive message id
    lagging,     \* restores the server does not list whole yet
    live,        \* the socket subscription of the worker's listener
    sent,        \* the last change the socket sent, dropped or missed
    due,         \* history: the last change the worker was told of, or that
                 \* was there when it subscribed
    chan,        \* event_receiver
    shed,        \* the shed latch
    latching,    \* the socket has shed an event and not latched it yet
    rows,        \* rows[r]: the changes the cached subtree of r shows
    store,       \* the persisted events
    watermark,
    needsResync,
    listed,      \* the listed-roots record: [stamp, roots]
    converged,   \* the converged-roots record
    stale,       \* history: its roots that were in it, unregistered, when added again
    pc,          \* what the worker is doing
    then,        \* what it does after the drain it is in
    registered,  \* sync_roots
    gapCheck,
    retry,       \* resync_retry is armed
    short,       \* short_roots: the roots, none when there are none
    ctl,         \* control_receiver
    fresh,       \* new_dir_roots: the roots added by the burst under way
    lapses,      \* history: what the worker was to do, and no one remembers:
                 \* to look for a "gap", to "resync"
    cursor,      \* DrainCursor: resync_needed is frontier_broken
    slow,        \* events the per-event path of a drain has left to apply
    listing      \* ResyncListing: [at, of, todo, transient]

server  == <<log, lagging>>
socket  == <<live, sent, due>>
channel == <<chan, shed, latching>>
db      == <<rows, store, watermark, needsResync, listed, converged, stale>>
control == <<ctl, fresh>>
memory  == <<registered, gapCheck, retry, short, control, lapses>>
drain   == <<then, cursor, slow>>
vars == <<server, socket, channel, db, memory, pc, drain, listing>>

Ids == 1..MAX_ID
Changes(r, n) == {id \in 1..n : log[id].root = r}

NoRoots   == [stamp |-> 0, roots |-> {}]
NoListing == [at |-> 0, of |-> [r \in Roots |-> {}], todo |-> {}, transient |-> FALSE]
NoCursor  == [frontier |-> None, broken |-> FALSE]

Drive(id) == [kind |-> "drive", id |-> id]
ResyncSignal == [kind |-> "resync", id |-> 0]
Connected    == [kind |-> "connected", id |-> 0]

MemoryInit ==
    /\ live = FALSE /\ sent = 0 /\ due = 0
    /\ chan = <<>> /\ shed = FALSE /\ latching = FALSE
    /\ registered = {} /\ gapCheck = "awaiting" /\ retry = FALSE /\ short = {}
    /\ ctl = <<>> /\ fresh = {} /\ lapses = {}
    /\ pc = "off" /\ then = "loop" /\ cursor = NoCursor /\ slow = {}
    /\ listing = NoListing

Init ==
    /\ log = <<>> /\ lagging = {}
    /\ rows = [r \in Roots |-> {}] /\ store = {}
    /\ watermark = None /\ needsResync = FALSE
    /\ listed = NoRoots /\ converged = {} /\ stale = {}
    /\ MemoryInit

-----------------------------------------------------------------------------
(* The drive and the socket *)

(* Another client, or this one, changes something under r. *)
Change(r, kind) ==
    /\ Len(log) < MAX_ID
    /\ log' = Append(log, [root |-> r, kind |-> kind])
    /\ lagging' = IF kind = "restore" /\ "lag" \in Faults
                  THEN lagging \cup {Len(log) + 1} ELSE lagging
    /\ UNCHANGED <<socket, channel, db, memory, pc, drain, listing>>

Settle(id) ==
    /\ id \in lagging
    /\ lagging' = lagging \ {id}
    /\ UNCHANGED <<log, socket, channel, db, memory, pc, drain, listing>>

(* A full channel drops the message, and sets the shed latch next. *)
RouteThreadEvent(m) ==
    /\ ~latching
    /\ IF Len(chan) < EVENT_SHED_CAP
       THEN chan' = Append(chan, m) /\ UNCHANGED <<shed, latching>>
       ELSE /\ (IF m.kind = "drive" THEN "shed" ELSE "signal") \in Faults
            /\ IF "latch" \in Faults THEN latching' = TRUE /\ UNCHANGED shed
                                     ELSE shed' = TRUE /\ UNCHANGED latching
            /\ UNCHANGED chan

LatchShed ==
    /\ latching
    /\ latching' = FALSE /\ shed' = TRUE
    /\ UNCHANGED <<chan, server, socket, db, memory, pc, drain, listing>>

(* Changes made while the socket was down are not sent again. *)
Subscribe ==
    /\ pc # "off" /\ ~live
    /\ live' = TRUE /\ sent' = Len(log) /\ due' = Len(log)
    /\ RouteThreadEvent(Connected)
    /\ UNCHANGED <<server, db, memory, pc, drain, listing>>

Disconnect ==
    /\ live
    /\ live' = FALSE /\ sent' = 0 /\ due' = 0
    /\ RouteThreadEvent(ResyncSignal)
    /\ lapses' = IF Len(chan) < EVENT_SHED_CAP THEN lapses ELSE lapses \cup {"gap"}
    /\ UNCHANGED <<server, db, registered, gapCheck, retry, short, control, pc, drain, listing>>

Deliver ==
    /\ live /\ sent < Len(log)
    /\ sent' = sent + 1 /\ due' = sent + 1
    /\ RouteThreadEvent(Drive(sent + 1))
    /\ UNCHANGED <<live, server, db, memory, pc, drain, listing>>

DropEvent ==
    /\ "drop" \in Faults /\ live /\ sent < Len(log)
    /\ sent' = sent + 1
    /\ UNCHANGED <<live, due, server, channel, db, memory, pc, drain, listing>>

-----------------------------------------------------------------------------
(* The worker's life *)

(* CacheState::new and the start of run: what an earlier session persisted *)
(* is drained before anything else.                                        *)
Boot ==
    /\ pc = "off"
    /\ converged' = {} /\ stale' = {}
    /\ pc' = "drain" /\ then' = "loop"
    /\ cursor' = [frontier |-> watermark, broken |-> FALSE]
    /\ UNCHANGED <<server, socket, channel, memory, slow, listing,
                   rows, store, watermark, needsResync, listed>>

(* What the process holds is gone; the database stays. *)
LoseMemory ==
    /\ live' = FALSE /\ sent' = 0 /\ due' = 0
    /\ chan' = <<>> /\ shed' = FALSE /\ latching' = FALSE
    /\ registered' = {} /\ gapCheck' = "awaiting" /\ retry' = FALSE /\ short' = {}
    /\ ctl' = <<>> /\ fresh' = {} /\ lapses' = {}
    /\ pc' = "off" /\ then' = "loop" /\ cursor' = NoCursor /\ slow' = {}
    /\ listing' = NoListing
    /\ UNCHANGED <<server, db>>

Crash ==
    /\ "crash" \in Faults /\ pc # "off"
    /\ LoseMemory

(* The callers hold a registration of r once the messages under way are     *)
(* served                                                                  *)
About(r)  == {i \in DOMAIN ctl : ctl[i].op # "shutdown" /\ ctl[i].root = r}
Wanted(r) == IF About(r) = {} THEN r \in registered ELSE ctl[Max(About(r))].op = "add"
Stopping  == \E i \in DOMAIN ctl : ctl[i].op = "shutdown"

(* A call on a handle sends a message to the control channel.  A root is   *)
(* added by its first registration and removed with its last; a call that  *)
(* adds one can be dropped, and its removal then waits behind it.  To      *)
(* evict a root takes the handle that an answered add returned.            *)
Control ==
    /\ pc # "off" /\ Len(ctl) < MAX_CONTROL
    /\ \/ \E r \in Roots, op \in Calls \cap {"add", "remove", "evict"} :
            /\ IF op = "add" THEN ~Wanted(r) ELSE Wanted(r)
            /\ op = "evict" => About(r) = {}
            /\ ctl' = Append(ctl, [op |-> op, root |-> r])
       \/ "shutdown" \in Calls /\ ~Stopping /\ ctl' = Append(ctl, [op |-> "shutdown"])
    /\ UNCHANGED <<server, socket, channel, db, registered, gapCheck, retry, short, fresh, lapses,
                   pc, drain, listing>>

(* The select of the run loop: control, then events, then the timers *)
Selecting == pc = "loop" /\ ctl = <<>>
Quiet     == Selecting /\ chan = <<>>

(* mark_needs_resync_surfacing_errors: a failed write is only reported. *)
MarkNeedsResync ==
    \/ needsResync' = TRUE /\ UNCHANGED lapses
    \/ /\ "db" \in Faults /\ ~needsResync
       /\ UNCHANGED needsResync /\ lapses' = {"gap", "resync"}

-----------------------------------------------------------------------------
(* drain_pending *)

Last(S) == IF S = {} THEN 0 ELSE Max(S)

(* Mutant: the signals of a burst are taken as flags, not in order. *)
MGapCheckAfter(g, burst) ==
    LET seen(kind) == \E i \in DOMAIN burst : burst[i].kind = kind
    IN  IF seen("connected") /\ (seen("resync") \/ g = "awaiting") THEN "due"
        ELSE IF seen("resync") THEN "awaiting"
        ELSE g

(* classify_thread_event over the messages of a burst, in their order *)
GapCheckAfter(g, burst) ==
    LET at(kind) == Last({i \in DOMAIN burst : burst[i].kind = kind})
    IN  IF at("resync") > at("connected") THEN "awaiting"
        ELSE IF at("connected") > 0 /\ (at("resync") > 0 \/ g = "awaiting") THEN "due"
        ELSE g

(* Takes the whole channel and persists it in one transaction; events that *)
(* cannot be persisted are left to a resync.                               *)
DrainPending(next) ==
    /\ LET ids == {chan[i].id : i \in {j \in DOMAIN chan : chan[j].kind = "drive"}}
       IN  \/ store' = store \cup ids /\ UNCHANGED <<needsResync, lapses>>
           \/ "db" \in Faults /\ ids # {} /\ MarkNeedsResync /\ UNCHANGED store
    /\ gapCheck' = GapCheckAfter(gapCheck, chan)
    /\ chan' = <<>>
    /\ pc' = "drain" /\ then' = next
    /\ cursor' = [frontier |-> watermark, broken |-> FALSE]
    /\ UNCHANGED <<server, socket, shed, latching, slow, listing, rows, watermark, listed, converged, stale,
                   registered, retry, short>>

EventArm ==
    /\ Selecting /\ chan # <<>>
    /\ DrainPending("maybe")
    /\ UNCHANGED control

(* The sync roots an event leaves short of the remote *)
Shortened(ids) ==
    {r \in registered : \E id \in ids :
        log[id].kind = "noop" \/ log[id] = [root |-> r, kind |-> "restore"]}

(* apply_event: a plain change is upserted where its root is registered; a *)
(* change that leaves roots short takes them out of both records and       *)
(* schedules their relist.                                                 *)
Applied(ids) ==
    [r \in Roots |-> IF r \in registered
                     THEN rows[r] \cup {id \in ids : log[id] = [root |-> r, kind |-> "plain"]}
                     ELSE rows[r]]

Without(l, roots) == IF l.roots \subseteq roots THEN NoRoots ELSE [l EXCEPT !.roots = @ \ roots]

Forgotten(ids) ==
    IF \E id \in ids : log[id].kind = "noop" THEN NoRoots
    ELSE Without(listed, Shortened(ids))

(* The frontier moves along a gap-free run of ids, from any first id where *)
(* there is no watermark, and a gap breaks it for the rest of the drain.   *)
Follow(c, ids) ==
    LET start == IF c.frontier = None /\ ids # {} THEN Min(ids) ELSE c.frontier
        reach == {n \in ids \cup {start} : n >= start /\ (start + 1)..n \subseteq ids}
        f     == IF c.broken THEN c.frontier ELSE Max(reach)
    IN  [frontier |-> f, broken |-> c.broken \/ \E id \in ids : id > f]

(* Mutant: roots that are not registered any more are carried too. *)
MCarried(l, w) ==
    IF w = watermark THEN l
    ELSE IF l.stamp = watermark THEN [l EXCEPT !.stamp = w] ELSE NoRoots

(* An advance carries the listed-roots record with it, for the registered. *)
Carried(l, w) ==
    IF w = watermark THEN l
    ELSE IF l.stamp = watermark /\ l.roots \cap registered # {}
         THEN [stamp |-> w, roots |-> l.roots \cap registered]
         ELSE NoRoots

(* load_event_batch: in the order of their ids *)
Batch == {id \in store : Cardinality({m \in store : m < id}) < BATCH_SIZE}
Fresh(ids) == {id \in ids : id > watermark}

Corrupt == IF "corrupt" \in Faults THEN SUBSET Batch ELSE {{}}

(* The applies, the watermark, the flag and the deletes of a batch in one  *)
(* transaction                                                             *)
DrainBatch ==
    /\ pc = "drain" /\ store # {}
    /\ \E corrupt \in Corrupt :
         LET ids == Fresh(Batch \ corrupt)
             c   == Follow([cursor EXCEPT !.broken = @ \/ corrupt # {}], ids)
         IN  /\ rows' = Applied(ids)
             /\ short' = short \cup Shortened(ids)
             /\ converged' = converged \ Shortened(ids) /\ stale' = stale \ Shortened(ids)
             /\ listed' = Carried(Forgotten(ids), c.frontier)
             /\ watermark' = c.frontier
             /\ needsResync' = (needsResync \/ c.broken)
             /\ store' = store \ Batch
             /\ cursor' = c
    /\ UNCHANGED <<server, socket, channel, registered, gapCheck, retry, control, lapses,
                   pc, then, slow, listing>>

(* Event n fails: the transaction rolls back, the relist scheduled by the  *)
(* events before n stays, and the batch is run again event by event.       *)
DrainBatchAborts ==
    /\ "poison" \in Faults /\ pc = "drain"
    /\ \E corrupt \in Corrupt : \E n \in Fresh(Batch \ corrupt) :
         /\ short' = short \cup Shortened({id \in Fresh(Batch \ corrupt) : id < n})
         /\ cursor' = [cursor EXCEPT !.broken = @ \/ corrupt # {}]
         /\ slow' = Fresh(Batch \ corrupt)
    /\ pc' = "slow"
    /\ UNCHANGED <<server, socket, channel, db, registered, gapCheck, retry, control, lapses, then, listing>>

ApplyAlone ==
    /\ pc = "slow" /\ slow # {}
    /\ LET ids == {Min(slow)} IN
         /\ rows' = Applied(ids)
         /\ short' = short \cup Shortened(ids)
         /\ converged' = converged \ Shortened(ids) /\ stale' = stale \ Shortened(ids)
         /\ listed' = Forgotten(ids)
         /\ cursor' = Follow(cursor, ids)
         /\ slow' = slow \ ids
    /\ UNCHANGED <<server, socket, channel, registered, gapCheck, retry, control, lapses,
                   pc, then, listing, store, watermark, needsResync>>

(* Mutant: an event that fails to apply does not break the frontier. *)
MQuarantine ==
    /\ pc = "slow" /\ slow # {}
    /\ slow' = slow \ {Min(slow)}
    /\ UNCHANGED <<server, socket, channel, db, memory, pc, then, cursor, listing>>

Quarantine ==
    /\ pc = "slow" /\ slow # {}
    /\ cursor' = [cursor EXCEPT !.broken = TRUE]
    /\ slow' = slow \ {Min(slow)}
    /\ UNCHANGED <<server, socket, channel, db, memory, pc, then, listing>>

(* Mutant: a broken frontier is not recorded with the deletes. *)
MCommitDrainBatch ==
    /\ pc = "slow" /\ slow = {}
    /\ listed' = Carried(listed, cursor.frontier)
    /\ watermark' = cursor.frontier
    /\ store' = store \ Batch
    /\ pc' = "drain"
    /\ UNCHANGED <<server, socket, channel, memory, then, cursor, slow, listing, rows, converged, stale,
                   needsResync>>

CommitDrainBatch ==
    /\ pc = "slow" /\ slow = {}
    /\ listed' = Carried(listed, cursor.frontier)
    /\ watermark' = cursor.frontier
    /\ needsResync' = (needsResync \/ cursor.broken)
    /\ store' = store \ Batch
    /\ pc' = "drain"
    /\ UNCHANGED <<server, socket, channel, memory, then, cursor, slow, listing, rows, converged, stale>>

(* A drain ends when the store is empty, or a commit fails and leaves the  *)
(* rest for the next one.                                                  *)
DrainDone ==
    \/ pc = "drain" /\ store = {}
    \/ /\ "db" \in Faults /\ store # {}
       /\ pc = "drain" \/ (pc = "slow" /\ slow = {})

(* maybe_run_resync *)
MaybeRunResync(flag) == pc' = IF flag THEN "resync" ELSE "loop"

(* After a drain of the channel the shed latch becomes a durable resync,   *)
(* or stays where that fails.                                              *)
DrainPendingEnds ==
    /\ DrainDone /\ then # "finish"
    /\ \/ shed /\ shed' = FALSE /\ needsResync' = TRUE
       \/ (shed => "db" \in Faults) /\ UNCHANGED <<shed, needsResync>>
    /\ IF then = "maybe" THEN MaybeRunResync(needsResync') ELSE pc' = then
    /\ then' = "loop" /\ cursor' = NoCursor
    /\ UNCHANGED <<server, socket, chan, latching, memory, slow, listing,
                   rows, store, watermark, listed, converged, stale>>

(* After the drain that ends a resync: the attempt converged when the flag *)
(* is clear, if not it is retried.                                         *)
ResyncDrainEnds ==
    /\ DrainDone /\ then = "finish"
    /\ retry' = (needsResync \/ store # {})
    /\ pc' = "loop" /\ then' = "loop" /\ cursor' = NoCursor
    /\ UNCHANGED <<server, socket, channel, db, registered, gapCheck, short, control, lapses, slow, listing>>

-----------------------------------------------------------------------------
(* What starts a resync *)

ShouldResyncForRemote == needsResync \/ Len(log) > Max({watermark, 0})

(* A gap-check that cannot read the remote id goes by the flag alone. *)
RunGapCheck ==
    /\ \/ /\ pc' = IF ShouldResyncForRemote THEN "resync" ELSE "loop"
          /\ lapses' = IF live THEN lapses \ {"gap"} ELSE lapses
       \/ /\ "gap read" \in Faults /\ MaybeRunResync(needsResync)
          /\ lapses' = IF needsResync THEN lapses ELSE lapses \cup {"gap"}
    /\ UNCHANGED <<server, socket, channel, db, registered, retry, short, control, drain, listing>>

(* At the top of the run loop.  One that became due while the last one ran *)
(* its resync waits for the next turn, so the select may come before it.   *)
GapCheckDue ==
    /\ pc = "loop" /\ gapCheck = "due" /\ ~Stopping
    /\ gapCheck' = "done"
    /\ RunGapCheck

CatchUp ==
    /\ Quiet /\ "catch up" \in Calls
    /\ RunGapCheck
    /\ UNCHANGED gapCheck

ResyncRetry ==
    /\ Quiet /\ retry
    /\ retry' = FALSE
    /\ MaybeRunResync(needsResync)
    /\ UNCHANGED <<server, socket, channel, db, registered, gapCheck, short, control, lapses, drain, listing>>

(* SHORT_ROOTS_SETTLE after the last event that left roots short, when the *)
(* server has settled about them                                           *)
RelistShortRoots ==
    /\ Quiet /\ short # {}
    /\ \A id \in lagging : id > watermark
    /\ short' = {}
    /\ MarkNeedsResync
    /\ MaybeRunResync(needsResync')
    /\ UNCHANGED <<server, socket, channel, registered, gapCheck, retry, control, drain, listing,
                   rows, store, watermark, listed, converged, stale>>

HeldWhole == IF listed.stamp = watermark THEN listed.roots ELSE {}

(* process_control_burst serves every message that waits, then converges    *)
(* the roots they added.                                                   *)
Serving(ops) == pc \in {"loop", "burst"} /\ ctl # <<>> /\ Head(ctl).op \in ops

Served == ctl' = Tail(ctl) /\ pc' = "burst"

(* handle_add_sync_root *)
AddSyncRoot ==
    /\ Serving({"add"})
    /\ registered' = registered \cup {Head(ctl).root}
    /\ fresh' = fresh \cup {Head(ctl).root}
    /\ stale' = stale \cup (converged \cap {Head(ctl).root})
    /\ Served
    /\ UNCHANGED <<server, socket, channel, gapCheck, retry, short, lapses, drain, listing,
                   rows, store, watermark, needsResync, listed, converged>>

(* A root that cannot be validated is refused. *)
RejectSyncRoot ==
    /\ Serving({"add"}) /\ "read" \in Faults
    /\ Served
    /\ UNCHANGED <<server, socket, channel, db, registered, gapCheck, retry, short, fresh, lapses,
                   drain, listing>>

(* What a failed write leaves undone is not tried again; a registration    *)
(* that was refused has nothing to remove.                                 *)
RemoveRegistration ==
    /\ Serving({"remove", "evict"})
    /\ LET r == Head(ctl).root IN
         /\ registered' = registered \ {r}
         /\ stale' = stale \ {r}
         /\ \/ /\ r \in registered
               /\ converged' = converged \ {r}
               /\ IF Head(ctl).op = "evict"
                  THEN rows' = [rows EXCEPT ![r] = {}] /\ listed' = NoRoots
                  ELSE UNCHANGED <<rows, listed>>
            \/ /\ r \in registered => "db remove" \in Faults
               /\ converged' \in {converged, converged \ ({r} \cap registered)}
               /\ UNCHANGED <<rows, listed>>
    /\ Served
    /\ UNCHANGED <<server, socket, channel, gapCheck, retry, short, fresh, lapses, drain, listing,
                   store, watermark, needsResync>>

(* Messages behind it are not served. *)
Shutdown ==
    /\ Serving({"shutdown"})
    /\ DrainPending("exit")
    /\ UNCHANGED control

(* converge_listed_roots: new roots the cache holds whole as the drive     *)
(* stands now need no relist, those a later message of the burst removed   *)
(* again included.                                                         *)
ConvergeNewRoots ==
    /\ pc = "burst" /\ ctl = <<>>
    /\ fresh' = {}
    /\ LET current == fresh \subseteq HeldWhole /\ ~ShouldResyncForRemote
       IN  \/ /\ fresh = {} \/ current
              /\ converged' = converged \cup fresh /\ stale' = stale \ fresh
              /\ pc' = "loop" /\ UNCHANGED <<needsResync, lapses>>
           \/ /\ fresh # {} /\ (current => Faults \cap {"read", "db"} # {})
              /\ MarkNeedsResync /\ pc' = "resync" /\ UNCHANGED <<converged, stale>>
    /\ UNCHANGED <<server, socket, channel, registered, gapCheck, retry, short, ctl, drain, listing,
                   rows, store, watermark, listed>>

Exit ==
    /\ pc = "exit"
    /\ LoseMemory

-----------------------------------------------------------------------------
(* run_resync *)

StartResync ==
    /\ pc = "resync" /\ registered # {}
    /\ converged' = {} /\ stale' = {}
    /\ lapses' = lapses \ {"resync"}
    /\ pc' = "wait"
    /\ UNCHANGED <<server, socket, channel, registered, gapCheck, retry, short, control, drain, listing,
                   rows, store, watermark, needsResync, listed>>

(* The record cannot be cleared, and nothing is armed. *)
StartFails ==
    /\ pc = "resync" /\ "db" \in Faults
    /\ pc' = "loop"
    /\ lapses' = {"gap", "resync"}
    /\ UNCHANGED <<server, socket, channel, db, registered, gapCheck, retry, short, control,
                   drain, listing>>

(* No roots: nothing to list, the watermark jumps to the remote id. *)
JumpWatermark ==
    /\ pc = "resync" /\ registered = {}
    /\ converged' = {} /\ stale' = {}
    /\ \/ /\ watermark' = Len(log) /\ needsResync' = FALSE /\ listed' = NoRoots
          /\ retry' = FALSE /\ UNCHANGED lapses
       \/ /\ Faults \cap {"read", "db"} # {}
          /\ MarkNeedsResync /\ retry' = TRUE /\ UNCHANGED <<watermark, listed>>
    /\ pc' = "loop"
    /\ UNCHANGED <<server, socket, channel, registered, gapCheck, short, control, drain, listing,
                   rows, store>>

(* Mutant: an aborted attempt arms the timer but does not set the flag. *)
MAbort(arm) ==
    /\ retry' = (retry \/ arm)
    /\ pc' = "loop"
    /\ listing' = NoListing
    /\ UNCHANGED <<server, socket, channel, registered, gapCheck, short, control, lapses, drain, db>>

(* abort_resync_unconverged *)
Abort(arm) ==
    /\ MarkNeedsResync
    /\ retry' = (retry \/ arm)
    /\ pc' = "loop"
    /\ listing' = NoListing
    /\ UNCHANGED <<server, socket, channel, registered, gapCheck, short, control, drain,
                   rows, store, watermark, listed, converged, stale>>

(* Events are drained while the drive lock is awaited. *)
WaitDrain ==
    /\ pc = "wait" /\ chan # <<>>
    /\ DrainPending("wait")
    /\ UNCHANGED control

(* The lock stays contended, or a control message waits. *)
WaitAborts ==
    /\ pc = "wait"
    /\ "lock" \in Faults \/ ctl # <<>>
    /\ Abort(TRUE)

(* Mutant: the drive id is read first, and the lock is awaited after that. *)
MLockAcquired ==
    /\ pc = "wait"
    /\ \/ listing.at = 0 /\ listing' = [listing EXCEPT !.at = Len(log)] /\ pc' = "wait"
       \/ listing.at # 0 /\ pc' = "listing" /\ UNCHANGED listing
    /\ UNCHANGED <<server, socket, channel, db, memory, drain>>

(* Under the lock the drive id is read, before any root is listed. *)
LockAcquired ==
    /\ pc = "wait"
    /\ listing' = [listing EXCEPT !.at = Len(log)]
    /\ pc' = "listing"
    /\ UNCHANGED <<server, socket, channel, db, memory, drain>>

ReadSnapshotFails ==
    /\ pc = "wait" /\ "read" \in Faults
    /\ Abort(TRUE)

(* The roots that do not fail are listed; with none, there is nothing to   *)
(* commit.                                                                 *)
ListRoots ==
    /\ pc = "listing"
    /\ \E ok \in (IF "listing" \in Faults THEN SUBSET registered ELSE {registered}) \ {{}} :
         listing' = [listing EXCEPT
                       !.of = [r \in Roots |-> IF r \in ok
                                               THEN Changes(r, Len(log)) \ lagging ELSE {}],
                       !.todo = ok, !.transient = ok # registered]
    /\ listed' = NoRoots
    /\ pc' = "apply"
    /\ UNCHANGED <<server, socket, channel, memory, drain,
                   rows, store, watermark, needsResync, converged, stale>>

ListNothing ==
    /\ pc = "listing" /\ "listing" \in Faults
    /\ listed' = NoRoots
    /\ retry' = needsResync
    /\ lapses' = IF needsResync THEN lapses ELSE {"gap", "resync"}
    /\ pc' = "loop" /\ listing' = NoListing
    /\ UNCHANGED <<server, socket, channel, registered, gapCheck, short, control, drain,
                   rows, store, watermark, needsResync, converged, stale>>

(* A stop ends the listing and lets the lock go. *)
StopListing ==
    /\ pc = "listing" /\ Stopping
    /\ Abort(FALSE)

(* compute_resync_synthetics: where the rows of r and its listing differ *)
Diff(r) == (rows[r] \ listing.of[r]) \cup (listing.of[r] \ rows[r])

(* The diff of a root lands in chunks, before anything is recorded. *)
ApplySynthetics(r) ==
    /\ pc = "apply" /\ r \in listing.todo
    /\ \E id \in Diff(r) :
         rows' = [rows EXCEPT ![r] = IF id \in @ THEN @ \ {id} ELSE @ \cup {id}]
    /\ UNCHANGED <<server, socket, channel, memory, pc, drain, listing,
                   store, watermark, needsResync, listed, converged, stale>>

(* Only some of the failures set the flag. *)
ApplyFails ==
    /\ pc \in {"listing", "apply"} /\ "db" \in Faults
    /\ MarkNeedsResync
    /\ retry' = TRUE
    /\ pc' = "loop" /\ listing' = NoListing
    /\ UNCHANGED <<server, socket, channel, registered, gapCheck, short, control, drain,
                   rows, store, watermark, listed, converged, stale>>

(* Mutant: a root that waits for its relist is recorded like the others. *)
MCommitResync ==
    /\ pc = "apply" /\ \A r \in listing.todo : Diff(r) = {}
    /\ watermark' = listing.at
    /\ needsResync' = listing.transient
    /\ converged' = listing.todo /\ stale' = {}
    /\ listed' = [stamp |-> listing.at, roots |-> listing.todo]
    /\ pc' = "drain" /\ then' = "finish"
    /\ cursor' = [frontier |-> listing.at, broken |-> FALSE]
    /\ listing' = NoListing
    /\ UNCHANGED <<server, socket, channel, memory, slow, rows, store>>

(* The watermark, the flag and both records, in one transaction; then what *)
(* was persisted meanwhile is drained.                                     *)
CommitResync ==
    /\ pc = "apply" /\ \A r \in listing.todo : Diff(r) = {}
    /\ watermark' = listing.at
    /\ needsResync' = listing.transient
    /\ converged' = listing.todo \ short /\ stale' = {}
    /\ listed' = IF converged' = {} THEN NoRoots
                 ELSE [stamp |-> listing.at, roots |-> converged']
    /\ pc' = "drain" /\ then' = "finish"
    /\ cursor' = [frontier |-> listing.at, broken |-> FALSE]
    /\ listing' = NoListing
    /\ UNCHANGED <<server, socket, channel, memory, slow, rows, store>>

-----------------------------------------------------------------------------
Environment ==
    \/ \E r \in Roots, kind \in Kinds : Change(r, kind)
    \/ \E id \in Ids : Settle(id)
    \/ Subscribe \/ Disconnect \/ Deliver \/ DropEvent \/ LatchShed
    \/ Control \/ Boot \/ Crash

Worker ==
    \/ EventArm \/ DrainBatch \/ DrainBatchAborts \/ ApplyAlone \/ Quarantine
    \/ CommitDrainBatch \/ DrainPendingEnds \/ ResyncDrainEnds
    \/ GapCheckDue \/ CatchUp \/ ResyncRetry \/ RelistShortRoots
    \/ AddSyncRoot \/ RejectSyncRoot \/ RemoveRegistration \/ ConvergeNewRoots \/ Shutdown \/ Exit
    \/ StartResync \/ StartFails \/ JumpWatermark \/ WaitDrain \/ WaitAborts \/ LockAcquired
    \/ ReadSnapshotFails \/ ListRoots \/ ListNothing \/ StopListing
    \/ (\E r \in Roots : ApplySynthetics(r)) \/ ApplyFails \/ CommitResync

Next == Environment \/ Worker
Spec == Init /\ [][Next]_vars

-----------------------------------------------------------------------------
(* Properties *)

Marks  == {None} \cup 0..Len(log)
Record == [stamp : 0..MAX_ID, roots : SUBSET Roots]
Cursor == [frontier : Marks, broken : BOOLEAN]
Listing ==
    [at : 0..Len(log), of : [Roots -> SUBSET (1..Len(log))],
     todo : SUBSET Roots, transient : BOOLEAN]
Message == [kind : {"drive"}, id : Ids] \cup {ResyncSignal, Connected}
ControlMessage ==
    {[op |-> "shutdown"]} \cup [op : {"add", "remove", "evict"}, root : Roots]

(* The types of the variables; the channel keeps to its capacity, and no   *)
(* id is recorded that the drive has not reached.                          *)
ServerTypes ==
    /\ log \in Seq([root : Roots, kind : Kinds]) /\ Len(log) <= MAX_ID
    /\ lagging \subseteq 1..Len(log) /\ sent \in 0..Len(log) /\ due \in 0..Len(log)

ChannelTypes ==
    /\ chan \in Seq(Message) /\ Len(chan) <= EVENT_SHED_CAP
    /\ \A i \in DOMAIN chan : chan[i].id <= Len(log)

FlagTypes ==
    /\ live \in BOOLEAN /\ shed \in BOOLEAN /\ latching \in BOOLEAN
    /\ needsResync \in BOOLEAN /\ retry \in BOOLEAN

DbTypes ==
    /\ rows \in [Roots -> SUBSET (1..Len(log))] /\ store \subseteq 1..Len(log)
    /\ watermark \in Marks /\ listed \in Record /\ converged \subseteq Roots
    /\ stale \subseteq converged

WorkerTypes ==
    /\ pc \in {"off", "drain", "slow", "loop", "burst", "resync", "wait", "listing", "apply", "exit"}
    /\ then \in {"loop", "maybe", "wait", "exit", "finish"}
    /\ registered \subseteq Roots /\ gapCheck \in {"awaiting", "due", "done"}
    /\ short \subseteq Roots /\ fresh \subseteq Roots /\ lapses \subseteq {"gap", "resync"}
    /\ ctl \in Seq(ControlMessage) /\ Len(ctl) <= MAX_CONTROL

DrainTypes == cursor \in Cursor /\ slow \subseteq store /\ listing \in Listing

TypeOK ==
    /\ ServerTypes /\ ChannelTypes /\ FlagTypes /\ DbTypes /\ WorkerTypes /\ DrainTypes

(* The changes of a root its rows are to show: all but those a listing may *)
(* leave out because the server lists them late                            *)
Promised(r, n) == {id \in Changes(r, n) : log[id].kind = "restore" => "lag" \notin Faults}

(* A sync pass may plan against the rows of its root while that is in the  *)
(* converged-roots record: they show every change up to the watermark,     *)
(* whatever was dropped, shed, quarantined or interrupted on the way.  The *)
(* exception is a root that was still in the record when it was added      *)
(* again (converged_roots_on, sql/event/mod.rs).                           *)
ConvergedIsWhole ==
    \A r \in (converged \cap registered) \ stale : Promised(r, watermark) \subseteq rows[r]

(* So does a root of the listed-roots record while its stamp is the        *)
(* watermark, registered or not, over restarts too: an add relies on it to *)
(* skip the relist (listed_roots_on).                                      *)
HeldIsWhole == \A r \in HeldWhole : Promised(r, watermark) \subseteq rows[r]

(* A root an event left short of the remote joins the converged-roots      *)
(* record again only after its relist was due: an earlier resync may have  *)
(* listed it before the server settled (hold_short, apply_resync).         *)
ShortRootsWait == [][(converged' \ converged) \cap short = {}]_vars

(* An event leaves the store only below the watermark, or with a resync    *)
(* recorded in the same transaction (commit_drain_batch); and what the     *)
(* watermark covers it covers for good: a resync commits the id it read    *)
(* under the lock, which no drain may have passed (run_resync).            *)
ConsumedIsAccounted ==
    [][/\ \A id \in store \ store' : id <= watermark' \/ needsResync'
       /\ watermark' >= watermark]_vars

(* Nothing is left for the run loop to do until something arrives. *)
Idle == Quiet /\ gapCheck # "due" /\ ~retry /\ short = {} /\ ~latching

(* An idle worker that is subscribed has accounted for every change there  *)
(* was when it subscribed, and every change it was told of since: missed   *)
(* events cost a resync and are not forgotten, unless a write, a read or a *)
(* listing failed just where the worker was to note or to look for them,   *)
(* or the notice waits for the next event: in the shed latch, in the store *)
(* (run, drain_pending, run_gap_check).                                    *)
IdleIsCaughtUp ==
    Idle /\ live /\ "gap" \notin lapses /\ ~shed /\ store = {} => Max({watermark, 0}) >= due

(* An idle worker has converged every registered root: an attempt that did *)
(* not is retried, on a quiet account too, unless the flag it goes by is   *)
(* not set (schedule_retry_if_unconverged, finalize_resync).               *)
IdleIsConverged == Idle /\ "resync" \notin lapses => registered \subseteq converged

(* A resync has cleared the converged-roots record and not written it yet *)
Resyncing ==
    \/ pc \in {"wait", "listing", "apply"}
    \/ pc \in {"drain", "slow"} /\ then = "wait"

(* Where the worker is says how far its drain and its listing are, and     *)
(* which records stand (drain_persisted, run_resync)                       *)
WorkerShape ==
    /\ pc = "off" => registered = {}
    /\ slow # {} => pc = "slow"
    /\ pc = "drain" => cursor.frontier = watermark
    /\ pc = "slow" => watermark <= cursor.frontier
    /\ pc \in {"listing", "apply"} => watermark <= listing.at
    /\ pc = "apply" => listed.roots = {} /\ listing.todo \subseteq registered
    /\ Resyncing \/ watermark = None => converged = {}

(* An event of the batch that is applied one by one is below the frontier, *)
(* still to come, or has broken it (apply_drain_batch)                     *)
SlowIsAccounted ==
    pc = "slow" => \A id \in Batch : id <= cursor.frontier \/ id \in slow \/ cursor.broken

(* What the frontier has passed is in the rows of the registered roots     *)
(* before it becomes the watermark                                         *)
SlowIsWhole ==
    pc = "slow" => \A r \in registered \cap ((converged \ stale) \cup HeldWhole) :
                     Promised(r, cursor.frontier) \subseteq rows[r]

(* A listing shows all that was there when the drive id was read           *)
ListingIsWhole ==
    pc = "apply" => \A r \in listing.todo : Promised(r, listing.at) \subseteq listing.of[r]

(* Both records claim only what the rows show. *)
RecordInvariant ==
    /\ TypeOK /\ WorkerShape /\ SlowIsAccounted /\ SlowIsWhole /\ ListingIsWhole
    /\ ConvergedIsWhole /\ HeldIsWhole
=============================================================================
