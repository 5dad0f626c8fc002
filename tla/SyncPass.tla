------------------------------- MODULE SyncPass -------------------------------
(***************************************************************************)
(* A pass over one file of a two-way pair: it scans the disk, reads the    *)
(* cache's snapshot of the remote, corrects it with the engine's own       *)
(* unacknowledged writes, decides from the two sides and the baseline row, *)
(* and applies the decision in steps a cancel or a crash may cut.          *)
(*                                                                         *)
(* Sources: filen-sdk-rs/src/sync_engine/plan/mod.rs (the decision),       *)
(* engine/mod.rs (PendingWrites, confirmation, resolve_conflict), guard.rs *)
(* and apply/mod.rs (the transfers and their records), io/client_impl.rs.  *)
(*                                                                         *)
(* The server's history of the path is a sequence: what the path held,     *)
(* change by change.  A version's uuid is its place there, and a lineage   *)
(* starts after each deletion.  A content is a number and 0 is nothing;    *)
(* every edit makes a content of its own unless it repeats one.  The pair  *)
(* has had its first clean pass and tracks OTHER_ITEMS more items, which   *)
(* do not change.  Directories, moves and one-way modes are left out;      *)
(* every pass reads both sides whole, how a narrower one is chosen is in   *)
(* PairChanges.                                                            *)
(***************************************************************************)
EXTENDS Naturals, Sequences, FiniteSets, FiniteSetsExt, SequencesExt

CONSTANTS
    OTHER_ITEMS,  \* items of the pair besides this file, settled
    GUARD_LIMIT,  \* most deletions a pass applies without approval
    RACES,        \* races let in: "undo", "swift", "unseen" and "listed"
    MAX_EDITS,    \* edits and deletions made by either side's user
    MAX_EVENTS    \* faults: crashes, cut steps, failed lookups, bad reads, resolutions

ASSUME SyncAssumption ==
    /\ OTHER_ITEMS \in Nat \ {0} /\ GUARD_LIMIT \in Nat \ {0}
    /\ RACES \subseteq {"undo", "swift", "unseen", "listed"}
    /\ {MAX_EDITS, MAX_EVENTS} \subseteq Nat

VARIABLES
    disk,     \* the content of the local file, 0 for no file
    log,      \* the server's history of the path
    pos,      \* how much of it the cache holds
    heard,    \* uuids the cache announced since this engine recorded them
    minted,   \* uuids this process's uploads were answered with
    stood,    \* uuids that stood as the head for CONFIRM_TENURE
    entry,    \* the baseline row
    journal,  \* the pending writes, in memory and in the baseline store
    bin,      \* contents kept in the quarantine bin or aside
    work,     \* the pass under way
    edits,    \* contents made so far
    faults,   \* faults so far
    ghost     \* what the users did, for the properties

syncVars == <<disk, log, pos, heard, minted, stood, entry, journal, bin, work, edits, faults, ghost>>

Nothing == 0

Contents == 0 .. MAX_EDITS + 1

NoRow == [state |-> "None", uuid |-> 0, content |-> Nothing, agreed |-> Nothing,
          remote |-> Nothing]

Newest == Len(log)

ContentOf(u) == IF u = 0 THEN Nothing ELSE log[u].content

\* The uuid of what the path holds after the first n changes.
VersionAt(n) == IF n = 0 \/ log[n].content = Nothing THEN 0 ELSE n

Lineage(u) == Max({i \in 0 .. u : i = 0 \/ log[i].content = Nothing})

SameLineage(u, v) == u # 0 /\ v # 0 /\ Lineage(u) = Lineage(v)

NoNode == [uuid |-> 0, content |-> Nothing]

NodeAt(n) == [uuid |-> VersionAt(n), content |-> ContentOf(VersionAt(n))]

NoPass == [pc |-> "idle", scan |-> Nothing, complete |-> TRUE, heard |-> {},
           view |-> NoNode, base |-> NoRow, trusted |-> TRUE, got |-> Nothing,
           stashed |-> Nothing]

----------------------------------------------------------------------------
(* The decision at the path: plan/mod.rs.                                  *)

classify_local(local, base) ==
    IF base = NoRow THEN (IF local = Nothing THEN "Absent" ELSE "Created")
    ELSE CASE local = Nothing -> "Deleted"
           [] local # Nothing /\ local = base.content -> "Unchanged"
           [] OTHER -> "Modified"

\* The same version, or another of the same file with the content recorded.
classify_remote(node, base) ==
    IF base = NoRow THEN (IF node.uuid = 0 THEN "Absent" ELSE "Created")
    ELSE CASE node.uuid = 0 -> "Deleted"
           [] /\ node.uuid # 0
              /\ \/ node.uuid = base.uuid
                 \/ SameLineage(node.uuid, base.uuid) /\ node.content = base.content -> "Unchanged"
           [] OTHER -> "Modified"

changed(side) == side \in {"Created", "Modified", "Deleted"}

push_to_remote(local, node) ==
    CASE local = Nothing /\ node.uuid # 0 -> "trash"
      [] local # Nothing /\ local # node.content -> "upload"
      [] OTHER -> "adopt"

pull_to_local(local, node) ==
    CASE node.uuid = 0 /\ local # Nothing -> "delete"
      [] node.uuid # 0 /\ local # node.content -> "download"
      [] OTHER -> "adopt"

\* A foreign version of the same file over a push nothing has confirmed.
is_unconfirmed_concurrent_edit(local, node, base) ==
    /\ local # Nothing /\ node.uuid # 0 /\ base # NoRow
    /\ base.content # base.agreed
    /\ base.uuid # node.uuid /\ SameLineage(base.uuid, node.uuid)
    /\ base.content # Nothing /\ base.content # node.content

reconcile_two_way(local, node, base) ==
    LET here == changed(classify_local(local, base))
        there == changed(classify_remote(node, base))
    IN CASE ~here /\ ~there -> "none"
         [] here /\ ~there -> push_to_remote(local, node)
         [] ~here /\ there ->
              IF is_unconfirmed_concurrent_edit(local, node, base)
              THEN "conflict" ELSE pull_to_local(local, node)
         [] OTHER -> IF local = node.content THEN "adopt" ELSE "conflict"

\* A row held in conflict is reported again and never acted on.
decide_path(local, node, base) ==
    IF base.state \in {"Conflicted", "Overwritten"} THEN "conflict"
    ELSE reconcile_two_way(local, node, base)

\* A deletion of an item this engine already trashed is dropped.
finish_plan(action, node, trashed) ==
    IF action = "trash" /\ node.uuid \in trashed THEN "none" ELSE action

\* Mutant for Converges: a deletion at the limit is held.
held_by_guard_at_limit(complete, emptied) ==
    LET deletions == IF emptied THEN OTHER_ITEMS + 1 ELSE 1
    IN ~complete \/ (emptied /\ deletions > 1) \/ deletions >= GUARD_LIMIT

\* Whether the guard holds the deletion planned here.  A listing that came back
\* empty plans the deletion of every other item too.
held_by_guard(complete, emptied) ==
    LET deletions == IF emptied THEN OTHER_ITEMS + 1 ELSE 1
    IN \/ ~complete
       \/ emptied /\ deletions > 1
       \/ deletions > GUARD_LIMIT

----------------------------------------------------------------------------
(* The engine's own writes: PendingWrites, engine/mod.rs.                  *)

\* The records the cache has demonstrably caught up to are dropped.
settle(announced, raw) ==
    LET waits(w) == /\ w.uuid \notin announced
                    /\ IF w.kind = "Created" THEN raw.uuid # w.uuid ELSE raw.uuid = w.uuid
    IN SelectSeq(journal, waits)

written_node(base) == [uuid |-> base.uuid, content |-> base.content]

\* A create whose path shows another version of the same file, neither what was
\* written nor what it replaced.
strangers(writes, base, raw) ==
    {w \in ToSet(writes) :
        /\ w.kind = "Created" /\ base.uuid # 0
        /\ raw.uuid \notin {0, base.uuid, w.uuid, w.replaced}
        /\ SameLineage(raw.uuid, base.uuid)}

\* One lookup of the head, where a stranger stands; `answered` or not.
retire_superseded_creates(writes, base, raw, answered) ==
    LET kept(w) == w \notin strangers(writes, base, raw)
    IN IF answered /\ VersionAt(Newest) # base.uuid THEN SelectSeq(writes, kept) ELSE writes

fold_create(w, base, node) ==
    IF /\ base.uuid # 0 /\ node.uuid # base.uuid
       /\ \/ node.uuid \in {0, w.uuid}
          \/ w.replaced # 0 /\ node.uuid = w.replaced
          \/ SameLineage(node.uuid, base.uuid)
    THEN written_node(base) ELSE node

fold_trash(w, node) == IF w.uuid = node.uuid THEN NoNode ELSE node

\* Oldest first: a later write at the path lands on top.
fold_into(writes, base, raw) ==
    LET fold(node, w) == IF w.kind = "Created" THEN fold_create(w, base, node)
                                               ELSE fold_trash(w, node)
    IN FoldLeft(fold, raw, writes)

\* One record for a uuid.
record(uuid, kind, replaced) ==
    LET other(w) == w.uuid # uuid
    IN Append(SelectSeq(journal, other), [uuid |-> uuid, kind |-> kind, replaced |-> replaced])

\* The snapshot lists the row's own version, or the version stood its tenure.
confirm(base, raw, answered) ==
    IF /\ base.state = "Synced" /\ base.content # base.agreed /\ base.uuid # 0
       /\ raw.uuid = base.uuid \/ (answered /\ base.uuid \in stood)
    THEN [base EXCEPT !.agreed = base.content] ELSE base

----------------------------------------------------------------------------
(* The two users, the cache and time.                                      *)

Fault(n) == faults' = faults + n /\ faults + n <= MAX_EVENTS

Fresh == edits + 2

Repeatable == IF "undo" \in RACES THEN 1 .. edits + 1 ELSE {}

\* After the download's look at the path, unless it will look there again.
InFetchWindow == work.pc = "stashed" \/ (work.pc = "fetching" /\ work.got = Nothing)

LocalEdit ==
    /\ edits < MAX_EDITS
    /\ \E c \in {Fresh} \cup Repeatable :
         /\ c # disk
         /\ disk' = c
         /\ ghost' = [ghost EXCEPT !.mine = @ \cup {c},
                                   !.raced = IF InFetchWindow THEN @ \cup {c} ELSE @,
                                   !.dropped = (@ \cup {disk}) \ {c, Nothing}]
    /\ edits' = edits + 1
    /\ UNCHANGED <<log, pos, heard, minted, stood, entry, journal, bin, work, faults>>

\* No deletion of what this engine is uploading, or the cache has yet to list.
LocalDelete ==
    /\ edits < MAX_EDITS /\ disk # Nothing
    /\ "swift" \in RACES \/ /\ work.pc \notin {"upload", "uploaded"}
                            /\ \A n \in pos + 1 .. Newest : log[n].by \notin {"us", "restored"}
    /\ disk' = Nothing
    /\ edits' = edits + 1
    /\ ghost' = [ghost EXCEPT !.dropped = @ \cup {disk},
                              !.goneHere = @ \cup ({entry.content} \ {Nothing})]
    /\ UNCHANGED <<log, pos, heard, minted, stood, entry, journal, bin, work, faults>>

\* The other client has seen a version this engine's cache has shown, or one
\* that stood its tenure; only over another may it write unawares.
KnownToOthers(u) ==
    \E v \in 1 .. u : /\ ContentOf(v) = ContentOf(u)
                      /\ log[v].by # "us" \/ v <= ghost.shown \/ v \in stood

\* The very edit made here, made there too.
SameHere == ({disk} \cap ghost.mine) \ {ContentOf(u) : u \in 1 .. Newest}

OtherEdit ==
    /\ edits < MAX_EDITS
    /\ \E c \in {Fresh} \cup Repeatable \cup SameHere, by \in {"them", "beside"} :
         /\ c # ContentOf(VersionAt(Newest))
         /\ by = "beside" => VersionAt(Newest) # 0 /\ ~KnownToOthers(Newest)
         /\ log' = Append(log, [content |-> c, by |-> by])
         /\ ghost' = [ghost EXCEPT !.theirs = @ \cup {c},
                        !.dropped = IF by = "beside" THEN @ \ {c}
                                    ELSE (@ \cup {ContentOf(VersionAt(Newest))}) \ {c, Nothing}]
    /\ edits' = edits + 1
    /\ UNCHANGED <<disk, pos, heard, minted, stood, entry, journal, bin, work, faults>>

\* Of a version the cache has yet to show, or under an upload of this engine,
\* only with the race "unseen".
OtherDelete ==
    /\ edits < MAX_EDITS /\ VersionAt(Newest) # 0
    /\ "unseen" \in RACES \/ (pos = Newest /\ work.pc # "upload")
    /\ log' = Append(log, [content |-> Nothing, by |-> "them"])
    /\ edits' = edits + 1
    /\ ghost' = [ghost EXCEPT !.dropped = @ \cup {ContentOf(Newest)},
                              !.goneThere = @ \cup ({ContentOf(Newest)} \cap {entry.content})]
    /\ UNCHANGED <<disk, pos, heard, minted, stood, entry, journal, bin, work, faults>>

CacheAnnounces(to, versions) ==
    /\ heard' = heard \cup ({VersionAt(n) : n \in versions} \ {0})
    /\ pos' = to
    /\ ghost' = [ghost EXCEPT !.shown = Max({@, to})]
    /\ UNCHANGED <<disk, log, minted, stood, entry, journal, bin, work, edits>>

\* Another client's edit, made beside what this engine has just written at n.
Raced(n) == \E m \in n + 1 .. Newest : /\ log[m].by = "beside"
                                       /\ \A i \in n .. m - 1 : log[i].by = "us"

\* One event after another, each announcing the version it brings and the one it
\* ends.  What raced comes in one batch.
CacheStep ==
    /\ pos < Newest
    /\ LET to == Min({n \in pos + 1 .. Newest : "listed" \in RACES \/ ~Raced(n)})
       IN CacheAnnounces(to, pos .. to)
    /\ UNCHANGED faults

\* A listing that skips what came and went in between.
CacheResync == pos + 1 < Newest /\ CacheAnnounces(Newest, {pos, Newest}) /\ Fault(1)

\* CONFIRM_TENURE passes over the head.  The cache, which times it by what it
\* announces, is taken to follow the server within it.
TenurePasses ==
    /\ VersionAt(Newest) \notin stood \cup {0}
    /\ stood' = stood \cup {Newest}
    /\ Fault(1)
    /\ UNCHANGED <<disk, log, pos, heard, minted, entry, journal, bin, work, edits, ghost>>

\* The cache has yet to show this write of the engine.
Unseen(w) == pos < w.uuid + (IF w.kind = "Trashed" THEN 1 ELSE 0)

\* PENDING_CREATE_GRACE runs out on a record, whatever the cache shows by then.
expire ==
    /\ \E i \in DOMAIN journal :
         /\ journal' = RemoveAt(journal, i)
         /\ Fault(IF Unseen(journal[i]) THEN 1 ELSE 0)
         /\ ghost' = [ghost EXCEPT !.lapsed = @ \/ Unseen(journal[i])]
    /\ UNCHANGED <<disk, log, pos, heard, minted, stood, entry, bin, work, edits>>

\* Versions of the file the upload landed in, later than the one it meant to
\* replace and not this process's own.
Interleaved(ours, replaced) ==
    IF replaced = 0 \/ ~SameLineage(ours, replaced) THEN {}
    ELSE {u \in replaced + 1 .. Newest : u # ours /\ SameLineage(u, ours) /\ u \notin minted}

\* What the upload went on top of that no row will name: the version chain is
\* not read or holds no version the pass had seen, the earliest edit under the
\* upload is the very same one, or this is a later edit.
Overlooked(answered) ==
    LET late == Interleaved(work.got, work.view.uuid)
    IN {ContentOf(u) : u \in {v \in work.view.uuid + 1 .. work.got - 1 :
        /\ log[v].by # "us" /\ SameLineage(v, work.got)
        /\ \/ ~answered \/ late = {}
           \/ ContentOf(Min(late)) = work.scan
           \/ v > Min(late)}}

\* What a step put on a side and no row will say.
Unrecorded == CASE work.pc = "uploaded" -> {ContentOf(work.got)}
                [] work.pc = "downloaded" -> {work.view.content}
                [] OTHER -> {}

CutShort == [ghost EXCEPT !.unrecorded = @ \cup Unrecorded,
                          !.overlooked = @ \cup (IF work.pc = "uploaded"
                                                 THEN Overlooked(FALSE) ELSE {})]

\* The journal and the rows are in the store; the announcements go.
Crash ==
    /\ Fault(1)
    /\ work' = NoPass /\ heard' = {} /\ minted' = {}
    /\ ghost' = CutShort
    /\ UNCHANGED <<disk, log, pos, stood, entry, journal, bin, edits>>

----------------------------------------------------------------------------
(* A pass reads: prepare_whole.                                            *)

\* The announcements are copied before the snapshot is read; the walk runs
\* alongside.  A scan that could not read the file shows none.
ReadLocal ==
    /\ work.pc = "idle"
    /\ \E complete \in BOOLEAN :
         /\ IF complete THEN UNCHANGED faults ELSE disk # Nothing /\ Fault(1)
         /\ work' = [NoPass EXCEPT !.pc = "scanned", !.heard = heard, !.complete = complete,
                                   !.scan = IF complete THEN disk ELSE Nothing]
    /\ UNCHANGED <<disk, log, pos, heard, minted, stood, entry, journal, bin, edits, ghost>>

record_conflict(local, node, base) ==
    IF base.state = "Overwritten" THEN base
    ELSE [state |-> "Conflicted", uuid |-> node.uuid, content |-> local,
          agreed |-> Nothing, remote |-> node.content]

\* The snapshot, what it confirms and retires, and the screened plan.
Plans(emptied, answered) ==
    LET raw == IF emptied THEN NoNode ELSE NodeAt(pos)
        base == confirm(entry, raw, answered)
        settled == settle(work.heard, raw)
        writes == retire_superseded_creates(settled, base, raw, answered)
        node == fold_into(writes, base, raw)
        trashed == {w.uuid : w \in {v \in ToSet(settled) : v.kind = "Trashed"}}
        action == finish_plan(decide_path(work.scan, node, base), node, trashed)
        held == action \in {"trash", "delete"} /\ held_by_guard(work.complete, emptied)
    IN /\ ~answered =>
            \/ strangers(settled, base, raw) # {}
            \/ entry.content # entry.agreed /\ entry.uuid \in stood
       /\ emptied => pos = Newest /\ NodeAt(pos) # NoNode
       /\ Fault(Cardinality({b \in {<<"emptied", emptied>>, <<"lookup", ~answered>>} : b[2]}))
       /\ journal' = writes
       /\ entry' = IF action = "conflict" THEN record_conflict(work.scan, node, base) ELSE base
       /\ work' = IF action \in {"none", "conflict"} \/ held THEN NoPass
                  ELSE [work EXCEPT !.pc = action, !.view = node, !.base = base, !.heard = {},
                                    !.trusted = work.complete /\ ~emptied]

PlanPass ==
    /\ work.pc = "scanned"
    /\ \E emptied, answered \in BOOLEAN : Plans(emptied, answered)
    /\ UNCHANGED <<disk, log, pos, heard, minted, stood, bin, edits, ghost>>

----------------------------------------------------------------------------
(* A pass applies: apply_one, apply_transfer.                              *)

\* A copy moved out of a download's way goes back, over nothing.
restore_stashed ==
    IF work.stashed # Nothing /\ disk = Nothing
    THEN disk' = work.stashed /\ bin' = bin \ {work.stashed}
    ELSE UNCHANGED <<disk, bin>>

\* A cancel, or an error.  An upload cut off may have landed all the same.
CutOff ==
    /\ work.pc \in {"upload", "uploaded", "trash", "delete", "download", "stashed", "fetching"}
    /\ Fault(1)
    /\ restore_stashed
    /\ work' = NoPass
    /\ ghost' = CutShort
    /\ UNCHANGED <<log, pos, heard, minted, stood, entry, journal, edits>>

\* What is on disk now, whatever the scan saw.
UploadLands ==
    /\ work.pc = "upload"
    /\ IF disk = Nothing THEN work' = NoPass /\ UNCHANGED log
       ELSE /\ log' = Append(log, [content |-> disk, by |-> "us"])
            /\ work' = [work EXCEPT !.pc = "uploaded", !.got = Newest + 1]
    /\ UNCHANGED <<disk, pos, heard, minted, stood, entry, journal, bin, edits, faults, ghost>>

\* The earliest of them, if its content is not the one scanned.
buried_version(ours, replaced, scanned) ==
    LET late == Interleaved(ours, replaced)
    IN IF late = {} \/ ContentOf(Min(late)) = scanned THEN 0 ELSE Min(late)

\* The row and the journal's record in one transaction, or the row that holds
\* the edit the upload buried.
UploadRecorded ==
    /\ work.pc = "uploaded"
    /\ \E answered \in BOOLEAN :
         LET buried == IF answered THEN buried_version(work.got, work.view.uuid, work.scan) ELSE 0
         IN /\ IF answered THEN UNCHANGED faults
               ELSE Interleaved(work.got, work.view.uuid) # {} /\ Fault(1)
            /\ entry' = IF buried # 0
                      THEN [state |-> "Overwritten", uuid |-> buried, content |-> work.scan,
                            agreed |-> Nothing, remote |-> ContentOf(buried)]
                      ELSE [state |-> "Synced", uuid |-> work.got, content |-> work.scan,
                            agreed |-> work.base.agreed, remote |-> Nothing]
            /\ IF buried # 0 THEN UNCHANGED <<journal, heard>>
               ELSE /\ journal' = record(work.got, "Created", work.view.uuid)
                    /\ heard' = heard \ {work.got}
            /\ ghost' = [ghost EXCEPT !.overlooked = @ \cup Overlooked(answered)]
    /\ minted' = minted \cup {work.got}
    /\ work' = NoPass
    /\ UNCHANGED <<disk, log, pos, stood, bin, edits>>

\* A version that is the head no more is answered like one already trashed.
TrashLands ==
    /\ work.pc = "trash"
    /\ log' = IF VersionAt(Newest) = work.view.uuid
              THEN Append(log, [content |-> Nothing, by |-> "us"]) ELSE log
    /\ work' = [work EXCEPT !.pc = "trashed"]
    /\ UNCHANGED <<disk, pos, heard, minted, stood, entry, journal, bin, edits, faults, ghost>>

commit_trash ==
    /\ work.pc = "trashed"
    /\ entry' = NoRow
    /\ journal' = record(work.view.uuid, "Trashed", 0)
    /\ heard' = heard \ {work.view.uuid}
    /\ work' = NoPass
    /\ UNCHANGED <<disk, log, pos, minted, stood, bin, edits, faults, ghost>>

DeleteLocal ==
    /\ work.pc = "delete"
    /\ bin' = bin \cup ({disk} \ {Nothing})
    /\ disk' = Nothing
    /\ work' = [work EXCEPT !.pc = "deleted"]
    /\ UNCHANGED <<log, pos, heard, minted, stood, entry, journal, edits, faults, ghost>>

delete_baseline ==
    /\ work.pc = "deleted"
    /\ entry' = NoRow
    /\ work' = NoPass
    /\ UNCHANGED <<disk, log, pos, heard, minted, stood, journal, bin, edits, faults, ghost>>

\* Mutant for NoLostEdit: judged from the pass's scan.
stash_local_target_scanned ==
    /\ work.pc = "download"
    /\ IF disk # Nothing /\ work.scan # Nothing /\ (work.base = NoRow \/ work.scan # work.base.content)
       THEN /\ bin' = bin \cup {disk} /\ disk' = Nothing
            /\ work' = [work EXCEPT !.pc = "stashed", !.stashed = disk]
       ELSE /\ work' = [work EXCEPT !.pc = "stashed"]
            /\ UNCHANGED <<disk, bin>>
    /\ UNCHANGED <<log, pos, heard, minted, stood, entry, journal, edits, faults, ghost>>

\* A local file the row does not vouch for, read from disk now.
stash_local_target ==
    /\ work.pc = "download"
    /\ IF disk # Nothing /\ (work.base = NoRow \/ disk # work.base.content)
       THEN /\ bin' = bin \cup {disk} /\ disk' = Nothing
            /\ work' = [work EXCEPT !.pc = "stashed", !.stashed = disk]
       ELSE /\ work' = [work EXCEPT !.pc = "stashed"]
            /\ UNCHANGED <<disk, bin>>
    /\ UNCHANGED <<log, pos, heard, minted, stood, entry, journal, edits, faults, ghost>>

\* The content already there is kept; otherwise the file's mtime is noted.
DownloadStarts ==
    /\ work.pc = "stashed"
    /\ work' = IF disk = work.view.content THEN [work EXCEPT !.pc = "downloaded"]
               ELSE [work EXCEPT !.pc = "fetching", !.got = disk]
    /\ UNCHANGED <<disk, log, pos, heard, minted, stood, entry, journal, bin, edits, faults, ghost>>

\* A file that was there and changed since fails the download.
DownloadLands ==
    /\ work.pc = "fetching"
    /\ IF work.got # Nothing /\ disk # work.got
       THEN restore_stashed /\ work' = NoPass /\ UNCHANGED ghost
       ELSE /\ disk' = work.view.content
            /\ work' = [work EXCEPT !.pc = "downloaded"]
            /\ ghost' = [ghost EXCEPT !.goneHere = {}]
            /\ UNCHANGED bin
    /\ UNCHANGED <<log, pos, heard, minted, stood, entry, journal, edits, faults>>

upsert_file_baseline ==
    /\ work.pc = "downloaded"
    /\ entry' = [state |-> "Synced", uuid |-> work.view.uuid, content |-> work.view.content,
               agreed |-> work.view.content, remote |-> Nothing]
    /\ work' = NoPass
    /\ UNCHANGED <<disk, log, pos, heard, minted, stood, journal, bin, edits, faults, ghost>>

\* Mutant for NoResurrection: what a pass did not see counts as gone.
adopt_outcome_trusting ==
    IF work.scan # Nothing /\ work.view.uuid # 0
    THEN [state |-> "Synced", uuid |-> work.view.uuid, content |-> work.view.content,
          agreed |-> work.view.content, remote |-> Nothing]
    ELSE NoRow

\* Both sides hold it: the row says so.  Both lack it: the row goes, if the
\* pass may trust what it did not see.
adopt_outcome ==
    IF work.scan # Nothing /\ work.view.uuid # 0
    THEN [state |-> "Synced", uuid |-> work.view.uuid, content |-> work.view.content,
          agreed |-> work.view.content, remote |-> Nothing]
    ELSE IF work.trusted THEN NoRow ELSE entry

AdoptBaseline ==
    /\ work.pc = "adopt"
    /\ entry' = adopt_outcome
    /\ work' = NoPass
    /\ UNCHANGED <<disk, log, pos, heard, minted, stood, journal, bin, edits, faults, ghost>>

----------------------------------------------------------------------------
(* resolve_conflict.                                                       *)

sides_converged == entry.content # Nothing /\ entry.content = entry.remote

\* The row that makes the losing side read as stale on the next pass.
resolution_entry(winner, local) ==
    LET side(u, c, a) == [state |-> "Synced", uuid |-> u, content |-> c, agreed |-> a,
                          remote |-> Nothing]
        same(x) == IF sides_converged THEN x ELSE 0
    IN CASE winner = "KeepLocal" /\ entry.uuid # 0 ->
              side(entry.uuid, same(entry.content), same(entry.content))
         [] winner = "KeepRemote" /\ local -> side(same(entry.uuid), entry.content, entry.content)
         [] OTHER -> NoRow

\* KeepBoth puts the local copy aside, KeepRemote bins a losing one.
ResolveConflicted(resolution) ==
    /\ entry.state = "Conflicted"
    /\ LET aside == /\ entry.content # Nothing
                    /\ \/ resolution = "KeepBoth"
                       \/ resolution = "KeepRemote" /\ entry.uuid # 0 /\ ~sides_converged
           winner == IF resolution = "KeepBoth" THEN "KeepRemote" ELSE resolution
       IN /\ IF aside THEN bin' = bin \cup ({disk} \ {Nothing}) /\ disk' = Nothing
             ELSE UNCHANGED <<bin, disk>>
          /\ entry' = resolution_entry(winner, entry.content # Nothing /\ ~aside)
    /\ ghost' = [ghost EXCEPT !.goneHere = {}, !.goneThere = {},
                   !.dropped = @ \cup (CASE resolution = "KeepLocal" -> {entry.remote}
                                        [] resolution = "KeepRemote" -> {entry.content}
                                        [] OTHER -> {})]
    /\ UNCHANGED log

\* The buried version is left in the history, fetched beside ours, or restored
\* over the head, with ours put in the bin.
ResolveOverwritten(resolution) ==
    /\ entry.state = "Overwritten"
    /\ resolution = "KeepRemote" => SameLineage(VersionAt(Newest), entry.uuid)
    /\ IF resolution # "KeepRemote" THEN UNCHANGED <<log, disk>>
       ELSE /\ disk' = Nothing
            /\ log' = IF VersionAt(Newest) = entry.uuid THEN log
                      ELSE Append(log, [content |-> entry.remote, by |-> "restored"])
    /\ bin' = bin \cup (CASE resolution = "KeepBoth" -> {entry.remote}
                          [] resolution = "KeepRemote" -> {disk} \ {Nothing}
                          [] OTHER -> {})
    /\ entry' = NoRow
    /\ ghost' = [ghost EXCEPT !.goneHere = {}, !.goneThere = {},
                   !.dropped = @ \cup (CASE resolution = "KeepLocal" -> {entry.remote}
                                        [] resolution = "KeepRemote" -> {ContentOf(Newest)}
                                        [] OTHER -> {})]

\* Under the pair's reading lock, so never between a pass's read and its plan.
resolve_conflict ==
    /\ work.pc # "scanned"
    /\ Fault(1)
    /\ \E resolution \in {"KeepLocal", "KeepRemote", "KeepBoth"} :
         ResolveConflicted(resolution) \/ ResolveOverwritten(resolution)
    /\ UNCHANGED <<pos, heard, minted, stood, journal, work, edits>>

----------------------------------------------------------------------------

SyncInit ==
    /\ \/ /\ disk = 1 /\ log = <<[content |-> 1, by |-> "them"]>> /\ pos = 1
          /\ entry = [state |-> "Synced", uuid |-> 1, content |-> 1, agreed |-> 1, remote |-> Nothing]
       \/ disk = Nothing /\ log = <<>> /\ pos = 0 /\ entry = NoRow
    /\ heard = {} /\ minted = {} /\ stood = {} /\ journal = <<>> /\ bin = {}
    /\ work = NoPass
    /\ edits = 0 /\ faults = 0
    /\ ghost = [mine |-> {}, theirs |-> {}, dropped |-> {}, goneHere |-> {}, goneThere |-> {},
                overlooked |-> {}, unrecorded |-> {}, raced |-> {}, lapsed |-> FALSE, shown |-> pos]

Users == LocalEdit \/ LocalDelete \/ OtherEdit \/ OtherDelete \/ resolve_conflict

Surroundings == CacheStep \/ CacheResync \/ TenurePasses \/ expire \/ Crash

FileStep ==
    \/ ReadLocal \/ PlanPass
    \/ UploadLands \/ UploadRecorded \/ TrashLands \/ commit_trash
    \/ DeleteLocal \/ delete_baseline
    \/ stash_local_target \/ DownloadStarts \/ DownloadLands \/ upsert_file_baseline
    \/ AdoptBaseline

SyncNext == Users \/ Surroundings \/ FileStep \/ CutOff

\* Passes go on, the cache is brought up to date and the clock runs.
SyncSpec == /\ SyncInit /\ [][SyncNext]_syncVars
            /\ WF_syncVars(FileStep) /\ WF_syncVars(CacheStep) /\ WF_syncVars(expire)

----------------------------------------------------------------------------
(* Properties.                                                             *)

SyncTypeOK ==
    /\ disk \in Contents /\ bin \subseteq Contents
    /\ \A i \in 1 .. Newest : log[i] \in [content : Contents, by : {"us", "restored", "them", "beside"}]
    /\ pos \in 0 .. Newest
    /\ heard \cup minted \cup stood \subseteq 1 .. Newest
    /\ entry \in [state : {"None", "Synced", "Conflicted", "Overwritten"}, uuid : 0 .. Newest,
                content : Contents, agreed : Contents, remote : Contents]
    /\ ToSet(journal) \subseteq [uuid : 1 .. Newest, kind : {"Created", "Trashed"}, replaced : 0 .. Newest]
    /\ work.pc \in {"idle", "scanned", "upload", "uploaded", "trash", "trashed", "delete",
                    "deleted", "download", "stashed", "fetching", "downloaded", "adopt"}
    /\ edits \in 0 .. MAX_EDITS /\ faults \in 0 .. MAX_EVENTS

\* The pass under way has a place, and from its plan on the row is the one it
\* was planned from, which no conflict holds: nobody settles a path that is
\* being applied (prepare_whole, resolve_conflict).
Acting == work.pc \notin {"idle", "scanned"}
RowIsPlanned ==
    /\ DOMAIN work = DOMAIN NoPass
    /\ Acting => entry = work.base /\ entry.state \notin {"Conflicted", "Overwritten"}

\* What a deletion goes by: a whole scan that found no file the row has, or one
\* that found it as the row has it, over a listing that was not empty of all
\* (guard::reason_for, push_to_remote, pull_to_local).
DeletionsAreGuarded ==
    /\ work.pc \in {"trash", "trashed"} => work.scan = Nothing /\ work.complete
    /\ work.pc \in {"delete", "deleted"} => work.scan # Nothing /\ work.scan = work.base.content
    /\ work.pc \in {"trash", "trashed", "delete", "deleted"} => work.trusted /\ work.base # NoRow

\* What a download will write over: nothing, or what the row vouches for.  What
\* it moved out of its way is in the bin (stash_local_target, the check before
\* the rename); or a file the user made after that look.
Vouched(c) == work.base # NoRow /\ c = work.base.content
DownloadsAreVouched ==
    /\ work.stashed # Nothing =>
         work.pc \in {"stashed", "fetching", "downloaded"} /\ work.stashed \in bin
    /\ work.pc = "stashed" => disk = Nothing \/ Vouched(disk) \/ disk \in ghost.raced
    /\ work.pc = "fetching" => IF work.got = Nothing THEN disk \in {Nothing} \cup ghost.raced
                               ELSE Vouched(work.got) \/ work.got \in ghost.raced

\* What the engine takes off the disk is in the bin, or is what the row vouches
\* for; and nothing leaves the bin but back to the disk (apply_transfer).
LocalIsKept ==
    [][~(LocalEdit \/ LocalDelete) =>
         /\ disk \in {disk', Nothing} \cup bin' \cup ghost.raced \/ Vouched(disk)
         /\ bin \subseteq bin' \cup {disk'}]_syncVars

\* Where a content can still be found: on either side, in the bin, named by the
\* row that holds a conflict, or under an upload that has yet to look for it.
Kept == {disk, ContentOf(VersionAt(Newest))} \cup bin
        \cup (IF entry.state = "Overwritten" THEN {entry.remote} ELSE {})
        \cup (IF work.pc = "uploaded" THEN Overlooked(FALSE) ELSE {})

\* An edit no user replaced or removed knowingly is never lost: not by a
\* transfer onto it, not by one cut short, not by a crash before its record
\* (apply_transfer, reconcile_two_way).  Left out are the races the engine
\* cannot see: an edit under an upload whose version chain told nothing, and a
\* file made under a download; and what follows once a record of its own ran out
\* before the cache had caught up.
NoLostEdit ==
    \/ (ghost.mine \cup ghost.theirs) \ (ghost.dropped \cup ghost.overlooked \cup ghost.raced)
         \subseteq Kept
    \/ ghost.lapsed

\* What a user deleted on one side the engine does not bring back to it, as
\* long as it recorded having put it on the other and its records last until
\* the cache has caught up (adopt_outcome, commit_trash).
NoResurrection ==
    [][/\ DownloadLands => work.view.content \notin ghost.goneHere \ ghost.unrecorded \/ ghost.lapsed
       /\ UploadLands => disk \notin ghost.goneThere \ ghost.unrecorded \/ ghost.lapsed]_syncVars

\* Once the users rest, the sides come to hold the same content, or the path is
\* held for the user to resolve.
Converges ==
    <>[](disk = ContentOf(VersionAt(Newest)) \/ entry.state \in {"Conflicted", "Overwritten"})

\* What a pass under way goes by, from its plan to its record (prepare_whole,
\* apply_one).
PassInvariant == RowIsPlanned /\ DeletionsAreGuarded /\ DownloadsAreVouched

\* Whatever the sides, the row and the pass under way hold, every edit is kept.
SyncInvariant == SyncTypeOK /\ PassInvariant /\ NoLostEdit
=============================================================================
