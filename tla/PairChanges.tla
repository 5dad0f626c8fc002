----------------------------- MODULE PairChanges -----------------------------
(***************************************************************************)
(* How a change reaches a pass: the changelists of one sync pair, the      *)
(* watch loop they wake, and the passes that take them.                    *)
(*                                                                         *)
(* A pass reads either everything or only what its changelists name; what  *)
(* it took and did not carry out is in no list any more, so its outcome    *)
(* decides what the next pass must read.                                   *)
(*                                                                         *)
(* Sources: filen-sdk-rs/src/sync_engine/changes/mod.rs, watch/mod.rs and  *)
(* engine/mod.rs (run_pass, run_started_pass, sync_pass, next_pass_scope,  *)
(* carry_forward, approve_deletions, request_pass, resume_pair).           *)
(*                                                                         *)
(* An item is a path with a change that one side has and the other lacks.  *)
(* How a change is reconciled is in SyncPass; pausing is reduced to its    *)
(* effect on passes, PassControl has the rest.  The cache dispatches a     *)
(* batch to the engine's recording callback and to the watch's doorbell in *)
(* one step.                                                               *)
(***************************************************************************)
EXTENDS Naturals, FiniteSets, FiniteSetsExt

CONSTANTS
    LocalItems,    \* items whose change is local
    RemoteItems,   \* items whose change is remote
    Deletions,     \* the items whose change is a deletion
    DIRTY_CAP,     \* most entries a changelist holds before it collapses
    GUARD_LIMIT,   \* most deletions a pass applies without approval
    MAX_CHANGES,   \* changes made, watched or not
    MAX_EVENTS     \* pauses, failures, lost events, disconnects and calls, all told

Items == LocalItems \cup RemoteItems

ASSUME ItemsAssumption ==
    /\ IsFiniteSet(Items) /\ LocalItems \cap RemoteItems = {}
    /\ Deletions \subseteq Items
    /\ {DIRTY_CAP, GUARD_LIMIT, MAX_CHANGES, MAX_EVENTS} \subseteq Nat

VARIABLES
    unsynced,  \* items with a change no pass has carried out
    fsq,       \* local items whose file system event is not delivered yet
    unheard,   \* remote items whose change the cache does not hold yet
    live,      \* whether the cache's socket is connected
    changes,   \* the pair's PairChanges
    pass,      \* each pass's scope, plan and place
    reading,   \* who holds the pair's reading lock
    approval,  \* the approved batch, {} for none
    offered,   \* the batch last offered for approval and not released since
    paused,    \* whether the pair is paused
    resuming,  \* a resume has set the pair running and not forced its pass yet
    loop,      \* the watch loop
    dirty,     \* the doorbell's permit
    requested, \* the request signal's permit
    used,      \* changes and other events so far
    broke,     \* ghost: what a pass left undone rings no bell of the watch
    missed     \* ghost: local changes a watch started over without a whole read

vars == <<unsynced, fsq, unheard, live, changes, pass, reading, approval,
          offered, paused, resuming, loop, dirty, requested, used, broke, missed>>

Passes == {"watch", "once"}

\* CatchUp: none, Recent (the safety net), Now (a request).
CatchUps == 0..2

ChangeState ==
    [local : SUBSET LocalItems, localFull : BOOLEAN,
     remote : SUBSET RemoteItems, remoteFull : BOOLEAN,
     forced : BOOLEAN, held : BOOLEAN, degraded : BOOLEAN,
     current_remote : CatchUps, local_covered : BOOLEAN,
     owed : SUBSET Items, owed_remote : SUBSET RemoteItems]

PassPlaces == {"idle", "view", "catchup", "read", "plan", "apply", "cut", "end"}

\* cur: the planned items whose change is still the one that was read.
PassState ==
    [at : PassPlaces, local : SUBSET Items, remote : SUBSET RemoteItems,
     full : BOOLEAN, want : CatchUps, plan : SUBSET Items, cur : SUBSET Items,
     next : {"none", "force", "hold"}, failed : BOOLEAN, owes : BOOLEAN]

NoPass == [at |-> "idle", local |-> {}, remote |-> {}, full |-> FALSE, want |-> 0,
           plan |-> {}, cur |-> {}, next |-> "none", failed |-> FALSE, owes |-> FALSE]

LoopPlaces == {"off", "top", "pass", "wait", "debounce", "backoff", "ended"}

TypeOK ==
    /\ unsynced \subseteq Items /\ fsq \subseteq LocalItems
    /\ unheard \subseteq RemoteItems
    /\ live \in BOOLEAN
    /\ changes \in ChangeState
    /\ pass \in [Passes -> PassState]
    /\ reading \in Passes \cup {"free"}
    /\ approval \subseteq Items /\ offered \subseteq Items
    /\ paused \in BOOLEAN /\ resuming \in BOOLEAN
    /\ loop \in LoopPlaces
    /\ dirty \in BOOLEAN /\ requested \in BOOLEAN
    /\ used \in [changes : 0..MAX_CHANGES, events : 0..MAX_EVENTS]
    /\ broke \in BOOLEAN /\ missed \subseteq LocalItems

\* An engine just opened: the pair's first pass is forced whole, and no
\* watcher covers it.
Init ==
    /\ unsynced = {} /\ fsq = {} /\ unheard = {} /\ live = TRUE
    /\ changes = [local |-> {}, localFull |-> FALSE, remote |-> {},
                  remoteFull |-> FALSE, forced |-> TRUE, held |-> FALSE,
                  degraded |-> FALSE, current_remote |-> 0, local_covered |-> FALSE,
                  owed |-> {}, owed_remote |-> {}]
    /\ pass = [p \in Passes |-> NoPass]
    /\ reading = "free"
    /\ approval = {} /\ offered = {}
    /\ paused = FALSE /\ resuming = FALSE
    /\ loop = "off" /\ dirty = FALSE /\ requested = FALSE
    /\ used = [changes |-> 0, events |-> 0]
    /\ broke = FALSE /\ missed = {}

-----------------------------------------------------------------------------
(* The changelists. *)

past_cap(s) == Cardinality(s) > DIRTY_CAP

\* A whole read is due, whether a watcher covers the pair or not.
read_due ==
    changes.degraded \/ changes.localFull \/ changes.remoteFull \/ changes.forced

full_pending == read_due \/ ~changes.local_covered

is_idle ==
    /\ ~full_pending
    /\ changes.local = {} /\ changes.remote = {}
    /\ changes.owed = {} /\ changes.owed_remote = {}

\* note_local_event: a collapsed list stays collapsed; one past the cap collapses.
note_local_event(c, i) ==
    LET paths == c.local \cup {i}
    IN  IF c.localFull THEN c
        ELSE IF past_cap(paths) THEN [c EXCEPT !.localFull = TRUE, !.local = {}]
        ELSE [c EXCEPT !.local = paths]

note_remote_batch(c, items) ==
    LET entries == c.remote \cup items
    IN  IF c.remoteFull \/ items = {} THEN c
        ELSE IF past_cap(entries) THEN [c EXCEPT !.remoteFull = TRUE, !.remote = {}]
        ELSE [c EXCEPT !.remote = entries]

force(c, want) ==
    [c EXCEPT !.forced = TRUE, !.current_remote = Max({@, want})]

owe_current_remote(c, want) == [c EXCEPT !.current_remote = Max({@, want})]

note_owed(c, paths) ==
    IF past_cap(paths) THEN [force(c, 0) EXCEPT !.owed = {}]
                       ELSE [c EXCEPT !.owed = paths]

note_owed_remote(c, delta) ==
    IF past_cap(delta) THEN [c EXCEPT !.remoteFull = TRUE, !.remote = {}]
                       ELSE [c EXCEPT !.owed_remote = delta]

\* PairChanges::take, and the scope it leaves the pass with.
take(c) == [c EXCEPT !.local = {}, !.localFull = FALSE, !.remote = {},
                     !.remoteFull = FALSE, !.owed = {}, !.owed_remote = {},
                     !.forced = FALSE, !.current_remote = 0, !.held = FALSE]

Scope(c) == [NoPass EXCEPT !.at = "catchup",
                !.local = c.local \cup c.owed,
                !.remote = c.remote \cup c.owed_remote,
                !.full = full_pending \/ c.held,
                !.want = c.current_remote]

\* PassScope::wants_current_remote.
wants_current_remote(s) == s.full /\ s.want > 0

-----------------------------------------------------------------------------
(* Changes and their announcements. *)

Spend(kind, max) == used[kind] < max /\ used' = [used EXCEPT ![kind] = @ + 1]
Event == Spend("events", MAX_EVENTS)

EnvVars == <<fsq, unheard, live>>
UserVars == <<approval, offered, paused, resuming>>

Watched == loop \notin {"off", "ended"}

\* A change is made: whatever a pass has read of the item is old now.  A local
\* one is announced only while a watcher runs.
Change(i) ==
    /\ Spend("changes", MAX_CHANGES)
    /\ unsynced' = unsynced \cup {i}
    /\ pass' = [p \in Passes |-> [pass[p] EXCEPT !.cur = @ \ {i}]]
    /\ fsq' = IF i \in LocalItems /\ Watched THEN fsq \cup {i} ELSE fsq
    /\ unheard' = IF i \in RemoteItems THEN unheard \cup {i} ELSE unheard
    /\ missed' = missed \ {i}
    /\ UNCHANGED <<live, changes, reading, UserVars, loop, dirty, requested, broke>>

\* local_event_handler: the event is recorded, then the doorbell is rung.
LocalEvent(i) ==
    /\ i \in fsq
    /\ fsq' = fsq \ {i}
    /\ changes' = note_local_event(changes, i)
    /\ dirty' = TRUE
    /\ UNCHANGED <<unsynced, unheard, live, pass, reading, UserVars, loop, requested, used, broke, missed>>

\* The kernel dropped events and says so (MustScanSubDirs, IN_Q_OVERFLOW), or
\* the watcher reports an error and is not trusted again.
EventsDropped ==
    /\ fsq # {} /\ Event
    /\ fsq' = {}
    /\ \/ changes' = [changes EXCEPT !.localFull = TRUE, !.local = {}]
       \/ changes' = [changes EXCEPT !.degraded = TRUE]
    /\ dirty' = TRUE
    /\ UNCHANGED <<unsynced, unheard, live, pass, reading, UserVars, loop, requested, broke, missed>>

\* The cache commits a batch and dispatches it.
Dispatch(items) ==
    /\ unheard' = unheard \ items
    /\ changes' = note_remote_batch(changes, items)
    /\ dirty' = (dirty \/ (Watched /\ items # {}))

RemoteEvent(i) ==
    /\ live /\ i \in unheard
    /\ Dispatch({i})
    /\ UNCHANGED <<unsynced, fsq, live, pass, reading, UserVars, loop, requested, used, broke, missed>>

\* The socket goes; when it is back the cache relists, and what it missed is
\* dispatched like any event.
SocketChanges ==
    /\ IF live THEN Event ELSE UNCHANGED used
    /\ live' = ~live
    /\ UNCHANGED <<unsynced, fsq, unheard, changes, pass, reading, UserVars, loop,
                   dirty, requested, broke, missed>>

-----------------------------------------------------------------------------
(* The caller. *)

pause_pair ==
    /\ ~paused /\ ~resuming /\ Event
    /\ paused' = TRUE
    /\ UNCHANGED <<unsynced, EnvVars, changes, pass, reading, approval, offered,
                   resuming, loop, dirty, requested, broke, missed>>

\* resume_pair: the channel first, then the whole pass it owes.
resume_pair ==
    /\ paused
    /\ paused' = FALSE /\ resuming' = TRUE
    /\ UNCHANGED <<unsynced, EnvVars, changes, pass, reading, approval, offered,
                   loop, dirty, requested, used, broke, missed>>

ForceResumed ==
    /\ resuming
    /\ resuming' = FALSE
    /\ changes' = force(changes, 0)
    /\ UNCHANGED <<unsynced, EnvVars, pass, reading, approval, offered, paused,
                   loop, dirty, requested, used, broke, missed>>

\* request_pass: refused on a paused pair.
request_pass ==
    /\ ~paused /\ Event
    /\ changes' = force(changes, 2)
    /\ requested' = TRUE
    /\ UNCHANGED <<unsynced, EnvVars, pass, reading, UserVars, loop, dirty, broke, missed>>

\* approve_deletions: the decision is stored, then its pass made due and whole.
approve_deletions ==
    /\ offered # {} /\ Event
    /\ approval' = offered
    /\ changes' = force(changes, 0)
    /\ dirty' = TRUE
    /\ UNCHANGED <<unsynced, EnvVars, pass, reading, offered, paused, resuming,
                   loop, requested, broke, missed>>

-----------------------------------------------------------------------------
(* A pass. *)

Goto(p, at) == pass' = [pass EXCEPT ![p].at = at]
Done(p, next, failed, owes) ==
    pass' = [pass EXCEPT ![p] = [NoPass EXCEPT !.at = "end", !.next = next,
                                               !.failed = failed, !.owes = owes]]
Fails(p) == Done(p, "force", TRUE, FALSE)
Cancelled(p) == Done(p, "force", FALSE, TRUE)   \* cancelled_reading

\* What a pass leaves alone while it runs.
Outside == <<unsynced, EnvVars, UserVars, loop, dirty, requested, used, broke, missed>>

\* run_pass: a paused pair's pass is over at once, and a watch's wake with
\* nothing announced runs no pass.
Begins(p) ==
    IF paused THEN Cancelled(p)
    ELSE IF p = "watch" /\ is_idle THEN Done(p, "none", FALSE, FALSE)
    ELSE Goto(p, "view")

SyncOnce ==
    /\ pass["once"] = NoPass
    /\ Event
    /\ Begins("once")
    /\ UNCHANGED <<unsynced, EnvVars, changes, reading, UserVars, loop, dirty,
                   requested, broke, missed>>

\* The remote view converged: both lists are taken before either side is read.
TakeLists(p) ==
    /\ pass[p].at = "view"
    /\ pass' = [pass EXCEPT ![p] = Scope(changes)]
    /\ changes' = take(changes)
    /\ missed' = IF pass'[p].full THEN {} ELSE missed
    /\ UNCHANGED <<unsynced, EnvVars, UserVars, reading, loop, dirty, requested, used, broke>>

\* Nothing has been taken yet: the wait for the view fails, or a pause ends it.
ViewEnds(p) ==
    /\ pass[p].at = "view"
    /\ \/ paused /\ Cancelled(p) /\ UNCHANGED used
       \/ Event /\ Fails(p)
    /\ UNCHANGED <<unsynced, EnvVars, changes, reading, UserVars, loop, dirty,
                   requested, broke, missed>>

\* catch_up_for, of a pass that need not ask or whose cache catches up.
CaughtUp(p) ==
    /\ pass[p].at = "catchup"
    /\ IF wants_current_remote(pass[p]) /\ ~live
         THEN Dispatch(unheard)
         ELSE UNCHANGED <<unheard, changes, dirty>>
    /\ Goto(p, "read")
    /\ UNCHANGED <<unsynced, fsq, live, reading, UserVars, loop, requested, used, broke, missed>>

\* The cache could not catch up: what was asked is handed back.
CatchUpEnds(p) ==
    /\ pass[p].at = "catchup"
    /\ wants_current_remote(pass[p]) /\ ~live
    /\ changes' = owe_current_remote(changes, pass[p].want)
    /\ \/ paused /\ Cancelled(p)
       \/ Fails(p)
    /\ UNCHANGED <<Outside, reading>>

\* prepare, under the reading lock: a whole read sees every local change and
\* every remote one the cache holds; a scoped one sees what its lists name.  A
\* scoped read that meets a question it cannot answer reads whole instead.
ReadSides(p) ==
    /\ pass[p].at = "read" /\ reading = "free"
    /\ reading' = p
    /\ \E full \in {pass[p].full, TRUE} :
         LET sees == IF full THEN unsynced \ unheard
                     ELSE unsynced \cap ((pass[p].local \cap LocalItems) \cup pass[p].remote)
         IN  pass' = [pass EXCEPT ![p].at = "plan", ![p].full = full,
                                  ![p].plan = sees, ![p].cur = sees]
    /\ UNCHANGED <<Outside, changes>>

ReadEnds(p) ==
    /\ pass[p].at = "read"
    /\ \/ paused /\ Cancelled(p) /\ UNCHANGED used
       \/ Event /\ Fails(p)
    /\ UNCHANGED <<unsynced, EnvVars, changes, reading, UserVars, loop, dirty,
                   requested, broke, missed>>

\* The guard holds the plan's deletions past its limit, unless the caller has
\* approved this very batch; what is left is owed to the next pass until it
\* finds it done (carry_forward).
Held(p) ==
    LET dels == pass[p].plan \cap Deletions
    IN  IF Cardinality(dels) > GUARD_LIMIT THEN dels ELSE {}

ScreenPlan(p) ==
    LET held == IF Held(p) = approval THEN {} ELSE Held(p)
        released == pass[p].plan \ held
    IN  /\ pass[p].at = "plan"
        /\ approval' = IF Held(p) = approval THEN {} ELSE approval
        /\ offered' = IF Held(p) = {} THEN offered ELSE held
        /\ changes' = note_owed(changes, released)
        /\ reading' = "free"
        /\ IF released = {}
             THEN Done(p, IF held = {} THEN "none" ELSE "hold", FALSE, FALSE)
             ELSE pass' = [pass EXCEPT ![p].at = "apply", ![p].plan = released,
                              ![p].next = IF held = {} THEN "none" ELSE "hold"]
        /\ broke' = (broke \/ ~(changes.owed \subseteq released))
        /\ UNCHANGED <<missed, unsynced, EnvVars, paused, resuming, loop, dirty, requested, used>>

\* One action of the plan is carried out.
ApplyAction(p, i) ==
    /\ pass[p].at = "apply" /\ i \in pass[p].plan
    /\ unsynced' = IF i \in pass[p].cur THEN unsynced \ {i} ELSE unsynced
    /\ pass' = [pass EXCEPT ![p].plan = @ \ {i}]
    /\ UNCHANGED <<EnvVars, changes, reading, UserVars, loop, dirty, requested, used, broke, missed>>

\* An action fails on its path: the pass goes on and is not a failed one.
ActionFails(p, i) ==
    /\ pass[p].at = "apply" /\ i \in pass[p].plan
    /\ Event
    /\ broke' = TRUE
    /\ pass' = [pass EXCEPT ![p].plan = @ \ {i}, ![p].next = "force"]
    /\ UNCHANGED <<missed, unsynced, EnvVars, changes, reading, UserVars, loop, dirty, requested>>

\* The lock, the store, a full side or the remote fails the rest of the plan.
ApplyHalts(p) ==
    /\ pass[p].at = "apply" /\ pass[p].plan # {}
    /\ Event
    /\ Fails(p)
    /\ UNCHANGED <<unsynced, EnvVars, changes, reading, UserVars, loop, dirty,
                   requested, broke, missed>>

\* A cancelled pass hands its announced changes back after the plan's paths.
ApplyCut(p) ==
    /\ pass[p].at = "apply" /\ pass[p].plan # {} /\ paused
    /\ Goto(p, "cut")
    /\ UNCHANGED <<Outside, changes, reading>>

\* next_pass_scope for an interrupted pass: a scoped one has handed back both
\* halves of what it took, a whole one cannot.
HandBack(p) ==
    /\ pass[p].at = "cut"
    /\ changes' = note_owed_remote(changes, IF pass[p].full THEN {} ELSE pass[p].remote)
    /\ Done(p, IF pass[p].full THEN "force" ELSE pass[p].next, FALSE, TRUE)
    /\ UNCHANGED <<Outside, reading>>

ApplyEnds(p) ==
    /\ pass[p].at = "apply" /\ pass[p].plan = {}
    /\ Done(p, pass[p].next, FALSE, FALSE)
    /\ UNCHANGED <<Outside, changes, reading>>

NextPassScope_not_for_errors(p) ==
    /\ pass[p].at = "end" /\ pass[p].next # "none"
    /\ changes' = IF pass[p].failed THEN changes
                  ELSE IF pass[p].next = "force" THEN force(changes, 0)
                  ELSE [changes EXCEPT !.held = TRUE]
    /\ pass' = [pass EXCEPT ![p].next = "none"]
    /\ UNCHANGED <<Outside, reading>>

\* sync_pass, after the pass and its gate are gone: what its outcome means for
\* the next one.
NextPassScope(p) ==
    /\ pass[p].at = "end" /\ pass[p].next # "none"
    /\ changes' = IF pass[p].next = "force" THEN force(changes, 0)
                                            ELSE [changes EXCEPT !.held = TRUE]
    /\ pass' = [pass EXCEPT ![p].next = "none"]
    /\ UNCHANGED <<Outside, reading>>

OnceReturns ==
    /\ pass["once"].at = "end" /\ pass["once"].next = "none"
    /\ pass' = [pass EXCEPT !["once"] = NoPass]
    /\ broke' = (broke \/ pass["once"].failed \/ pass["once"].owes)
    /\ UNCHANGED <<missed, unsynced, EnvVars, changes, reading, UserVars, loop, dirty,
                   requested, used>>

-----------------------------------------------------------------------------
(* The watch loop. *)

LoopVars == <<unsynced, EnvVars, UserVars, reading, broke, missed>>

\* watch_with: the watcher starts, and from here a pass may trust the local
\* list, whatever changed while nobody filled it.
WatchStarts ==
    /\ loop \in {"off", "ended"} /\ ~paused
    /\ loop' = "top"
    /\ changes' = [changes EXCEPT !.local_covered = TRUE]
    /\ missed' = IF read_due THEN missed ELSE missed \cup (unsynced \cap LocalItems)
    /\ UNCHANGED <<unsynced, EnvVars, UserVars, reading, broke, pass, dirty, requested, used>>

\* The top of the loop: a paused pair runs nothing.
LoopTop ==
    /\ loop = "top" /\ ~paused
    /\ loop' = "pass"
    /\ Begins("watch")
    /\ UNCHANGED <<LoopVars, changes, dirty, requested, used>>

\* The safety net is due: its tick ends a wait, and the top of the loop forces a
\* pass that wants the remote as it stands.
NetDue ==
    /\ loop \in {"top", "wait", "debounce"} /\ ~paused /\ Event
    /\ loop' = "top"
    /\ changes' = force(changes, 1)
    /\ UNCHANGED <<LoopVars, pass, dirty, requested>>

PassReturns_unrung ==
    /\ loop = "pass" /\ pass["watch"].at = "end" /\ pass["watch"].next = "none"
    /\ loop' = IF pass["watch"].failed THEN "backoff" ELSE "wait"
    /\ pass' = [pass EXCEPT !["watch"] = NoPass]
    /\ UNCHANGED <<LoopVars, changes, dirty, requested, used>>

\* After the pass: a failed one backs off, one that a pause cut short rings the
\* doorbell again.
PassReturns ==
    /\ loop = "pass" /\ pass["watch"].at = "end" /\ pass["watch"].next = "none"
    /\ dirty' = (dirty \/ pass["watch"].owes)
    /\ loop' = IF pass["watch"].failed THEN "backoff" ELSE "wait"
    /\ pass' = [pass EXCEPT !["watch"] = NoPass]
    /\ UNCHANGED <<LoopVars, changes, requested, used>>

\* wait_for_next_pass: a permit starts the debounce, ...
Woken ==
    /\ loop = "wait"
    /\ \/ dirty /\ dirty' = FALSE /\ UNCHANGED requested
       \/ requested /\ requested' = FALSE /\ UNCHANGED dirty
    /\ loop' = "debounce"
    /\ UNCHANGED <<LoopVars, changes, pass, used>>

\* ... which eats what rings during it, for a while, ...
DebounceRestarts ==
    /\ loop = "debounce" /\ dirty
    /\ dirty' = FALSE
    /\ UNCHANGED <<LoopVars, changes, pass, loop, requested, used>>

DebounceEnds ==
    /\ loop = "debounce"
    /\ loop' = "top"
    /\ UNCHANGED <<LoopVars, changes, pass, dirty, requested, used>>

\* ... and a backoff runs out, or is cut short by a request or a reconnect.
BackoffEnds ==
    /\ loop = "backoff"
    /\ requested' \in {FALSE, requested}
    /\ loop' = "top"
    /\ UNCHANGED <<LoopVars, changes, pass, dirty, used>>

\* The handle is dropped: the loop ends and with it the watcher.
WatchEnds ==
    /\ loop \in {"top", "wait", "debounce", "backoff"} /\ Event
    /\ loop' = "ended"
    /\ fsq' = {}
    /\ changes' = [changes EXCEPT !.local_covered = FALSE]
    /\ UNCHANGED <<unsynced, unheard, live, pass, reading, UserVars, dirty, requested, broke, missed>>

-----------------------------------------------------------------------------
PassStep(p) ==
    \/ TakeLists(p) \/ CaughtUp(p) \/ ReadSides(p) \/ ScreenPlan(p)
    \/ \E i \in Items : ApplyAction(p, i)
    \/ HandBack(p) \/ ApplyEnds(p) \/ NextPassScope(p)

PassFault(p) ==
    \/ ViewEnds(p) \/ CatchUpEnds(p) \/ ReadEnds(p)
    \/ \E i \in Items : ActionFails(p, i)
    \/ ApplyHalts(p) \/ ApplyCut(p)

LoopStep == LoopTop \/ PassReturns \/ Woken \/ DebounceEnds \/ BackoffEnds

Announce == \E i \in Items : LocalEvent(i) \/ RemoteEvent(i)

Next ==
    \/ \E i \in Items : Change(i)
    \/ Announce \/ EventsDropped \/ SocketChanges
    \/ pause_pair \/ resume_pair \/ ForceResumed \/ request_pass \/ approve_deletions
    \/ \E p \in Passes : PassStep(p) \/ PassFault(p)
    \/ SyncOnce \/ OnceReturns
    \/ WatchStarts \/ NetDue \/ LoopStep \/ DebounceRestarts \/ WatchEnds

\* Tasks run, events are delivered, a debounce and a backoff end.  The safety
\* net is not counted on, nor the socket, nor anyone resuming the pair.
Fairness ==
    /\ \A p \in Passes : WF_vars(PassStep(p))
    /\ WF_vars(LoopStep) /\ WF_vars(Announce)
    /\ WF_vars(ForceResumed) /\ WF_vars(OnceReturns)

Spec == Init /\ [][Next]_vars /\ Fairness

-----------------------------------------------------------------------------
(* Properties. *)

\* Where the pass p still carries item i: its scope names it or will find it,
\* or its plan holds it as it was read, or its end makes the next pass whole.
Carries(p, i) ==
    \/ /\ pass[p].at \in {"catchup", "read"}
       /\ pass[p].full \/ i \in (pass[p].local \cap LocalItems) \cup pass[p].remote
    \/ pass[p].at \in {"plan", "apply"} /\ i \in pass[p].plan \cap pass[p].cur
    \/ pass[p].at = "cut" /\ (pass[p].full \/ i \in pass[p].remote)
    \/ pass[p].at \in {"apply", "end"} /\ pass[p].next # "none"

\* A whole read is due, or a resume will force one.
WholeIsDue == paused \/ resuming \/ read_due

\* The item i is still to be announced, is in a list of announced changes, is
\* covered by a whole read that is due or held, or is in a pass's hands; or it
\* is local and no watcher covers it, so that any pass reads it.
Announced(i) ==
    \/ i \in fsq \cup unheard
    \/ i \in changes.local \cup changes.remote \cup changes.owed_remote
    \/ WholeIsDue \/ changes.held
    \/ i \in LocalItems /\ ~changes.local_covered
    \/ \E p \in Passes : Carries(p, i)

\* The changes still to be synced.  Excepted, until the next whole pass, are
\* local ones a watch started over (watch_with).
Pending == unsynced \ missed

\* No change is forgotten: one that no pass has carried out is still announced,
\* or is a path an interrupted pass has left for the next one.
NoLostChange ==
    \A i \in Pending : Announced(i) \/ i \in changes.owed \cap LocalItems

\* A pass between taking its lists and screening its plan may write over the
\* paths owed: no change depends on them then (note_owed).
OwedIsSpare ==
    (\E p \in Passes : pass[p].at \in {"catchup", "read", "plan"}) =>
        \A i \in Pending : Announced(i)

\* A pass that hands its remote changes back writes over nobody's: whoever did
\* so before it was cut short by the same pause, and the resume reads whole
\* (note_owed_remote).
HandBackIsSpare ==
    \A p \in Passes :
        /\ pass[p].at = "cut"
        /\ changes.owed_remote # {} \/ \E q \in Passes \ {p} : pass[q].at = "cut"
        => WholeIsDue

\* The local list is trusted only while a watcher fills it, and the watch's pass
\* runs only inside its loop (watch_with).
WatchShape ==
    /\ changes.local_covered => Watched
    /\ loop # "pass" => pass["watch"].at = "idle"

\* A change is synced without the help of the safety net, whatever failed
\* passes, dropped events, pauses and other passes come in between.  It may
\* wait for a held batch's approval, for a resume, for the socket, for a watch,
\* or - once something has been left undone that rings no bell of the watch: an
\* action failed on its own path, a caller's pass failed or was cut short, a
\* pass replaced what another owed - for the net.
ChangesAreSynced ==
    \A i \in Items :
        i \in unsynced ~> \/ i \notin unsynced
                          \/ i \in offered \/ paused \/ ~live \/ ~Watched \/ broke
                          \/ i \in missed

\* Every change not yet synced is known to somebody, in a list or a pass,
\* whichever passes overlap and whenever watches start and end.
ChangesInvariant ==
    TypeOK /\ WatchShape /\ HandBackIsSpare /\ OwedIsSpare /\ NoLostChange
=============================================================================
