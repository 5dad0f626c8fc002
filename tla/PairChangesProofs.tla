-------------------------- MODULE PairChangesProofs --------------------------
(* Proofs about PairChanges, for any items, caps and limits, and any number *)
(* of changes and other events.                                             *)
EXTENDS PairChanges, TLAPS

USE ItemsAssumption

Reading == {"catchup", "read", "plan"}

-----------------------------------------------------------------------------
(* The changelists. *)

(* The lists n cover all that the lists c cover, but for what is owed *)
Covers(c, n) ==
    /\ n \in ChangeState
    /\ n.local_covered => c.local_covered
    /\ c.degraded => n.degraded
    /\ c.forced => n.forced
    /\ c.localFull => n.localFull
    /\ c.remoteFull => n.remoteFull
    /\ c.held => n.held
    /\ c.local \subseteq n.local \/ n.localFull
    /\ c.remote \subseteq n.remote \/ n.remoteFull

Grows(c, n) == Covers(c, n) /\ n.owed = c.owed /\ n.owed_remote = c.owed_remote

LEMMA MaxOfTwo == ASSUME NEW a \in CatchUps, NEW b \in CatchUps PROVE Max({a, b}) \in CatchUps
<1>1. \E x \in {a, b} : \A y \in {a, b} : x >= y
  BY DEF CatchUps
<1> QED
  BY <1>1 DEF Max

LEMMA SameGrows == ASSUME NEW c \in ChangeState PROVE Grows(c, c)
  BY DEF Grows, Covers, ChangeState

LEMMA NoteLocalGrows ==
    ASSUME NEW c \in ChangeState, NEW i \in LocalItems,
           NEW n, n = note_local_event(c, i)
    PROVE  Grows(c, n) /\ (i \in n.local \/ n.localFull)
<1>1. CASE c.localFull
  BY <1>1 DEF Grows, Covers, note_local_event, ChangeState
<1>2. CASE ~c.localFull /\ past_cap(c.local \cup {i})
  BY <1>2 DEF Grows, Covers, note_local_event, ChangeState
<1>3. CASE ~c.localFull /\ ~past_cap(c.local \cup {i})
  BY <1>3 DEF Grows, Covers, note_local_event, ChangeState
<1> QED
  BY <1>1, <1>2, <1>3

LEMMA NoteRemoteGrows ==
    ASSUME NEW c \in ChangeState, NEW items \in SUBSET RemoteItems,
           NEW n, n = note_remote_batch(c, items)
    PROVE  Grows(c, n) /\ (items \subseteq n.remote \/ n.remoteFull)
<1>1. CASE c.remoteFull \/ items = {}
  BY <1>1 DEF Grows, Covers, note_remote_batch, ChangeState
<1>2. CASE ~(c.remoteFull \/ items = {}) /\ past_cap(c.remote \cup items)
  BY <1>2 DEF Grows, Covers, note_remote_batch, ChangeState
<1>3. CASE ~(c.remoteFull \/ items = {}) /\ ~past_cap(c.remote \cup items)
  BY <1>3 DEF Grows, Covers, note_remote_batch, ChangeState
<1> QED
  BY <1>1, <1>2, <1>3

LEMMA ForceGrows ==
    ASSUME NEW c \in ChangeState, NEW want \in CatchUps
    PROVE  Grows(c, force(c, want)) /\ force(c, want).forced
<1>1. Max({c.current_remote, want}) \in CatchUps
  BY MaxOfTwo DEF ChangeState
<1> QED
  BY <1>1 DEF Grows, Covers, force, ChangeState

LEMMA OweGrows ==
    ASSUME NEW c \in ChangeState, NEW want \in CatchUps
    PROVE  Grows(c, owe_current_remote(c, want))
<1>1. Max({c.current_remote, want}) \in CatchUps
  BY MaxOfTwo DEF ChangeState
<1> QED
  BY <1>1 DEF Grows, Covers, owe_current_remote, ChangeState

(* Paths that are owed are listed, or the next pass reads whole *)
LEMMA NoteOwed ==
    ASSUME NEW c \in ChangeState, NEW paths \in SUBSET Items,
           NEW n, n = note_owed(c, paths)
    PROVE  /\ Covers(c, n) /\ n.owed_remote = c.owed_remote
           /\ n.forced \/ n.owed = paths
<1>1. CASE past_cap(paths)
  <2>1. Grows(c, force(c, 0)) /\ force(c, 0).forced
    BY ForceGrows DEF CatchUps
  <2>2. n = [force(c, 0) EXCEPT !.owed = {}]
    BY <1>1 DEF note_owed
  <2> HIDE DEF force
  <2> QED
    BY <2>1, <2>2 DEF Grows, Covers, ChangeState
<1>2. CASE ~past_cap(paths)
  <2>1. n = [c EXCEPT !.owed = paths]
    BY <1>2 DEF note_owed
  <2> QED
    BY <2>1 DEF Grows, Covers, ChangeState
<1> QED
  BY <1>1, <1>2

LEMMA NoteOwedRemote ==
    ASSUME NEW c \in ChangeState, NEW delta \in SUBSET RemoteItems,
           NEW n, n = note_owed_remote(c, delta)
    PROVE  /\ Covers(c, n) /\ n.owed = c.owed
           /\ n.remoteFull \/ n.owed_remote = delta
<1>1. CASE past_cap(delta)
  BY <1>1 DEF Grows, Covers, note_owed_remote, ChangeState
<1>2. CASE ~past_cap(delta)
  BY <1>2 DEF Grows, Covers, note_owed_remote, ChangeState
<1> QED
  BY <1>1, <1>2

-----------------------------------------------------------------------------
(* Steps that only add to what is announced. *)

(* The lists keep what they cover, and what is new or no longer on its way  *)
(* is announced                                                             *)
ListsKeep ==
    /\ Grows(changes, changes')
    /\ \A i \in Pending' : i \in Pending \/ Announced(i)'
    /\ \A i \in Pending' : i \in fsq \cup unheard => Announced(i)'
    /\ paused \/ resuming => WholeIsDue'

(* ... where what was owed may be written over once it is spare *)
ListsCover ==
    /\ Covers(changes, changes')
    /\ \A i \in Pending' : i \in Pending \/ Announced(i)'
    /\ \A i \in Pending' : i \in fsq \cup unheard => Announced(i)'
    /\ paused \/ resuming => WholeIsDue'
    /\ \A i \in Pending' : i \in changes.owed => i \in changes'.owed \/ Announced(i)
    /\ \A i \in Pending' : i \in changes.owed_remote => Announced(i)' \/ WholeIsDue
    /\ \A p \in Passes : pass'[p].at = "cut" /\ changes'.owed_remote # {} =>
         changes.owed_remote # {} \/ WholeIsDue

(* No pass lets go of what it carries, begins to read, or is cut short     *)
(* without a whole read due                                                *)
PassesKeep ==
    /\ \A p \in Passes : \A i \in Pending' : Carries(p, i) => Announced(i)'
    /\ \A p \in Passes : pass'[p].at \in Reading => pass[p].at \in Reading
    /\ \A p \in Passes : pass'[p].at = "cut" => pass[p].at = "cut" \/ WholeIsDue'

LEMMA CoverKeeps ==
    ASSUME ChangesInvariant, TypeOK', WatchShape', ListsCover, PassesKeep
    PROVE  ChangesInvariant'
<1> TypeOK
  BY DEF ChangesInvariant
<1>1. read_due => read_due'
  BY DEF read_due, ListsCover, Covers
<1>2. WholeIsDue => WholeIsDue'
  BY <1>1 DEF WholeIsDue, ListsCover
<1>3. ASSUME NEW i \in Pending', Announced(i)
      PROVE  Announced(i)'
  <2>1. CASE i \in fsq \cup unheard
    BY <1>3, <2>1 DEF ListsCover
  <2>2. CASE i \in changes.local
    <3>1. i \in changes'.local \/ changes'.localFull
      BY <2>2 DEF ListsCover, Covers
    <3> QED
      BY <3>1 DEF Announced, WholeIsDue, read_due
  <2>3. CASE i \in changes.remote
    <3>1. i \in changes'.remote \/ changes'.remoteFull
      BY <2>3 DEF ListsCover, Covers
    <3> QED
      BY <3>1 DEF Announced, WholeIsDue, read_due
  <2>4. CASE i \in changes.owed_remote
    BY <1>2, <1>3, <2>4 DEF ListsCover, Announced
  <2>5. CASE WholeIsDue \/ changes.held
    BY <1>2, <2>5 DEF ListsCover, Covers, Announced
  <2>6. CASE \E p \in Passes : Carries(p, i)
    BY <1>3, <2>6 DEF PassesKeep
  <2>7. CASE i \in LocalItems /\ ~changes.local_covered
    BY <2>7 DEF ListsCover, Covers, Announced
  <2> QED
    BY <1>3, <2>1, <2>2, <2>3, <2>4, <2>5, <2>6, <2>7 DEF Announced
<1>4. NoLostChange'
  <2> SUFFICES ASSUME NEW i \in Pending'
               PROVE  Announced(i)' \/ i \in changes'.owed \cap LocalItems
    BY DEF NoLostChange
  <2>1. i \in Pending \/ Announced(i)'
    BY DEF ListsCover
  <2>2. i \in changes.owed => i \in changes'.owed \/ Announced(i)
    BY DEF ListsCover
  <2> QED
    BY <1>3, <2>1, <2>2 DEF ChangesInvariant, NoLostChange
<1>5. OwedIsSpare'
  <2> SUFFICES ASSUME NEW p \in Passes, pass'[p].at \in Reading, NEW i \in Pending'
               PROVE  Announced(i)'
    BY DEF OwedIsSpare, Reading
  <2>1. i \in Pending \/ Announced(i)'
    BY DEF ListsCover
  <2>2. pass[p].at \in Reading
    BY DEF PassesKeep
  <2> QED
    BY <1>3, <2>1, <2>2 DEF ChangesInvariant, OwedIsSpare, Reading
<1>6. HandBackIsSpare'
  <2> SUFFICES ASSUME NEW p \in Passes, pass'[p].at = "cut",
                      \/ changes'.owed_remote # {}
                      \/ \E q \in Passes \ {p} : pass'[q].at = "cut"
               PROVE  WholeIsDue'
    BY DEF HandBackIsSpare
  <2>1. changes'.owed_remote # {} => changes.owed_remote # {} \/ WholeIsDue
    BY DEF ListsCover
  <2>2. \A q \in Passes : pass'[q].at = "cut" => pass[q].at = "cut" \/ WholeIsDue'
    BY DEF PassesKeep
  <2> QED
    BY <1>2, <2>1, <2>2 DEF ChangesInvariant, HandBackIsSpare
<1> QED
  BY <1>4, <1>5, <1>6 DEF ChangesInvariant

LEMMA GrowthKeeps ==
    ASSUME ChangesInvariant, TypeOK', WatchShape', ListsKeep, PassesKeep
    PROVE  ChangesInvariant'
<1>1. ListsCover
  BY DEF ListsKeep, ListsCover, Grows, Announced
<1> QED
  BY <1>1, CoverKeeps

(* With a whole read due nothing else is to be shown *)
LEMMA WholeKeeps ==
    ASSUME TypeOK', WatchShape', read_due'
    PROVE  ChangesInvariant'
  BY DEF ChangesInvariant, NoLostChange, OwedIsSpare, HandBackIsSpare, Announced, WholeIsDue

LEMMA SamePasses ==
    ASSUME UNCHANGED pass
    PROVE  PassesKeep
  BY DEF PassesKeep, Carries, Announced

(* The pass p goes on, its record now r *)
LEMMA OnePass ==
    ASSUME TypeOK, NEW p \in Passes, NEW r \in PassState, pass' = [pass EXCEPT ![p] = r],
           \A i \in Pending' : Carries(p, i) => Announced(i)',
           r.at \in Reading => pass[p].at \in Reading,
           r.at = "cut" => pass[p].at = "cut" \/ WholeIsDue'
    PROVE  PassesKeep
<1>1. pass \in [Passes -> PassState]
  BY DEF TypeOK
<1>2. pass'[p] = r /\ \A q \in Passes \ {p} : pass'[q] = pass[q]
  BY <1>1
<1>3. ASSUME NEW q \in Passes, NEW i \in Pending', Carries(q, i)
      PROVE  Announced(i)'
  <2>1. CASE q = p
    BY <1>3, <2>1
  <2>2. CASE q # p
    <3>1. Carries(q, i)'
      BY <1>2, <1>3, <2>2 DEF Carries
    <3> QED
      BY <3>1 DEF Announced
  <2> QED
    BY <2>1, <2>2
<1> QED
  BY <1>2, <1>3 DEF PassesKeep

(* A pass that ends owing a next one carries every change until it says so *)
LEMMA EndOwes ==
    ASSUME NEW p \in Passes, pass'[p].at = "end", pass'[p].next # "none", NEW i
    PROVE  Announced(i)'
  BY DEF Announced, Carries

Ended(next, failed, owes) ==
    [NoPass EXCEPT !.at = "end", !.next = next, !.failed = failed, !.owes = owes]

LEMMA EndedType ==
    ASSUME NEW next \in {"none", "force", "hold"}, NEW failed \in BOOLEAN, NEW owes \in BOOLEAN
    PROVE  /\ Ended(next, failed, owes) \in PassState
           /\ Ended(next, failed, owes).at = "end"
           /\ Ended(next, failed, owes).next = next
<1>1. NoPass \in PassState /\ "end" \in PassPlaces
  BY DEF NoPass, PassState, PassPlaces, CatchUps
<1>2. Ended(next, failed, owes) \in PassState
  BY <1>1 DEF Ended, PassState
<1>3. Ended(next, failed, owes).at = "end" /\ Ended(next, failed, owes).next = next
  BY DEF Ended, NoPass
<1> QED
  BY <1>2, <1>3

(* A pass that is over: what it carried is for the next one *)
LEMMA DonePasses ==
    ASSUME TypeOK, NEW p \in Passes, NEW next \in {"none", "force", "hold"},
           NEW failed \in BOOLEAN, NEW owes \in BOOLEAN, Done(p, next, failed, owes),
           next = "none" => \A i \in Pending' : Carries(p, i) => Announced(i)'
    PROVE  /\ PassesKeep
           /\ pass' \in [Passes -> PassState]
           /\ \A q \in Passes \ {p} : pass'[q] = pass[q]
           /\ pass'[p].at = "end"
<1> DEFINE r == Ended(next, failed, owes)
<1>1. r \in PassState /\ r.at = "end" /\ r.next = next
  BY EndedType
<1>2. pass' = [pass EXCEPT ![p] = r]
  BY DEF Done, Ended
<1> HIDE DEF r
<1>3. pass'[p] = r
  BY <1>2 DEF TypeOK
<1>4. \A i \in Pending' : Carries(p, i) => Announced(i)'
  BY <1>1, <1>3, EndOwes
<1>5. PassesKeep
  BY <1>1, <1>2, <1>4, OnePass DEF Reading
<1> QED
  BY <1>1, <1>2, <1>5 DEF TypeOK

-----------------------------------------------------------------------------
(* Announcements and the caller. *)

LEMMA SocketChangesKeeps ==
    ASSUME ChangesInvariant, SocketChanges
    PROVE  ChangesInvariant'
<1> TypeOK /\ WatchShape
  BY DEF ChangesInvariant
<1>1. Grows(changes, changes')
  BY SameGrows DEF TypeOK, SocketChanges, UserVars
<1>2. PassesKeep /\ pass' \in [Passes -> PassState]
  BY SamePasses DEF TypeOK, SocketChanges, UserVars
<1>3. changes' \in ChangeState
  BY <1>1 DEF Grows, Covers
<1>4. TypeOK'
  <2>1. /\ unsynced' \subseteq Items /\ fsq' \subseteq LocalItems
        /\ unheard' \subseteq RemoteItems /\ missed' \subseteq LocalItems
    BY DEF TypeOK, SocketChanges, UserVars
  <2>2. /\ reading' \in Passes \cup {"free"} /\ approval' \subseteq Items
        /\ offered' \subseteq Items /\ loop' \in LoopPlaces
    BY DEF TypeOK, SocketChanges, UserVars, LoopPlaces
  <2>3. /\ live' \in BOOLEAN /\ paused' \in BOOLEAN /\ resuming' \in BOOLEAN
        /\ dirty' \in BOOLEAN /\ requested' \in BOOLEAN /\ broke' \in BOOLEAN
    BY DEF TypeOK, SocketChanges, UserVars
  <2>4. used' \in [changes : 0..MAX_CHANGES, events : 0..MAX_EVENTS]
    BY DEF TypeOK, SocketChanges, UserVars, Event, Spend
  <2> QED
    BY <2>1, <2>2, <2>3, <2>4, <1>2, <1>3 DEF TypeOK
<1>5. WatchShape'
  BY <1>1 DEF WatchShape, Watched, Grows, Covers, SocketChanges, UserVars
<1>6. ListsKeep
  BY <1>1 DEF ListsKeep, Pending, Announced, WholeIsDue, SocketChanges, UserVars
<1> QED
  BY <1>2, <1>4, <1>5, <1>6, GrowthKeeps

LEMMA PauseKeeps ==
    ASSUME ChangesInvariant, pause_pair
    PROVE  ChangesInvariant'
<1> TypeOK /\ WatchShape
  BY DEF ChangesInvariant
<1>1. Grows(changes, changes')
  BY SameGrows DEF TypeOK, pause_pair, EnvVars
<1>2. PassesKeep /\ pass' \in [Passes -> PassState]
  BY SamePasses DEF TypeOK, pause_pair, EnvVars
<1>3. changes' \in ChangeState
  BY <1>1 DEF Grows, Covers
<1>4. TypeOK'
  <2>1. /\ unsynced' \subseteq Items /\ fsq' \subseteq LocalItems
        /\ unheard' \subseteq RemoteItems /\ missed' \subseteq LocalItems
    BY DEF TypeOK, pause_pair, EnvVars
  <2>2. /\ reading' \in Passes \cup {"free"} /\ approval' \subseteq Items
        /\ offered' \subseteq Items /\ loop' \in LoopPlaces
    BY DEF TypeOK, pause_pair, EnvVars, LoopPlaces
  <2>3. /\ live' \in BOOLEAN /\ paused' \in BOOLEAN /\ resuming' \in BOOLEAN
        /\ dirty' \in BOOLEAN /\ requested' \in BOOLEAN /\ broke' \in BOOLEAN
    BY DEF TypeOK, pause_pair, EnvVars
  <2>4. used' \in [changes : 0..MAX_CHANGES, events : 0..MAX_EVENTS]
    BY DEF TypeOK, pause_pair, EnvVars, Event, Spend
  <2> QED
    BY <2>1, <2>2, <2>3, <2>4, <1>2, <1>3 DEF TypeOK
<1>5. WatchShape'
  BY <1>1 DEF WatchShape, Watched, Grows, Covers, pause_pair, EnvVars
<1>6. ListsKeep
  BY <1>1 DEF ListsKeep, Pending, Announced, WholeIsDue, pause_pair, EnvVars
<1> QED
  BY <1>2, <1>4, <1>5, <1>6, GrowthKeeps

LEMMA ResumeKeeps ==
    ASSUME ChangesInvariant, resume_pair
    PROVE  ChangesInvariant'
<1> TypeOK /\ WatchShape
  BY DEF ChangesInvariant
<1>1. Grows(changes, changes')
  BY SameGrows DEF TypeOK, resume_pair, EnvVars
<1>2. PassesKeep /\ pass' \in [Passes -> PassState]
  BY SamePasses DEF TypeOK, resume_pair, EnvVars
<1>3. changes' \in ChangeState
  BY <1>1 DEF Grows, Covers
<1>4. TypeOK'
  <2>1. /\ unsynced' \subseteq Items /\ fsq' \subseteq LocalItems
        /\ unheard' \subseteq RemoteItems /\ missed' \subseteq LocalItems
    BY DEF TypeOK, resume_pair, EnvVars
  <2>2. /\ reading' \in Passes \cup {"free"} /\ approval' \subseteq Items
        /\ offered' \subseteq Items /\ loop' \in LoopPlaces
    BY DEF TypeOK, resume_pair, EnvVars, LoopPlaces
  <2>3. /\ live' \in BOOLEAN /\ paused' \in BOOLEAN /\ resuming' \in BOOLEAN
        /\ dirty' \in BOOLEAN /\ requested' \in BOOLEAN /\ broke' \in BOOLEAN
    BY DEF TypeOK, resume_pair, EnvVars
  <2>4. used' \in [changes : 0..MAX_CHANGES, events : 0..MAX_EVENTS]
    BY DEF TypeOK, resume_pair, EnvVars, Event, Spend
  <2> QED
    BY <2>1, <2>2, <2>3, <2>4, <1>2, <1>3 DEF TypeOK
<1>5. WatchShape'
  BY <1>1 DEF WatchShape, Watched, Grows, Covers, resume_pair, EnvVars
<1>6. ListsKeep
  BY <1>1 DEF ListsKeep, Pending, Announced, WholeIsDue, resume_pair, EnvVars
<1> QED
  BY <1>2, <1>4, <1>5, <1>6, GrowthKeeps

LEMMA ForceResumedKeeps ==
    ASSUME ChangesInvariant, ForceResumed
    PROVE  ChangesInvariant'
<1> TypeOK /\ WatchShape
  BY DEF ChangesInvariant
<1>1. Grows(changes, changes')
  BY ForceGrows DEF TypeOK, CatchUps, ForceResumed
<1>2. PassesKeep /\ pass' \in [Passes -> PassState]
  BY SamePasses DEF TypeOK, ForceResumed, EnvVars
<1>3. changes' \in ChangeState
  BY <1>1 DEF Grows, Covers
<1>4. TypeOK'
  <2>1. /\ unsynced' \subseteq Items /\ fsq' \subseteq LocalItems
        /\ unheard' \subseteq RemoteItems /\ missed' \subseteq LocalItems
    BY DEF TypeOK, ForceResumed, EnvVars
  <2>2. /\ reading' \in Passes \cup {"free"} /\ approval' \subseteq Items
        /\ offered' \subseteq Items /\ loop' \in LoopPlaces
    BY DEF TypeOK, ForceResumed, EnvVars, LoopPlaces
  <2>3. /\ live' \in BOOLEAN /\ paused' \in BOOLEAN /\ resuming' \in BOOLEAN
        /\ dirty' \in BOOLEAN /\ requested' \in BOOLEAN /\ broke' \in BOOLEAN
    BY DEF TypeOK, ForceResumed, EnvVars
  <2>4. used' \in [changes : 0..MAX_CHANGES, events : 0..MAX_EVENTS]
    BY DEF TypeOK, ForceResumed, EnvVars, Event, Spend
  <2> QED
    BY <2>1, <2>2, <2>3, <2>4, <1>2, <1>3 DEF TypeOK
<1>5. WatchShape'
  BY <1>1 DEF WatchShape, Watched, Grows, Covers, ForceResumed, EnvVars
<1>6. ListsKeep
  <2>1. read_due'
    BY ForceGrows DEF TypeOK, CatchUps, read_due, ForceResumed
  <2> QED
    BY <1>1, <2>1 DEF ListsKeep, Pending, Announced, WholeIsDue, ForceResumed, EnvVars
<1> QED
  BY <1>2, <1>4, <1>5, <1>6, GrowthKeeps

LEMMA RequestPassKeeps ==
    ASSUME ChangesInvariant, request_pass
    PROVE  ChangesInvariant'
<1> TypeOK /\ WatchShape
  BY DEF ChangesInvariant
<1>1. Grows(changes, changes')
  BY ForceGrows DEF TypeOK, CatchUps, request_pass
<1>2. PassesKeep /\ pass' \in [Passes -> PassState]
  BY SamePasses DEF TypeOK, request_pass, EnvVars, UserVars
<1>3. changes' \in ChangeState
  BY <1>1 DEF Grows, Covers
<1>4. TypeOK'
  <2>1. /\ unsynced' \subseteq Items /\ fsq' \subseteq LocalItems
        /\ unheard' \subseteq RemoteItems /\ missed' \subseteq LocalItems
    BY DEF TypeOK, request_pass, EnvVars, UserVars
  <2>2. /\ reading' \in Passes \cup {"free"} /\ approval' \subseteq Items
        /\ offered' \subseteq Items /\ loop' \in LoopPlaces
    BY DEF TypeOK, request_pass, EnvVars, UserVars, LoopPlaces
  <2>3. /\ live' \in BOOLEAN /\ paused' \in BOOLEAN /\ resuming' \in BOOLEAN
        /\ dirty' \in BOOLEAN /\ requested' \in BOOLEAN /\ broke' \in BOOLEAN
    BY DEF TypeOK, request_pass, EnvVars, UserVars
  <2>4. used' \in [changes : 0..MAX_CHANGES, events : 0..MAX_EVENTS]
    BY DEF TypeOK, request_pass, EnvVars, UserVars, Event, Spend
  <2> QED
    BY <2>1, <2>2, <2>3, <2>4, <1>2, <1>3 DEF TypeOK
<1>5. WatchShape'
  BY <1>1 DEF WatchShape, Watched, Grows, Covers, request_pass, EnvVars, UserVars
<1>6. ListsKeep
  <2>1. read_due'
    BY ForceGrows DEF TypeOK, CatchUps, read_due, request_pass
  <2> QED
    BY <1>1, <2>1 DEF ListsKeep, Pending, Announced, WholeIsDue, request_pass, EnvVars, UserVars
<1> QED
  BY <1>2, <1>4, <1>5, <1>6, GrowthKeeps

LEMMA ApproveKeeps ==
    ASSUME ChangesInvariant, approve_deletions
    PROVE  ChangesInvariant'
<1> TypeOK /\ WatchShape
  BY DEF ChangesInvariant
<1>1. Grows(changes, changes')
  BY ForceGrows DEF TypeOK, CatchUps, approve_deletions
<1>2. PassesKeep /\ pass' \in [Passes -> PassState]
  BY SamePasses DEF TypeOK, approve_deletions, EnvVars
<1>3. changes' \in ChangeState
  BY <1>1 DEF Grows, Covers
<1>4. TypeOK'
  <2>1. /\ unsynced' \subseteq Items /\ fsq' \subseteq LocalItems
        /\ unheard' \subseteq RemoteItems /\ missed' \subseteq LocalItems
    BY DEF TypeOK, approve_deletions, EnvVars
  <2>2. /\ reading' \in Passes \cup {"free"} /\ approval' \subseteq Items
        /\ offered' \subseteq Items /\ loop' \in LoopPlaces
    BY DEF TypeOK, approve_deletions, EnvVars, LoopPlaces
  <2>3. /\ live' \in BOOLEAN /\ paused' \in BOOLEAN /\ resuming' \in BOOLEAN
        /\ dirty' \in BOOLEAN /\ requested' \in BOOLEAN /\ broke' \in BOOLEAN
    BY DEF TypeOK, approve_deletions, EnvVars
  <2>4. used' \in [changes : 0..MAX_CHANGES, events : 0..MAX_EVENTS]
    BY DEF TypeOK, approve_deletions, EnvVars, Event, Spend
  <2> QED
    BY <2>1, <2>2, <2>3, <2>4, <1>2, <1>3 DEF TypeOK
<1>5. WatchShape'
  BY <1>1 DEF WatchShape, Watched, Grows, Covers, approve_deletions, EnvVars
<1>6. ListsKeep
  <2>1. read_due'
    BY ForceGrows DEF TypeOK, CatchUps, read_due, approve_deletions
  <2> QED
    BY <1>1, <2>1 DEF ListsKeep, Pending, Announced, WholeIsDue, approve_deletions, EnvVars
<1> QED
  BY <1>2, <1>4, <1>5, <1>6, GrowthKeeps

LEMMA NetDueKeeps ==
    ASSUME ChangesInvariant, NetDue
    PROVE  ChangesInvariant'
<1> TypeOK /\ WatchShape
  BY DEF ChangesInvariant
<1>1. Grows(changes, changes')
  BY ForceGrows DEF TypeOK, CatchUps, NetDue
<1>2. PassesKeep /\ pass' \in [Passes -> PassState]
  BY SamePasses DEF TypeOK, NetDue, LoopVars, EnvVars, UserVars
<1>3. changes' \in ChangeState
  BY <1>1 DEF Grows, Covers
<1>4. TypeOK'
  <2>1. /\ unsynced' \subseteq Items /\ fsq' \subseteq LocalItems
        /\ unheard' \subseteq RemoteItems /\ missed' \subseteq LocalItems
    BY DEF TypeOK, NetDue, LoopVars, EnvVars, UserVars
  <2>2. /\ reading' \in Passes \cup {"free"} /\ approval' \subseteq Items
        /\ offered' \subseteq Items /\ loop' \in LoopPlaces
    BY DEF TypeOK, NetDue, LoopVars, EnvVars, UserVars, LoopPlaces
  <2>3. /\ live' \in BOOLEAN /\ paused' \in BOOLEAN /\ resuming' \in BOOLEAN
        /\ dirty' \in BOOLEAN /\ requested' \in BOOLEAN /\ broke' \in BOOLEAN
    BY DEF TypeOK, NetDue, LoopVars, EnvVars, UserVars
  <2>4. used' \in [changes : 0..MAX_CHANGES, events : 0..MAX_EVENTS]
    BY DEF TypeOK, NetDue, LoopVars, EnvVars, UserVars, Event, Spend
  <2> QED
    BY <2>1, <2>2, <2>3, <2>4, <1>2, <1>3 DEF TypeOK
<1>5. WatchShape'
  BY <1>1 DEF WatchShape, Watched, Grows, Covers, NetDue, LoopVars, EnvVars, UserVars
<1>6. ListsKeep
  <2>1. read_due'
    BY ForceGrows DEF TypeOK, CatchUps, read_due, NetDue
  <2> QED
    BY <1>1, <2>1 DEF ListsKeep, Pending, Announced, WholeIsDue, NetDue, LoopVars, EnvVars, UserVars
<1> QED
  BY <1>2, <1>4, <1>5, <1>6, GrowthKeeps

LEMMA LocalEventKeeps ==
    ASSUME ChangesInvariant, NEW i \in Items, LocalEvent(i)
    PROVE  ChangesInvariant'
<1> TypeOK /\ WatchShape
  BY DEF ChangesInvariant
<1>1. Grows(changes, changes')
  BY NoteLocalGrows DEF TypeOK, LocalEvent
<1>2. PassesKeep /\ pass' \in [Passes -> PassState]
  BY SamePasses DEF TypeOK, LocalEvent, UserVars
<1>3. changes' \in ChangeState
  BY <1>1 DEF Grows, Covers
<1>4. TypeOK'
  <2>1. /\ unsynced' \subseteq Items /\ fsq' \subseteq LocalItems
        /\ unheard' \subseteq RemoteItems /\ missed' \subseteq LocalItems
    BY DEF TypeOK, LocalEvent, UserVars
  <2>2. /\ reading' \in Passes \cup {"free"} /\ approval' \subseteq Items
        /\ offered' \subseteq Items /\ loop' \in LoopPlaces
    BY DEF TypeOK, LocalEvent, UserVars, LoopPlaces
  <2>3. /\ live' \in BOOLEAN /\ paused' \in BOOLEAN /\ resuming' \in BOOLEAN
        /\ dirty' \in BOOLEAN /\ requested' \in BOOLEAN /\ broke' \in BOOLEAN
    BY DEF TypeOK, LocalEvent, UserVars
  <2>4. used' \in [changes : 0..MAX_CHANGES, events : 0..MAX_EVENTS]
    BY DEF TypeOK, LocalEvent, UserVars, Event, Spend
  <2> QED
    BY <2>1, <2>2, <2>3, <2>4, <1>2, <1>3 DEF TypeOK
<1>5. WatchShape'
  BY <1>1 DEF WatchShape, Watched, Grows, Covers, LocalEvent, UserVars
<1>6. ListsKeep
  <2>1. i \in changes'.local \/ changes'.localFull
    BY NoteLocalGrows DEF TypeOK, LocalEvent
  <2>2. Announced(i)'
    BY <2>1 DEF Announced, WholeIsDue, read_due
  <2> QED
    BY <1>1, <2>2 DEF ListsKeep, Pending, Announced, WholeIsDue, LocalEvent, UserVars
<1> QED
  BY <1>2, <1>4, <1>5, <1>6, GrowthKeeps

LEMMA EventsDroppedKeeps ==
    ASSUME ChangesInvariant, EventsDropped
    PROVE  ChangesInvariant'
<1> TypeOK /\ WatchShape
  BY DEF ChangesInvariant
<1>1. Grows(changes, changes')
  <2>1. Grows(changes, [changes EXCEPT !.localFull = TRUE, !.local = {}])
    BY DEF TypeOK, ChangeState, Grows, Covers
  <2>2. Grows(changes, [changes EXCEPT !.degraded = TRUE])
    BY DEF TypeOK, ChangeState, Grows, Covers
  <2> QED
    BY <2>1, <2>2 DEF EventsDropped
<1>2. PassesKeep /\ pass' \in [Passes -> PassState]
  BY SamePasses DEF TypeOK, EventsDropped, UserVars
<1>3. changes' \in ChangeState
  BY <1>1 DEF Grows, Covers
<1>4. TypeOK'
  <2>1. /\ unsynced' \subseteq Items /\ fsq' \subseteq LocalItems
        /\ unheard' \subseteq RemoteItems /\ missed' \subseteq LocalItems
    BY DEF TypeOK, EventsDropped, UserVars
  <2>2. /\ reading' \in Passes \cup {"free"} /\ approval' \subseteq Items
        /\ offered' \subseteq Items /\ loop' \in LoopPlaces
    BY DEF TypeOK, EventsDropped, UserVars, LoopPlaces
  <2>3. /\ live' \in BOOLEAN /\ paused' \in BOOLEAN /\ resuming' \in BOOLEAN
        /\ dirty' \in BOOLEAN /\ requested' \in BOOLEAN /\ broke' \in BOOLEAN
    BY DEF TypeOK, EventsDropped, UserVars
  <2>4. used' \in [changes : 0..MAX_CHANGES, events : 0..MAX_EVENTS]
    BY DEF TypeOK, EventsDropped, UserVars, Event, Spend
  <2> QED
    BY <2>1, <2>2, <2>3, <2>4, <1>2, <1>3 DEF TypeOK
<1>5. WatchShape'
  BY <1>1 DEF WatchShape, Watched, Grows, Covers, EventsDropped, UserVars
<1>6. ListsKeep
  <2>1. read_due'
    BY DEF TypeOK, ChangeState, read_due, EventsDropped
  <2> QED
    BY <1>1, <2>1 DEF ListsKeep, Pending, Announced, WholeIsDue, EventsDropped, UserVars
<1> QED
  BY <1>2, <1>4, <1>5, <1>6, GrowthKeeps

LEMMA RemoteEventKeeps ==
    ASSUME ChangesInvariant, NEW i \in Items, RemoteEvent(i)
    PROVE  ChangesInvariant'
<1> TypeOK /\ WatchShape
  BY DEF ChangesInvariant
<1>1. Grows(changes, changes')
  BY NoteRemoteGrows DEF TypeOK, RemoteEvent, Dispatch
<1>2. PassesKeep /\ pass' \in [Passes -> PassState]
  BY SamePasses DEF TypeOK, RemoteEvent, Dispatch, UserVars
<1>3. changes' \in ChangeState
  BY <1>1 DEF Grows, Covers
<1>4. TypeOK'
  <2>1. /\ unsynced' \subseteq Items /\ fsq' \subseteq LocalItems
        /\ unheard' \subseteq RemoteItems /\ missed' \subseteq LocalItems
    BY DEF TypeOK, RemoteEvent, Dispatch, UserVars
  <2>2. /\ reading' \in Passes \cup {"free"} /\ approval' \subseteq Items
        /\ offered' \subseteq Items /\ loop' \in LoopPlaces
    BY DEF TypeOK, RemoteEvent, Dispatch, UserVars, LoopPlaces
  <2>3. /\ live' \in BOOLEAN /\ paused' \in BOOLEAN /\ resuming' \in BOOLEAN
        /\ dirty' \in BOOLEAN /\ requested' \in BOOLEAN /\ broke' \in BOOLEAN
    BY DEF TypeOK, RemoteEvent, Dispatch, UserVars
  <2>4. used' \in [changes : 0..MAX_CHANGES, events : 0..MAX_EVENTS]
    BY DEF TypeOK, RemoteEvent, Dispatch, UserVars, Event, Spend
  <2> QED
    BY <2>1, <2>2, <2>3, <2>4, <1>2, <1>3 DEF TypeOK
<1>5. WatchShape'
  BY <1>1 DEF WatchShape, Watched, Grows, Covers, RemoteEvent, Dispatch, UserVars
<1>6. ListsKeep
  <2>1. i \in changes'.remote \/ changes'.remoteFull
    BY NoteRemoteGrows DEF TypeOK, RemoteEvent, Dispatch
  <2>2. Announced(i)'
    BY <2>1 DEF Announced, WholeIsDue, read_due
  <2> QED
    BY <1>1, <2>2 DEF ListsKeep, Pending, Announced, WholeIsDue, RemoteEvent, Dispatch, UserVars
<1> QED
  BY <1>2, <1>4, <1>5, <1>6, GrowthKeeps

LEMMA ChangeKeeps ==
    ASSUME ChangesInvariant, NEW i \in Items, Change(i)
    PROVE  ChangesInvariant'
<1> TypeOK /\ WatchShape
  BY DEF ChangesInvariant
<1>1. Grows(changes, changes')
  BY SameGrows DEF TypeOK, Change, UserVars
<1>2. PassesKeep /\ pass' \in [Passes -> PassState]
  <2>1. pass' \in [Passes -> PassState]
    <3>1. \A p \in Passes : [pass[p] EXCEPT !.cur = @ \ {i}] \in PassState
      BY DEF TypeOK, PassState
    <3> QED
      BY <3>1 DEF Change
  <2>2. Announced(i)'
    BY DEF Change, Announced, Watched, WatchShape, Items, UserVars
  <2>3. \A p \in Passes : pass'[p].at = pass[p].at
    BY DEF Change, TypeOK, PassState
  <2>4. ASSUME NEW p \in Passes, NEW j \in Pending', Carries(p, j)
        PROVE  Announced(j)'
    <3>1. CASE j = i
      BY <2>2, <3>1
    <3>2. CASE j # i
      <4>1. pass'[p] = [pass[p] EXCEPT !.cur = @ \ {i}]
        BY DEF Change
      <4>2. pass[p] \in PassState
        BY DEF TypeOK
      <4>3. j \in pass[p].cur => j \in pass'[p].cur
        BY <3>2, <4>1, <4>2 DEF PassState
      <4>4. /\ pass'[p].at = pass[p].at /\ pass'[p].full = pass[p].full
            /\ pass'[p].local = pass[p].local /\ pass'[p].remote = pass[p].remote
            /\ pass'[p].plan = pass[p].plan /\ pass'[p].next = pass[p].next
        BY <4>1, <4>2 DEF PassState
      <4>5. Carries(p, j)'
        BY <2>4, <4>3, <4>4 DEF Carries
      <4> QED
        BY <4>5 DEF Announced
    <3> QED
      BY <3>1, <3>2
  <2> QED
    BY <2>1, <2>3, <2>4 DEF PassesKeep
<1>3. changes' \in ChangeState
  BY <1>1 DEF Grows, Covers
<1>4. TypeOK'
  <2>1. /\ unsynced' \subseteq Items /\ fsq' \subseteq LocalItems
        /\ unheard' \subseteq RemoteItems /\ missed' \subseteq LocalItems
    BY DEF TypeOK, Change, UserVars, Spend
  <2>2. /\ reading' \in Passes \cup {"free"} /\ approval' \subseteq Items
        /\ offered' \subseteq Items /\ loop' \in LoopPlaces
    BY DEF TypeOK, Change, UserVars, Spend, LoopPlaces
  <2>3. /\ live' \in BOOLEAN /\ paused' \in BOOLEAN /\ resuming' \in BOOLEAN
        /\ dirty' \in BOOLEAN /\ requested' \in BOOLEAN /\ broke' \in BOOLEAN
    BY DEF TypeOK, Change, UserVars, Spend
  <2>4. used' \in [changes : 0..MAX_CHANGES, events : 0..MAX_EVENTS]
    BY DEF TypeOK, Change, UserVars, Spend, Event
  <2> QED
    BY <2>1, <2>2, <2>3, <2>4, <1>2, <1>3 DEF TypeOK
<1>5. WatchShape'
  BY DEF WatchShape, Watched, Change, TypeOK, PassState, Passes
<1>6. ListsKeep
  <2>1. Announced(i)'
    BY DEF Change, Announced, Watched, WatchShape, Items, UserVars
  <2>2. /\ Pending' \subseteq Pending \cup {i}
        /\ fsq \subseteq fsq' /\ unheard \subseteq unheard'
        /\ UNCHANGED <<changes, paused, resuming>>
    BY DEF Change, Pending, UserVars
  <2> QED
    BY <1>1, <2>1, <2>2 DEF ListsKeep, Announced, WholeIsDue
<1> QED
  BY <1>2, <1>4, <1>5, <1>6, GrowthKeeps

-----------------------------------------------------------------------------
(* The watch loop. *)

LEMMA WokenKeeps ==
    ASSUME ChangesInvariant, Woken
    PROVE  ChangesInvariant'
<1> TypeOK /\ WatchShape
  BY DEF ChangesInvariant
<1>1. Grows(changes, changes')
  BY SameGrows DEF TypeOK, Woken, LoopVars, EnvVars, UserVars
<1>2. PassesKeep /\ pass' \in [Passes -> PassState]
  BY SamePasses DEF TypeOK, Woken, LoopVars, EnvVars, UserVars
<1>3. changes' \in ChangeState
  BY <1>1 DEF Grows, Covers
<1>4. TypeOK'
  <2>1. /\ unsynced' \subseteq Items /\ fsq' \subseteq LocalItems
        /\ unheard' \subseteq RemoteItems /\ missed' \subseteq LocalItems
    BY DEF TypeOK, Woken, LoopVars, EnvVars, UserVars
  <2>2. /\ reading' \in Passes \cup {"free"} /\ approval' \subseteq Items
        /\ offered' \subseteq Items /\ loop' \in LoopPlaces
    BY DEF TypeOK, Woken, LoopVars, EnvVars, UserVars, LoopPlaces
  <2>3. /\ live' \in BOOLEAN /\ paused' \in BOOLEAN /\ resuming' \in BOOLEAN
        /\ dirty' \in BOOLEAN /\ requested' \in BOOLEAN /\ broke' \in BOOLEAN
    BY DEF TypeOK, Woken, LoopVars, EnvVars, UserVars
  <2>4. used' \in [changes : 0..MAX_CHANGES, events : 0..MAX_EVENTS]
    BY DEF TypeOK, Woken, LoopVars, EnvVars, UserVars, Event, Spend
  <2> QED
    BY <2>1, <2>2, <2>3, <2>4, <1>2, <1>3 DEF TypeOK
<1>5. WatchShape'
  BY <1>1 DEF WatchShape, Watched, Grows, Covers, Woken, LoopVars, EnvVars, UserVars
<1>6. ListsKeep
  BY <1>1 DEF ListsKeep, Pending, Announced, WholeIsDue, Woken, LoopVars, EnvVars, UserVars
<1> QED
  BY <1>2, <1>4, <1>5, <1>6, GrowthKeeps

LEMMA DebounceRestartsKeeps ==
    ASSUME ChangesInvariant, DebounceRestarts
    PROVE  ChangesInvariant'
<1> TypeOK /\ WatchShape
  BY DEF ChangesInvariant
<1>1. Grows(changes, changes')
  BY SameGrows DEF TypeOK, DebounceRestarts, LoopVars, EnvVars, UserVars
<1>2. PassesKeep /\ pass' \in [Passes -> PassState]
  BY SamePasses DEF TypeOK, DebounceRestarts, LoopVars, EnvVars, UserVars
<1>3. changes' \in ChangeState
  BY <1>1 DEF Grows, Covers
<1>4. TypeOK'
  <2>1. /\ unsynced' \subseteq Items /\ fsq' \subseteq LocalItems
        /\ unheard' \subseteq RemoteItems /\ missed' \subseteq LocalItems
    BY DEF TypeOK, DebounceRestarts, LoopVars, EnvVars, UserVars
  <2>2. /\ reading' \in Passes \cup {"free"} /\ approval' \subseteq Items
        /\ offered' \subseteq Items /\ loop' \in LoopPlaces
    BY DEF TypeOK, DebounceRestarts, LoopVars, EnvVars, UserVars, LoopPlaces
  <2>3. /\ live' \in BOOLEAN /\ paused' \in BOOLEAN /\ resuming' \in BOOLEAN
        /\ dirty' \in BOOLEAN /\ requested' \in BOOLEAN /\ broke' \in BOOLEAN
    BY DEF TypeOK, DebounceRestarts, LoopVars, EnvVars, UserVars
  <2>4. used' \in [changes : 0..MAX_CHANGES, events : 0..MAX_EVENTS]
    BY DEF TypeOK, DebounceRestarts, LoopVars, EnvVars, UserVars, Event, Spend
  <2> QED
    BY <2>1, <2>2, <2>3, <2>4, <1>2, <1>3 DEF TypeOK
<1>5. WatchShape'
  BY <1>1 DEF WatchShape, Watched, Grows, Covers, DebounceRestarts, LoopVars, EnvVars, UserVars
<1>6. ListsKeep
  BY <1>1 DEF ListsKeep, Pending, Announced, WholeIsDue, DebounceRestarts, LoopVars, EnvVars, UserVars
<1> QED
  BY <1>2, <1>4, <1>5, <1>6, GrowthKeeps

LEMMA DebounceEndsKeeps ==
    ASSUME ChangesInvariant, DebounceEnds
    PROVE  ChangesInvariant'
<1> TypeOK /\ WatchShape
  BY DEF ChangesInvariant
<1>1. Grows(changes, changes')
  BY SameGrows DEF TypeOK, DebounceEnds, LoopVars, EnvVars, UserVars
<1>2. PassesKeep /\ pass' \in [Passes -> PassState]
  BY SamePasses DEF TypeOK, DebounceEnds, LoopVars, EnvVars, UserVars
<1>3. changes' \in ChangeState
  BY <1>1 DEF Grows, Covers
<1>4. TypeOK'
  <2>1. /\ unsynced' \subseteq Items /\ fsq' \subseteq LocalItems
        /\ unheard' \subseteq RemoteItems /\ missed' \subseteq LocalItems
    BY DEF TypeOK, DebounceEnds, LoopVars, EnvVars, UserVars
  <2>2. /\ reading' \in Passes \cup {"free"} /\ approval' \subseteq Items
        /\ offered' \subseteq Items /\ loop' \in LoopPlaces
    BY DEF TypeOK, DebounceEnds, LoopVars, EnvVars, UserVars, LoopPlaces
  <2>3. /\ live' \in BOOLEAN /\ paused' \in BOOLEAN /\ resuming' \in BOOLEAN
        /\ dirty' \in BOOLEAN /\ requested' \in BOOLEAN /\ broke' \in BOOLEAN
    BY DEF TypeOK, DebounceEnds, LoopVars, EnvVars, UserVars
  <2>4. used' \in [changes : 0..MAX_CHANGES, events : 0..MAX_EVENTS]
    BY DEF TypeOK, DebounceEnds, LoopVars, EnvVars, UserVars, Event, Spend
  <2> QED
    BY <2>1, <2>2, <2>3, <2>4, <1>2, <1>3 DEF TypeOK
<1>5. WatchShape'
  BY <1>1 DEF WatchShape, Watched, Grows, Covers, DebounceEnds, LoopVars, EnvVars, UserVars
<1>6. ListsKeep
  BY <1>1 DEF ListsKeep, Pending, Announced, WholeIsDue, DebounceEnds, LoopVars, EnvVars, UserVars
<1> QED
  BY <1>2, <1>4, <1>5, <1>6, GrowthKeeps

LEMMA BackoffEndsKeeps ==
    ASSUME ChangesInvariant, BackoffEnds
    PROVE  ChangesInvariant'
<1> TypeOK /\ WatchShape
  BY DEF ChangesInvariant
<1>1. Grows(changes, changes')
  BY SameGrows DEF TypeOK, BackoffEnds, LoopVars, EnvVars, UserVars
<1>2. PassesKeep /\ pass' \in [Passes -> PassState]
  BY SamePasses DEF TypeOK, BackoffEnds, LoopVars, EnvVars, UserVars
<1>3. changes' \in ChangeState
  BY <1>1 DEF Grows, Covers
<1>4. TypeOK'
  <2>1. /\ unsynced' \subseteq Items /\ fsq' \subseteq LocalItems
        /\ unheard' \subseteq RemoteItems /\ missed' \subseteq LocalItems
    BY DEF TypeOK, BackoffEnds, LoopVars, EnvVars, UserVars
  <2>2. /\ reading' \in Passes \cup {"free"} /\ approval' \subseteq Items
        /\ offered' \subseteq Items /\ loop' \in LoopPlaces
    BY DEF TypeOK, BackoffEnds, LoopVars, EnvVars, UserVars, LoopPlaces
  <2>3. /\ live' \in BOOLEAN /\ paused' \in BOOLEAN /\ resuming' \in BOOLEAN
        /\ dirty' \in BOOLEAN /\ requested' \in BOOLEAN /\ broke' \in BOOLEAN
    BY DEF TypeOK, BackoffEnds, LoopVars, EnvVars, UserVars
  <2>4. used' \in [changes : 0..MAX_CHANGES, events : 0..MAX_EVENTS]
    BY DEF TypeOK, BackoffEnds, LoopVars, EnvVars, UserVars, Event, Spend
  <2> QED
    BY <2>1, <2>2, <2>3, <2>4, <1>2, <1>3 DEF TypeOK
<1>5. WatchShape'
  BY <1>1 DEF WatchShape, Watched, Grows, Covers, BackoffEnds, LoopVars, EnvVars, UserVars
<1>6. ListsKeep
  BY <1>1 DEF ListsKeep, Pending, Announced, WholeIsDue, BackoffEnds, LoopVars, EnvVars, UserVars
<1> QED
  BY <1>2, <1>4, <1>5, <1>6, GrowthKeeps

LEMMA WatchEndsKeeps ==
    ASSUME ChangesInvariant, WatchEnds
    PROVE  ChangesInvariant'
<1> TypeOK /\ WatchShape
  BY DEF ChangesInvariant
<1>1. Grows(changes, changes')
  BY DEF TypeOK, ChangeState, Grows, Covers, WatchEnds
<1>2. PassesKeep /\ pass' \in [Passes -> PassState]
  BY SamePasses DEF TypeOK, WatchEnds, UserVars
<1>3. changes' \in ChangeState
  BY <1>1 DEF Grows, Covers
<1>4. TypeOK'
  <2>1. /\ unsynced' \subseteq Items /\ fsq' \subseteq LocalItems
        /\ unheard' \subseteq RemoteItems /\ missed' \subseteq LocalItems
    BY DEF TypeOK, WatchEnds, UserVars
  <2>2. /\ reading' \in Passes \cup {"free"} /\ approval' \subseteq Items
        /\ offered' \subseteq Items /\ loop' \in LoopPlaces
    BY DEF TypeOK, WatchEnds, UserVars, LoopPlaces
  <2>3. /\ live' \in BOOLEAN /\ paused' \in BOOLEAN /\ resuming' \in BOOLEAN
        /\ dirty' \in BOOLEAN /\ requested' \in BOOLEAN /\ broke' \in BOOLEAN
    BY DEF TypeOK, WatchEnds, UserVars
  <2>4. used' \in [changes : 0..MAX_CHANGES, events : 0..MAX_EVENTS]
    BY DEF TypeOK, WatchEnds, UserVars, Event, Spend
  <2> QED
    BY <2>1, <2>2, <2>3, <2>4, <1>2, <1>3 DEF TypeOK
<1>5. WatchShape'
  BY DEF TypeOK, ChangeState, WatchShape, WatchEnds
<1>6. ListsKeep
  <2>1. /\ fsq \subseteq LocalItems /\ ~changes'.local_covered
        /\ UNCHANGED <<unsynced, missed, unheard, paused, resuming>>
    BY DEF TypeOK, ChangeState, WatchEnds, UserVars
  <2> QED
    BY <1>1, <2>1 DEF ListsKeep, Pending, Announced, WholeIsDue
<1> QED
  BY <1>2, <1>4, <1>5, <1>6, GrowthKeeps

(* A watch starts: with a whole read due it is still due, and without one   *)
(* every local change still pending is one the watch started over           *)
LEMMA WatchStartsKeeps ==
    ASSUME ChangesInvariant, WatchStarts
    PROVE  ChangesInvariant'
<1> TypeOK /\ WatchShape
  BY DEF ChangesInvariant
<1>1. /\ changes' \in ChangeState
      /\ changes' = [changes EXCEPT !.local_covered = TRUE]
  BY DEF TypeOK, ChangeState, WatchStarts
<1>2. UNCHANGED pass
  BY DEF WatchStarts
<1>3. TypeOK'
  <2>1. /\ unsynced' \subseteq Items /\ fsq' \subseteq LocalItems
        /\ unheard' \subseteq RemoteItems /\ missed' \subseteq LocalItems
    BY DEF TypeOK, WatchStarts, LoopVars, EnvVars, UserVars
  <2>2. /\ reading' \in Passes \cup {"free"} /\ approval' \subseteq Items
        /\ offered' \subseteq Items /\ loop' \in LoopPlaces
    BY DEF TypeOK, WatchStarts, LoopVars, EnvVars, UserVars, LoopPlaces
  <2>3. /\ live' \in BOOLEAN /\ paused' \in BOOLEAN /\ resuming' \in BOOLEAN
        /\ dirty' \in BOOLEAN /\ requested' \in BOOLEAN /\ broke' \in BOOLEAN
    BY DEF TypeOK, WatchStarts, LoopVars, EnvVars, UserVars
  <2>4. used' \in [changes : 0..MAX_CHANGES, events : 0..MAX_EVENTS]
    BY DEF TypeOK, WatchStarts, LoopVars, EnvVars, UserVars, Event, Spend
  <2> QED
    BY <2>1, <2>2, <2>3, <2>4, <1>1, <1>2 DEF TypeOK
<1>4. WatchShape'
  BY <1>2 DEF WatchShape, Watched, WatchStarts
<1>5. CASE read_due
  <2>1. read_due'
    BY <1>1, <1>5 DEF TypeOK, ChangeState, read_due
  <2> QED
    BY <1>3, <1>4, <2>1, WholeKeeps
<1>6. CASE ~read_due
  <2>1. /\ changes'.local = changes.local /\ changes'.remote = changes.remote
        /\ changes'.owed = changes.owed /\ changes'.owed_remote = changes.owed_remote
        /\ changes'.held = changes.held /\ (read_due' <=> read_due)
    BY <1>1 DEF TypeOK, ChangeState, read_due
  <2>2. /\ UNCHANGED <<unsynced, fsq, unheard, paused, resuming>>
        /\ missed' = missed \cup (unsynced \cap LocalItems)
    BY <1>6 DEF WatchStarts, EnvVars, UserVars
  <2>3. WholeIsDue' <=> WholeIsDue
    BY <2>1, <2>2 DEF WholeIsDue
  <2>4. \A p \in Passes, i \in Items : Carries(p, i)' <=> Carries(p, i)
    BY <1>2 DEF Carries
  <2>5. ASSUME NEW i \in Pending'
        PROVE  i \in Pending /\ i \in Items /\ i \notin LocalItems
    BY <2>2 DEF Pending, TypeOK
  <2>6. ASSUME NEW i \in Pending', Announced(i)
        PROVE  Announced(i)'
    BY <2>1, <2>2, <2>3, <2>4, <2>5, <2>6 DEF Announced
  <2>7. NoLostChange'
    BY <2>1, <2>5, <2>6 DEF ChangesInvariant, NoLostChange
  <2>8. OwedIsSpare'
    BY <1>2, <2>5, <2>6 DEF ChangesInvariant, OwedIsSpare
  <2>9. HandBackIsSpare'
    BY <1>2, <2>1, <2>3 DEF ChangesInvariant, HandBackIsSpare
  <2> QED
    BY <1>3, <1>4, <2>7, <2>8, <2>9 DEF ChangesInvariant
<1> QED
  BY <1>5, <1>6

LEMMA PassIdle ==
    ASSUME TypeOK, NEW p \in Passes, pass[p].at \in {"idle", "view"}
    PROVE  /\ \A i : ~Carries(p, i)
           /\ pass[p].at \notin Reading
  BY DEF Carries, Reading

LEMMA GotoPass ==
    ASSUME TypeOK, NEW p \in Passes, NEW at \in PassPlaces, Goto(p, at)
    PROVE  /\ pass' \in [Passes -> PassState]
           /\ \A q \in Passes \ {p} : pass'[q] = pass[q]
           /\ pass'[p].at = at
           /\ pass'[p].full = pass[p].full /\ pass'[p].local = pass[p].local
           /\ pass'[p].remote = pass[p].remote /\ pass'[p].plan = pass[p].plan
           /\ pass'[p].cur = pass[p].cur /\ pass'[p].next = pass[p].next
           /\ \E r \in PassState : pass' = [pass EXCEPT ![p] = r] /\ r = pass'[p]
<1> DEFINE r == [pass[p] EXCEPT !.at = at]
<1>1. pass \in [Passes -> PassState]
  BY DEF TypeOK
<1>2. /\ r \in PassState /\ r.at = at
      /\ r.full = pass[p].full /\ r.local = pass[p].local /\ r.remote = pass[p].remote
      /\ r.plan = pass[p].plan /\ r.cur = pass[p].cur /\ r.next = pass[p].next
  BY <1>1 DEF PassState
<1>3. pass' = [pass EXCEPT ![p] = r]
  BY DEF Goto
<1> HIDE DEF r
<1> QED
  BY <1>1, <1>2, <1>3

LEMMA BeginsPass ==
    ASSUME TypeOK, NEW p \in Passes, pass[p].at = "idle", Begins(p)
    PROVE  /\ PassesKeep
           /\ pass' \in [Passes -> PassState]
           /\ \A q \in Passes \ {p} : pass'[q] = pass[q]
<1>1. \A i : ~Carries(p, i)
  BY PassIdle
<1>2. CASE Cancelled(p)
  BY <1>1, <1>2, DonePasses DEF Cancelled
<1>3. CASE Done(p, "none", FALSE, FALSE)
  BY <1>1, <1>3, DonePasses
<1>4. CASE Goto(p, "view")
  <2>1. "view" \in PassPlaces
    BY DEF PassPlaces
  <2>2. PICK r \in PassState : pass' = [pass EXCEPT ![p] = r] /\ r = pass'[p]
    BY <1>4, <2>1, GotoPass
  <2>3. r.at = "view" /\ "view" \notin Reading
    BY <1>4, <2>1, <2>2, GotoPass DEF Reading
  <2>4. PassesKeep
    BY <1>1, <2>2, <2>3, OnePass
  <2> QED
    BY <1>4, <2>1, <2>4, GotoPass
<1> QED
  BY <1>2, <1>3, <1>4 DEF Begins

LEMMA LoopTopKeeps ==
    ASSUME ChangesInvariant, LoopTop
    PROVE  ChangesInvariant'
<1> TypeOK /\ WatchShape
  BY DEF ChangesInvariant
<1>1. Grows(changes, changes')
  BY SameGrows DEF TypeOK, LoopTop, LoopVars, EnvVars, UserVars
<1>2. PassesKeep /\ pass' \in [Passes -> PassState]
  <2>1. pass["watch"].at = "idle" /\ "watch" \in Passes
    BY DEF WatchShape, LoopTop, NoPass, Passes
  <2> QED
    BY <2>1, BeginsPass DEF LoopTop
<1>3. changes' \in ChangeState
  BY <1>1 DEF Grows, Covers
<1>4. TypeOK'
  <2>1. /\ unsynced' \subseteq Items /\ fsq' \subseteq LocalItems
        /\ unheard' \subseteq RemoteItems /\ missed' \subseteq LocalItems
    BY DEF TypeOK, LoopTop, LoopVars, EnvVars, UserVars
  <2>2. /\ reading' \in Passes \cup {"free"} /\ approval' \subseteq Items
        /\ offered' \subseteq Items /\ loop' \in LoopPlaces
    BY DEF TypeOK, LoopTop, LoopVars, EnvVars, UserVars, LoopPlaces
  <2>3. /\ live' \in BOOLEAN /\ paused' \in BOOLEAN /\ resuming' \in BOOLEAN
        /\ dirty' \in BOOLEAN /\ requested' \in BOOLEAN /\ broke' \in BOOLEAN
    BY DEF TypeOK, LoopTop, LoopVars, EnvVars, UserVars
  <2>4. used' \in [changes : 0..MAX_CHANGES, events : 0..MAX_EVENTS]
    BY DEF TypeOK, LoopTop, LoopVars, EnvVars, UserVars, Event, Spend
  <2> QED
    BY <2>1, <2>2, <2>3, <2>4, <1>2, <1>3 DEF TypeOK
<1>5. WatchShape'
  BY DEF WatchShape, Watched, LoopTop
<1>6. ListsKeep
  BY <1>1 DEF ListsKeep, Pending, Announced, WholeIsDue, LoopTop, LoopVars, EnvVars, UserVars
<1> QED
  BY <1>2, <1>4, <1>5, <1>6, GrowthKeeps

LEMMA SyncOnceKeeps ==
    ASSUME ChangesInvariant, SyncOnce
    PROVE  ChangesInvariant'
<1> TypeOK /\ WatchShape
  BY DEF ChangesInvariant
<1>1. Grows(changes, changes')
  BY SameGrows DEF TypeOK, SyncOnce, EnvVars, UserVars
<1>2. PassesKeep /\ pass' \in [Passes -> PassState]
  <2>1. pass["once"].at = "idle" /\ "once" \in Passes
    BY DEF WatchShape, SyncOnce, NoPass, Passes
  <2> QED
    BY <2>1, BeginsPass DEF SyncOnce
<1>3. changes' \in ChangeState
  BY <1>1 DEF Grows, Covers
<1>4. TypeOK'
  <2>1. /\ unsynced' \subseteq Items /\ fsq' \subseteq LocalItems
        /\ unheard' \subseteq RemoteItems /\ missed' \subseteq LocalItems
    BY DEF TypeOK, SyncOnce, EnvVars, UserVars
  <2>2. /\ reading' \in Passes \cup {"free"} /\ approval' \subseteq Items
        /\ offered' \subseteq Items /\ loop' \in LoopPlaces
    BY DEF TypeOK, SyncOnce, EnvVars, UserVars, LoopPlaces
  <2>3. /\ live' \in BOOLEAN /\ paused' \in BOOLEAN /\ resuming' \in BOOLEAN
        /\ dirty' \in BOOLEAN /\ requested' \in BOOLEAN /\ broke' \in BOOLEAN
    BY DEF TypeOK, SyncOnce, EnvVars, UserVars
  <2>4. used' \in [changes : 0..MAX_CHANGES, events : 0..MAX_EVENTS]
    BY DEF TypeOK, SyncOnce, EnvVars, UserVars, Event, Spend
  <2> QED
    BY <2>1, <2>2, <2>3, <2>4, <1>2, <1>3 DEF TypeOK
<1>5. WatchShape'
  <2>1. pass["once"].at = "idle" /\ "once" \in Passes
    BY DEF SyncOnce, NoPass, Passes
  <2>2. pass'["watch"] = pass["watch"]
    BY <2>1, BeginsPass DEF SyncOnce, Passes
  <2> QED
    BY <2>2 DEF WatchShape, Watched, SyncOnce, UserVars
<1>6. ListsKeep
  BY <1>1 DEF ListsKeep, Pending, Announced, WholeIsDue, SyncOnce, EnvVars, UserVars
<1> QED
  BY <1>2, <1>4, <1>5, <1>6, GrowthKeeps

LEMMA PassReturnsKeeps ==
    ASSUME ChangesInvariant, PassReturns
    PROVE  ChangesInvariant'
<1> TypeOK /\ WatchShape
  BY DEF ChangesInvariant
<1>1. Grows(changes, changes')
  BY SameGrows DEF TypeOK, PassReturns, LoopVars, EnvVars, UserVars
<1>2. PassesKeep /\ pass' \in [Passes -> PassState]
  <2>1. NoPass \in PassState /\ NoPass.at = "idle"
    BY DEF NoPass, PassState, PassPlaces, CatchUps
  <2>2. \A i : ~Carries("watch", i)
    BY DEF Carries, PassReturns
  <2>3. pass' = [pass EXCEPT !["watch"] = NoPass] /\ "watch" \in Passes
    BY DEF PassReturns, Passes
  <2>4. PassesKeep
    BY <2>1, <2>2, <2>3, OnePass DEF Reading
  <2> QED
    BY <2>1, <2>3, <2>4 DEF TypeOK
<1>3. changes' \in ChangeState
  BY <1>1 DEF Grows, Covers
<1>4. TypeOK'
  <2>1. /\ unsynced' \subseteq Items /\ fsq' \subseteq LocalItems
        /\ unheard' \subseteq RemoteItems /\ missed' \subseteq LocalItems
    BY DEF TypeOK, PassReturns, LoopVars, EnvVars, UserVars
  <2>2. /\ reading' \in Passes \cup {"free"} /\ approval' \subseteq Items
        /\ offered' \subseteq Items /\ loop' \in LoopPlaces
    BY DEF TypeOK, PassReturns, LoopVars, EnvVars, UserVars, LoopPlaces
  <2>3. /\ live' \in BOOLEAN /\ paused' \in BOOLEAN /\ resuming' \in BOOLEAN
        /\ dirty' \in BOOLEAN /\ requested' \in BOOLEAN /\ broke' \in BOOLEAN
    BY DEF TypeOK, PassReturns, LoopVars, EnvVars, UserVars, PassState
  <2>4. used' \in [changes : 0..MAX_CHANGES, events : 0..MAX_EVENTS]
    BY DEF TypeOK, PassReturns, LoopVars, EnvVars, UserVars, Event, Spend
  <2> QED
    BY <2>1, <2>2, <2>3, <2>4, <1>2, <1>3 DEF TypeOK
<1>5. WatchShape'
  <2>1. pass'["watch"] = NoPass
    BY DEF PassReturns, TypeOK, Passes
  <2> QED
    BY <2>1 DEF WatchShape, Watched, PassReturns, NoPass
<1>6. ListsKeep
  BY <1>1 DEF ListsKeep, Pending, Announced, WholeIsDue, PassReturns, LoopVars, EnvVars, UserVars
<1> QED
  BY <1>2, <1>4, <1>5, <1>6, GrowthKeeps

LEMMA OnceReturnsKeeps ==
    ASSUME ChangesInvariant, OnceReturns
    PROVE  ChangesInvariant'
<1> TypeOK /\ WatchShape
  BY DEF ChangesInvariant
<1>1. Grows(changes, changes')
  BY SameGrows DEF TypeOK, OnceReturns, EnvVars, UserVars
<1>2. PassesKeep /\ pass' \in [Passes -> PassState]
  <2>1. NoPass \in PassState /\ NoPass.at = "idle"
    BY DEF NoPass, PassState, PassPlaces, CatchUps
  <2>2. \A i : ~Carries("once", i)
    BY DEF Carries, OnceReturns
  <2>3. pass' = [pass EXCEPT !["once"] = NoPass] /\ "once" \in Passes
    BY DEF OnceReturns, Passes
  <2>4. PassesKeep
    BY <2>1, <2>2, <2>3, OnePass DEF Reading
  <2> QED
    BY <2>1, <2>3, <2>4 DEF TypeOK
<1>3. changes' \in ChangeState
  BY <1>1 DEF Grows, Covers
<1>4. TypeOK'
  <2>1. /\ unsynced' \subseteq Items /\ fsq' \subseteq LocalItems
        /\ unheard' \subseteq RemoteItems /\ missed' \subseteq LocalItems
    BY DEF TypeOK, OnceReturns, EnvVars, UserVars
  <2>2. /\ reading' \in Passes \cup {"free"} /\ approval' \subseteq Items
        /\ offered' \subseteq Items /\ loop' \in LoopPlaces
    BY DEF TypeOK, OnceReturns, EnvVars, UserVars, LoopPlaces
  <2>3. /\ live' \in BOOLEAN /\ paused' \in BOOLEAN /\ resuming' \in BOOLEAN
        /\ dirty' \in BOOLEAN /\ requested' \in BOOLEAN /\ broke' \in BOOLEAN
    BY DEF TypeOK, OnceReturns, EnvVars, UserVars, PassState
  <2>4. used' \in [changes : 0..MAX_CHANGES, events : 0..MAX_EVENTS]
    BY DEF TypeOK, OnceReturns, EnvVars, UserVars, Event, Spend
  <2> QED
    BY <2>1, <2>2, <2>3, <2>4, <1>2, <1>3 DEF TypeOK
<1>5. WatchShape'
  <2>1. pass'["watch"] = pass["watch"]
    BY DEF OnceReturns, TypeOK, Passes
  <2> QED
    BY <2>1 DEF WatchShape, Watched, OnceReturns
<1>6. ListsKeep
  BY <1>1 DEF ListsKeep, Pending, Announced, WholeIsDue, OnceReturns, EnvVars, UserVars
<1> QED
  BY <1>2, <1>4, <1>5, <1>6, GrowthKeeps

-----------------------------------------------------------------------------
(* A pass. *)

(* A pass that a pause or an error ends before it is through: the next one  *)
(* reads whole                                                              *)
LEMMA Forces ==
    ASSUME TypeOK, NEW p \in Passes, Cancelled(p) \/ Fails(p)
    PROVE  /\ PassesKeep
           /\ pass' \in [Passes -> PassState]
           /\ \A q \in Passes \ {p} : pass'[q] = pass[q]
           /\ pass'[p].at = "end"
  BY DonePasses DEF Cancelled, Fails

(* Which pass runs is not changed by one that goes on *)
LEMMA ShapeKept ==
    ASSUME TypeOK, WatchShape, NEW p \in Passes, pass[p].at # "idle", UNCHANGED loop,
           changes'.local_covered => changes.local_covered,
           \A q \in Passes \ {p} : pass'[q] = pass[q]
    PROVE  WatchShape'
  BY DEF WatchShape, Watched, Passes

LEMMA ViewEndsKeeps ==
    ASSUME ChangesInvariant, NEW p \in Passes, ViewEnds(p)
    PROVE  ChangesInvariant'
<1> TypeOK /\ WatchShape
  BY DEF ChangesInvariant
<1>1. Grows(changes, changes')
  BY SameGrows DEF TypeOK, ViewEnds, EnvVars, UserVars
<1>2. PassesKeep /\ pass' \in [Passes -> PassState]
  BY Forces DEF ViewEnds
<1>3. changes' \in ChangeState
  BY <1>1 DEF Grows, Covers
<1>4. TypeOK'
  <2>1. /\ unsynced' \subseteq Items /\ fsq' \subseteq LocalItems
        /\ unheard' \subseteq RemoteItems /\ missed' \subseteq LocalItems
    BY DEF TypeOK, ViewEnds, EnvVars, UserVars
  <2>2. /\ reading' \in Passes \cup {"free"} /\ approval' \subseteq Items
        /\ offered' \subseteq Items /\ loop' \in LoopPlaces
    BY DEF TypeOK, ViewEnds, EnvVars, UserVars, LoopPlaces
  <2>3. /\ live' \in BOOLEAN /\ paused' \in BOOLEAN /\ resuming' \in BOOLEAN
        /\ dirty' \in BOOLEAN /\ requested' \in BOOLEAN /\ broke' \in BOOLEAN
    BY DEF TypeOK, ViewEnds, EnvVars, UserVars
  <2>4. used' \in [changes : 0..MAX_CHANGES, events : 0..MAX_EVENTS]
    BY DEF TypeOK, ViewEnds, EnvVars, UserVars, Event, Spend
  <2> QED
    BY <2>1, <2>2, <2>3, <2>4, <1>2, <1>3 DEF TypeOK
<1>5. WatchShape'
  BY Forces, ShapeKept DEF ViewEnds, EnvVars, UserVars
<1>6. ListsKeep
  BY <1>1 DEF ListsKeep, Pending, Announced, WholeIsDue, ViewEnds, EnvVars, UserVars
<1> QED
  BY <1>2, <1>4, <1>5, <1>6, GrowthKeeps

LEMMA ReadEndsKeeps ==
    ASSUME ChangesInvariant, NEW p \in Passes, ReadEnds(p)
    PROVE  ChangesInvariant'
<1> TypeOK /\ WatchShape
  BY DEF ChangesInvariant
<1>1. Grows(changes, changes')
  BY SameGrows DEF TypeOK, ReadEnds, EnvVars, UserVars
<1>2. PassesKeep /\ pass' \in [Passes -> PassState]
  BY Forces DEF ReadEnds
<1>3. changes' \in ChangeState
  BY <1>1 DEF Grows, Covers
<1>4. TypeOK'
  <2>1. /\ unsynced' \subseteq Items /\ fsq' \subseteq LocalItems
        /\ unheard' \subseteq RemoteItems /\ missed' \subseteq LocalItems
    BY DEF TypeOK, ReadEnds, EnvVars, UserVars
  <2>2. /\ reading' \in Passes \cup {"free"} /\ approval' \subseteq Items
        /\ offered' \subseteq Items /\ loop' \in LoopPlaces
    BY DEF TypeOK, ReadEnds, EnvVars, UserVars, LoopPlaces
  <2>3. /\ live' \in BOOLEAN /\ paused' \in BOOLEAN /\ resuming' \in BOOLEAN
        /\ dirty' \in BOOLEAN /\ requested' \in BOOLEAN /\ broke' \in BOOLEAN
    BY DEF TypeOK, ReadEnds, EnvVars, UserVars
  <2>4. used' \in [changes : 0..MAX_CHANGES, events : 0..MAX_EVENTS]
    BY DEF TypeOK, ReadEnds, EnvVars, UserVars, Event, Spend
  <2> QED
    BY <2>1, <2>2, <2>3, <2>4, <1>2, <1>3 DEF TypeOK
<1>5. WatchShape'
  BY Forces, ShapeKept DEF ReadEnds, EnvVars, UserVars
<1>6. ListsKeep
  BY <1>1 DEF ListsKeep, Pending, Announced, WholeIsDue, ReadEnds, EnvVars, UserVars
<1> QED
  BY <1>2, <1>4, <1>5, <1>6, GrowthKeeps

LEMMA ApplyHaltsKeeps ==
    ASSUME ChangesInvariant, NEW p \in Passes, ApplyHalts(p)
    PROVE  ChangesInvariant'
<1> TypeOK /\ WatchShape
  BY DEF ChangesInvariant
<1>1. Grows(changes, changes')
  BY SameGrows DEF TypeOK, ApplyHalts, EnvVars, UserVars
<1>2. PassesKeep /\ pass' \in [Passes -> PassState]
  BY Forces DEF ApplyHalts
<1>3. changes' \in ChangeState
  BY <1>1 DEF Grows, Covers
<1>4. TypeOK'
  <2>1. /\ unsynced' \subseteq Items /\ fsq' \subseteq LocalItems
        /\ unheard' \subseteq RemoteItems /\ missed' \subseteq LocalItems
    BY DEF TypeOK, ApplyHalts, EnvVars, UserVars
  <2>2. /\ reading' \in Passes \cup {"free"} /\ approval' \subseteq Items
        /\ offered' \subseteq Items /\ loop' \in LoopPlaces
    BY DEF TypeOK, ApplyHalts, EnvVars, UserVars, LoopPlaces
  <2>3. /\ live' \in BOOLEAN /\ paused' \in BOOLEAN /\ resuming' \in BOOLEAN
        /\ dirty' \in BOOLEAN /\ requested' \in BOOLEAN /\ broke' \in BOOLEAN
    BY DEF TypeOK, ApplyHalts, EnvVars, UserVars
  <2>4. used' \in [changes : 0..MAX_CHANGES, events : 0..MAX_EVENTS]
    BY DEF TypeOK, ApplyHalts, EnvVars, UserVars, Event, Spend
  <2> QED
    BY <2>1, <2>2, <2>3, <2>4, <1>2, <1>3 DEF TypeOK
<1>5. WatchShape'
  BY Forces, ShapeKept DEF ApplyHalts, EnvVars, UserVars
<1>6. ListsKeep
  BY <1>1 DEF ListsKeep, Pending, Announced, WholeIsDue, ApplyHalts, EnvVars, UserVars
<1> QED
  BY <1>2, <1>4, <1>5, <1>6, GrowthKeeps

LEMMA CatchUpEndsKeeps ==
    ASSUME ChangesInvariant, NEW p \in Passes, CatchUpEnds(p)
    PROVE  ChangesInvariant'
<1> TypeOK /\ WatchShape
  BY DEF ChangesInvariant
<1>1. Grows(changes, changes')
  BY OweGrows DEF TypeOK, PassState, CatchUpEnds
<1>2. PassesKeep /\ pass' \in [Passes -> PassState]
  BY Forces DEF CatchUpEnds
<1>3. changes' \in ChangeState
  BY <1>1 DEF Grows, Covers
<1>4. TypeOK'
  <2>1. /\ unsynced' \subseteq Items /\ fsq' \subseteq LocalItems
        /\ unheard' \subseteq RemoteItems /\ missed' \subseteq LocalItems
    BY DEF TypeOK, CatchUpEnds, Outside, EnvVars, UserVars
  <2>2. /\ reading' \in Passes \cup {"free"} /\ approval' \subseteq Items
        /\ offered' \subseteq Items /\ loop' \in LoopPlaces
    BY DEF TypeOK, CatchUpEnds, Outside, EnvVars, UserVars, LoopPlaces
  <2>3. /\ live' \in BOOLEAN /\ paused' \in BOOLEAN /\ resuming' \in BOOLEAN
        /\ dirty' \in BOOLEAN /\ requested' \in BOOLEAN /\ broke' \in BOOLEAN
    BY DEF TypeOK, CatchUpEnds, Outside, EnvVars, UserVars
  <2>4. used' \in [changes : 0..MAX_CHANGES, events : 0..MAX_EVENTS]
    BY DEF TypeOK, CatchUpEnds, Outside, EnvVars, UserVars, Event, Spend
  <2> QED
    BY <2>1, <2>2, <2>3, <2>4, <1>2, <1>3 DEF TypeOK
<1>5. WatchShape'
  BY <1>1, Forces, ShapeKept DEF Grows, Covers, CatchUpEnds, Outside, EnvVars, UserVars
<1>6. ListsKeep
  BY <1>1 DEF ListsKeep, Pending, Announced, WholeIsDue, CatchUpEnds, Outside, EnvVars, UserVars
<1> QED
  BY <1>2, <1>4, <1>5, <1>6, GrowthKeeps

LEMMA GoesOn ==
    ASSUME TypeOK, NEW p \in Passes, NEW at \in PassPlaces, Goto(p, at),
           \A i \in Pending' : Carries(p, i) => Announced(i)',
           at \in Reading => pass[p].at \in Reading,
           at = "cut" => WholeIsDue'
    PROVE  /\ PassesKeep
           /\ pass' \in [Passes -> PassState]
           /\ \A q \in Passes \ {p} : pass'[q] = pass[q]
<1>1. PICK r \in PassState : pass' = [pass EXCEPT ![p] = r] /\ r = pass'[p]
  BY GotoPass
<1>2. r.at = at
  BY <1>1, GotoPass
<1>3. PassesKeep
  BY <1>1, <1>2, OnePass
<1> QED
  BY <1>3, GotoPass

LEMMA ApplyCutKeeps ==
    ASSUME ChangesInvariant, NEW p \in Passes, ApplyCut(p)
    PROVE  ChangesInvariant'
<1> TypeOK /\ WatchShape
  BY DEF ChangesInvariant
<1>1. Grows(changes, changes')
  BY SameGrows DEF TypeOK, ApplyCut, Outside, EnvVars, UserVars
<1>2. PassesKeep /\ pass' \in [Passes -> PassState]
  <2>1. "cut" \in PassPlaces /\ "cut" \notin Reading
    BY DEF PassPlaces, Reading
  <2>2. WholeIsDue'
    BY DEF WholeIsDue, ApplyCut, Outside, UserVars
  <2>3. \A i : Announced(i)'
    BY <2>2 DEF Announced
  <2> QED
    BY <2>1, <2>2, <2>3, GoesOn DEF ApplyCut
<1>3. changes' \in ChangeState
  BY <1>1 DEF Grows, Covers
<1>4. TypeOK'
  <2>1. /\ unsynced' \subseteq Items /\ fsq' \subseteq LocalItems
        /\ unheard' \subseteq RemoteItems /\ missed' \subseteq LocalItems
    BY DEF TypeOK, ApplyCut, Outside, EnvVars, UserVars
  <2>2. /\ reading' \in Passes \cup {"free"} /\ approval' \subseteq Items
        /\ offered' \subseteq Items /\ loop' \in LoopPlaces
    BY DEF TypeOK, ApplyCut, Outside, EnvVars, UserVars, LoopPlaces
  <2>3. /\ live' \in BOOLEAN /\ paused' \in BOOLEAN /\ resuming' \in BOOLEAN
        /\ dirty' \in BOOLEAN /\ requested' \in BOOLEAN /\ broke' \in BOOLEAN
    BY DEF TypeOK, ApplyCut, Outside, EnvVars, UserVars
  <2>4. used' \in [changes : 0..MAX_CHANGES, events : 0..MAX_EVENTS]
    BY DEF TypeOK, ApplyCut, Outside, EnvVars, UserVars, Event, Spend
  <2> QED
    BY <2>1, <2>2, <2>3, <2>4, <1>2, <1>3 DEF TypeOK
<1>5. WatchShape'
  <2>1. "cut" \in PassPlaces
    BY DEF PassPlaces
  <2> QED
    BY <2>1, GotoPass, ShapeKept DEF ApplyCut, Outside
<1>6. ListsKeep
  BY <1>1 DEF ListsKeep, Pending, Announced, WholeIsDue, ApplyCut, Outside, EnvVars, UserVars
<1> QED
  BY <1>2, <1>4, <1>5, <1>6, GrowthKeeps

LEMMA CaughtUpKeeps ==
    ASSUME ChangesInvariant, NEW p \in Passes, CaughtUp(p)
    PROVE  ChangesInvariant'
<1> TypeOK /\ WatchShape
  BY DEF ChangesInvariant
<1>1. Grows(changes, changes')
  BY SameGrows, NoteRemoteGrows DEF TypeOK, CaughtUp, Dispatch
<1>2. PassesKeep /\ pass' \in [Passes -> PassState]
  <2>1. "read" \in PassPlaces /\ pass[p].at \in Reading /\ Goto(p, "read")
    BY DEF PassPlaces, Reading, CaughtUp
  <2>2. ASSUME NEW i \in Pending', Carries(p, i)
        PROVE  Announced(i)'
    <3>1. Carries(p, i)'
      BY <2>1, <2>2, GotoPass DEF Carries, CaughtUp
    <3> QED
      BY <3>1 DEF Announced
  <2> QED
    BY <2>1, <2>2, GoesOn
<1>3. changes' \in ChangeState
  BY <1>1 DEF Grows, Covers
<1>4. TypeOK'
  <2>1. /\ unsynced' \subseteq Items /\ fsq' \subseteq LocalItems
        /\ unheard' \subseteq RemoteItems /\ missed' \subseteq LocalItems
    BY DEF TypeOK, CaughtUp, Dispatch, UserVars
  <2>2. /\ reading' \in Passes \cup {"free"} /\ approval' \subseteq Items
        /\ offered' \subseteq Items /\ loop' \in LoopPlaces
    BY DEF TypeOK, CaughtUp, Dispatch, UserVars, LoopPlaces
  <2>3. /\ live' \in BOOLEAN /\ paused' \in BOOLEAN /\ resuming' \in BOOLEAN
        /\ dirty' \in BOOLEAN /\ requested' \in BOOLEAN /\ broke' \in BOOLEAN
    BY DEF TypeOK, CaughtUp, Dispatch, UserVars
  <2>4. used' \in [changes : 0..MAX_CHANGES, events : 0..MAX_EVENTS]
    BY DEF TypeOK, CaughtUp, Dispatch, UserVars, Event, Spend
  <2> QED
    BY <2>1, <2>2, <2>3, <2>4, <1>2, <1>3 DEF TypeOK
<1>5. WatchShape'
  <2>1. "read" \in PassPlaces
    BY DEF PassPlaces
  <2> QED
    BY <1>1, <2>1, GotoPass, ShapeKept DEF CaughtUp, Grows, Covers
<1>6. ListsKeep
  <2>1. CASE UNCHANGED <<unheard, changes>>
    BY <1>1, <2>1 DEF ListsKeep, Pending, Announced, WholeIsDue, CaughtUp, UserVars
  <2>2. CASE Dispatch(unheard)
    <3>1. unheard \subseteq changes'.remote \/ changes'.remoteFull
      BY <2>2, NoteRemoteGrows DEF TypeOK, Dispatch
    <3>2. \A i \in unheard : Announced(i)'
      BY <3>1 DEF Announced, WholeIsDue, read_due
    <3> QED
      BY <1>1, <3>2 DEF ListsKeep, Pending, Announced, WholeIsDue, CaughtUp, UserVars
  <2> QED
    BY <2>1, <2>2 DEF CaughtUp
<1> QED
  BY <1>2, <1>4, <1>5, <1>6, GrowthKeeps

LEMMA ApplyEndsKeeps ==
    ASSUME ChangesInvariant, NEW p \in Passes, ApplyEnds(p)
    PROVE  ChangesInvariant'
<1> TypeOK /\ WatchShape
  BY DEF ChangesInvariant
<1>1. Grows(changes, changes')
  BY SameGrows DEF TypeOK, ApplyEnds, Outside, EnvVars, UserVars
<1>2. PassesKeep /\ pass' \in [Passes -> PassState]
  <2>1. pass[p].next \in {"none", "force", "hold"} /\ Done(p, pass[p].next, FALSE, FALSE)
    BY DEF TypeOK, PassState, ApplyEnds
  <2>2. pass[p].next = "none" => \A i : ~Carries(p, i)
    BY DEF Carries, ApplyEnds
  <2> QED
    BY <2>1, <2>2, DonePasses
<1>3. changes' \in ChangeState
  BY <1>1 DEF Grows, Covers
<1>4. TypeOK'
  <2>1. /\ unsynced' \subseteq Items /\ fsq' \subseteq LocalItems
        /\ unheard' \subseteq RemoteItems /\ missed' \subseteq LocalItems
    BY DEF TypeOK, ApplyEnds, Outside, EnvVars, UserVars
  <2>2. /\ reading' \in Passes \cup {"free"} /\ approval' \subseteq Items
        /\ offered' \subseteq Items /\ loop' \in LoopPlaces
    BY DEF TypeOK, ApplyEnds, Outside, EnvVars, UserVars, LoopPlaces
  <2>3. /\ live' \in BOOLEAN /\ paused' \in BOOLEAN /\ resuming' \in BOOLEAN
        /\ dirty' \in BOOLEAN /\ requested' \in BOOLEAN /\ broke' \in BOOLEAN
    BY DEF TypeOK, ApplyEnds, Outside, EnvVars, UserVars
  <2>4. used' \in [changes : 0..MAX_CHANGES, events : 0..MAX_EVENTS]
    BY DEF TypeOK, ApplyEnds, Outside, EnvVars, UserVars, Event, Spend
  <2> QED
    BY <2>1, <2>2, <2>3, <2>4, <1>2, <1>3 DEF TypeOK
<1>5. WatchShape'
  <2>1. pass[p].next \in {"none", "force", "hold"} /\ Done(p, pass[p].next, FALSE, FALSE)
    BY DEF TypeOK, PassState, ApplyEnds
  <2>2. pass[p].next = "none" => \A i : ~Carries(p, i)
    BY DEF Carries, ApplyEnds
  <2> QED
    BY <2>1, <2>2, DonePasses, ShapeKept DEF ApplyEnds, Outside
<1>6. ListsKeep
  BY <1>1 DEF ListsKeep, Pending, Announced, WholeIsDue, ApplyEnds, Outside, EnvVars, UserVars
<1> QED
  BY <1>2, <1>4, <1>5, <1>6, GrowthKeeps

(* What a read finds is planned as it was read, and what the cache does not *)
(* hold yet is still unheard                                                *)
LEMMA ReadFinds ==
    ASSUME TypeOK, NEW p \in Passes, ReadSides(p)
    PROVE  /\ PassesKeep
           /\ pass' \in [Passes -> PassState]
           /\ \A q \in Passes \ {p} : pass'[q] = pass[q]
<1>1. pass \in [Passes -> PassState] /\ unsynced \subseteq Items
  BY DEF TypeOK
<1>2. PICK full \in {pass[p].full, TRUE} :
        LET sees == IF full THEN unsynced \ unheard
                    ELSE unsynced \cap ((pass[p].local \cap LocalItems) \cup pass[p].remote)
        IN  pass' = [pass EXCEPT ![p].at = "plan", ![p].full = full,
                                 ![p].plan = sees, ![p].cur = sees]
  BY DEF ReadSides
<1> DEFINE sees == IF full THEN unsynced \ unheard
                   ELSE unsynced \cap ((pass[p].local \cap LocalItems) \cup pass[p].remote)
           r == [pass[p] EXCEPT !.at = "plan", !.full = full, !.plan = sees, !.cur = sees]
<1>3. sees \subseteq Items /\ full \in BOOLEAN /\ (pass[p].full => full)
  BY <1>1 DEF PassState
<1>4. pass' = [pass EXCEPT ![p] = r]
  BY <1>2
<1>5. "plan" \in PassPlaces /\ pass[p] \in PassState
  BY <1>1 DEF PassPlaces
<1>6. ASSUME NEW i \in Pending', Carries(p, i)
      PROVE  i \in sees \/ i \in unheard
  <2>1. i \in unsynced /\ pass[p].at = "read"
    BY DEF ReadSides, Outside, Pending
  <2> QED
    BY <1>3, <1>6, <2>1 DEF Carries
<1> HIDE DEF sees
<1>7. r \in PassState /\ r.at = "plan" /\ r.plan = sees /\ r.cur = sees
  BY <1>3, <1>5 DEF PassState
<1> HIDE DEF r
<1>8. pass'[p] = r /\ \A q \in Passes \ {p} : pass'[q] = pass[q]
  BY <1>1, <1>4
<1>9. ASSUME NEW i \in Pending', Carries(p, i)
      PROVE  Announced(i)'
  <2>1. i \in sees => Carries(p, i)'
    BY <1>7, <1>8 DEF Carries
  <2>2. i \in unheard => i \in unheard'
    BY DEF ReadSides, Outside, EnvVars
  <2> QED
    BY <1>6, <1>9, <2>1, <2>2 DEF Announced
<1>10. "plan" # "cut" /\ pass[p].at \in Reading
  BY DEF Reading, ReadSides
<1>11. PassesKeep
  BY <1>4, <1>7, <1>9, <1>10, OnePass
<1> QED
  BY <1>1, <1>4, <1>7, <1>8, <1>11

LEMMA ReadSidesKeeps ==
    ASSUME ChangesInvariant, NEW p \in Passes, ReadSides(p)
    PROVE  ChangesInvariant'
<1> TypeOK /\ WatchShape
  BY DEF ChangesInvariant
<1>1. Grows(changes, changes')
  BY SameGrows DEF TypeOK, ReadSides, Outside, EnvVars, UserVars
<1>2. PassesKeep /\ pass' \in [Passes -> PassState]
  BY ReadFinds
<1>3. changes' \in ChangeState
  BY <1>1 DEF Grows, Covers
<1>4. TypeOK'
  <2>1. /\ unsynced' \subseteq Items /\ fsq' \subseteq LocalItems
        /\ unheard' \subseteq RemoteItems /\ missed' \subseteq LocalItems
    BY DEF TypeOK, ReadSides, Outside, EnvVars, UserVars
  <2>2. /\ reading' \in Passes \cup {"free"} /\ approval' \subseteq Items
        /\ offered' \subseteq Items /\ loop' \in LoopPlaces
    BY DEF TypeOK, ReadSides, Outside, EnvVars, UserVars, LoopPlaces
  <2>3. /\ live' \in BOOLEAN /\ paused' \in BOOLEAN /\ resuming' \in BOOLEAN
        /\ dirty' \in BOOLEAN /\ requested' \in BOOLEAN /\ broke' \in BOOLEAN
    BY DEF TypeOK, ReadSides, Outside, EnvVars, UserVars
  <2>4. used' \in [changes : 0..MAX_CHANGES, events : 0..MAX_EVENTS]
    BY DEF TypeOK, ReadSides, Outside, EnvVars, UserVars, Event, Spend
  <2> QED
    BY <2>1, <2>2, <2>3, <2>4, <1>2, <1>3 DEF TypeOK
<1>5. WatchShape'
  BY ReadFinds, ShapeKept DEF ReadSides, Outside
<1>6. ListsKeep
  BY <1>1 DEF ListsKeep, Pending, Announced, WholeIsDue, ReadSides, Outside, EnvVars, UserVars
<1> QED
  BY <1>2, <1>4, <1>5, <1>6, GrowthKeeps

LEMMA ApplyActionKeeps ==
    ASSUME ChangesInvariant, NEW p \in Passes, NEW i \in Items, ApplyAction(p, i)
    PROVE  ChangesInvariant'
<1> TypeOK /\ WatchShape
  BY DEF ChangesInvariant
<1>1. Grows(changes, changes')
  BY SameGrows DEF TypeOK, ApplyAction, EnvVars, UserVars
<1>2. PassesKeep /\ pass' \in [Passes -> PassState]
  <2>1. pass[p] \in PassState
    BY DEF TypeOK
  <2> DEFINE r == [pass[p] EXCEPT !.plan = @ \ {i}]
  <2>2. pass' = [pass EXCEPT ![p] = r]
    BY DEF ApplyAction
  <2>3. /\ r \in PassState /\ r.at = "apply" /\ r.plan = pass[p].plan \ {i}
        /\ r.cur = pass[p].cur /\ r.next = pass[p].next
    BY <2>1 DEF PassState, ApplyAction
  <2> HIDE DEF r
  <2>4. pass'[p] = r
    BY <2>2 DEF TypeOK
  <2>5. ASSUME NEW j \in Pending', Carries(p, j)
        PROVE  Announced(j)'
    <3>1. Carries(p, j)'
      BY <2>3, <2>4, <2>5 DEF Carries, Pending, ApplyAction
    <3> QED
      BY <3>1 DEF Announced
  <2>6. PassesKeep
    BY <2>2, <2>3, <2>5, OnePass DEF Reading
  <2> QED
    BY <2>2, <2>3, <2>6 DEF TypeOK
<1>3. changes' \in ChangeState
  BY <1>1 DEF Grows, Covers
<1>4. TypeOK'
  <2>1. /\ unsynced' \subseteq Items /\ fsq' \subseteq LocalItems
        /\ unheard' \subseteq RemoteItems /\ missed' \subseteq LocalItems
    BY DEF TypeOK, ApplyAction, EnvVars, UserVars
  <2>2. /\ reading' \in Passes \cup {"free"} /\ approval' \subseteq Items
        /\ offered' \subseteq Items /\ loop' \in LoopPlaces
    BY DEF TypeOK, ApplyAction, EnvVars, UserVars, LoopPlaces
  <2>3. /\ live' \in BOOLEAN /\ paused' \in BOOLEAN /\ resuming' \in BOOLEAN
        /\ dirty' \in BOOLEAN /\ requested' \in BOOLEAN /\ broke' \in BOOLEAN
    BY DEF TypeOK, ApplyAction, EnvVars, UserVars
  <2>4. used' \in [changes : 0..MAX_CHANGES, events : 0..MAX_EVENTS]
    BY DEF TypeOK, ApplyAction, EnvVars, UserVars, Event, Spend
  <2> QED
    BY <2>1, <2>2, <2>3, <2>4, <1>2, <1>3 DEF TypeOK
<1>5. WatchShape'
  <2>1. \A q \in Passes \ {p} : pass'[q] = pass[q]
    BY DEF ApplyAction, TypeOK
  <2> QED
    BY <2>1, ShapeKept DEF ApplyAction
<1>6. ListsKeep
  BY <1>1 DEF ListsKeep, Pending, Announced, WholeIsDue, ApplyAction, EnvVars, UserVars
<1> QED
  BY <1>2, <1>4, <1>5, <1>6, GrowthKeeps

LEMMA ActionFailsKeeps ==
    ASSUME ChangesInvariant, NEW p \in Passes, NEW i \in Items, ActionFails(p, i)
    PROVE  ChangesInvariant'
<1> TypeOK /\ WatchShape
  BY DEF ChangesInvariant
<1>1. Grows(changes, changes')
  BY SameGrows DEF TypeOK, ActionFails, EnvVars, UserVars
<1>2. PassesKeep /\ pass' \in [Passes -> PassState]
  <2>1. pass[p] \in PassState
    BY DEF TypeOK
  <2> DEFINE r == [pass[p] EXCEPT !.plan = @ \ {i}, !.next = "force"]
  <2>2. pass' = [pass EXCEPT ![p] = r]
    BY DEF ActionFails
  <2>3. /\ r \in PassState /\ r.at = "apply" /\ r.plan = pass[p].plan \ {i}
        /\ r.cur = pass[p].cur /\ r.next = "force"
    BY <2>1 DEF PassState, ActionFails
  <2> HIDE DEF r
  <2>4. pass'[p] = r
    BY <2>2 DEF TypeOK
  <2>5. ASSUME NEW j \in Pending', Carries(p, j)
        PROVE  Announced(j)'
    <3>1. Carries(p, j)'
      BY <2>3, <2>4, <2>5 DEF Carries, ActionFails
    <3> QED
      BY <3>1 DEF Announced
  <2>6. PassesKeep
    BY <2>2, <2>3, <2>5, OnePass DEF Reading
  <2> QED
    BY <2>2, <2>3, <2>6 DEF TypeOK
<1>3. changes' \in ChangeState
  BY <1>1 DEF Grows, Covers
<1>4. TypeOK'
  <2>1. /\ unsynced' \subseteq Items /\ fsq' \subseteq LocalItems
        /\ unheard' \subseteq RemoteItems /\ missed' \subseteq LocalItems
    BY DEF TypeOK, ActionFails, EnvVars, UserVars
  <2>2. /\ reading' \in Passes \cup {"free"} /\ approval' \subseteq Items
        /\ offered' \subseteq Items /\ loop' \in LoopPlaces
    BY DEF TypeOK, ActionFails, EnvVars, UserVars, LoopPlaces
  <2>3. /\ live' \in BOOLEAN /\ paused' \in BOOLEAN /\ resuming' \in BOOLEAN
        /\ dirty' \in BOOLEAN /\ requested' \in BOOLEAN /\ broke' \in BOOLEAN
    BY DEF TypeOK, ActionFails, EnvVars, UserVars
  <2>4. used' \in [changes : 0..MAX_CHANGES, events : 0..MAX_EVENTS]
    BY DEF TypeOK, ActionFails, EnvVars, UserVars, Event, Spend
  <2> QED
    BY <2>1, <2>2, <2>3, <2>4, <1>2, <1>3 DEF TypeOK
<1>5. WatchShape'
  <2>1. \A q \in Passes \ {p} : pass'[q] = pass[q]
    BY DEF ActionFails, TypeOK
  <2> QED
    BY <2>1, ShapeKept DEF ActionFails
<1>6. ListsKeep
  BY <1>1 DEF ListsKeep, Pending, Announced, WholeIsDue, ActionFails, EnvVars, UserVars
<1> QED
  BY <1>2, <1>4, <1>5, <1>6, GrowthKeeps

LEMMA NextPassScopeKeeps ==
    ASSUME ChangesInvariant, NEW p \in Passes, NextPassScope(p)
    PROVE  ChangesInvariant'
<1> TypeOK /\ WatchShape
  BY DEF ChangesInvariant
<1>1. Grows(changes, changes')
  <2>1. Grows(changes, [changes EXCEPT !.held = TRUE])
    BY DEF TypeOK, ChangeState, Grows, Covers
  <2> QED
    BY <2>1, ForceGrows DEF TypeOK, CatchUps, NextPassScope
<1>2. PassesKeep /\ pass' \in [Passes -> PassState]
  <2>1. pass[p] \in PassState
    BY DEF TypeOK
  <2> DEFINE r == [pass[p] EXCEPT !.next = "none"]
  <2>2. pass' = [pass EXCEPT ![p] = r]
    BY DEF NextPassScope
  <2>3. r \in PassState /\ r.at = "end"
    BY <2>1 DEF PassState, NextPassScope
  <2> HIDE DEF r
  <2>4. changes'.forced \/ changes'.held
    BY ForceGrows DEF TypeOK, ChangeState, CatchUps, NextPassScope
  <2>5. \A i : Announced(i)'
    BY <2>4 DEF Announced, WholeIsDue, read_due
  <2>6. PassesKeep
    BY <2>2, <2>3, <2>5, OnePass DEF Reading
  <2> QED
    BY <2>2, <2>3, <2>6 DEF TypeOK
<1>3. changes' \in ChangeState
  BY <1>1 DEF Grows, Covers
<1>4. TypeOK'
  <2>1. /\ unsynced' \subseteq Items /\ fsq' \subseteq LocalItems
        /\ unheard' \subseteq RemoteItems /\ missed' \subseteq LocalItems
    BY DEF TypeOK, NextPassScope, Outside, EnvVars, UserVars
  <2>2. /\ reading' \in Passes \cup {"free"} /\ approval' \subseteq Items
        /\ offered' \subseteq Items /\ loop' \in LoopPlaces
    BY DEF TypeOK, NextPassScope, Outside, EnvVars, UserVars, LoopPlaces
  <2>3. /\ live' \in BOOLEAN /\ paused' \in BOOLEAN /\ resuming' \in BOOLEAN
        /\ dirty' \in BOOLEAN /\ requested' \in BOOLEAN /\ broke' \in BOOLEAN
    BY DEF TypeOK, NextPassScope, Outside, EnvVars, UserVars
  <2>4. used' \in [changes : 0..MAX_CHANGES, events : 0..MAX_EVENTS]
    BY DEF TypeOK, NextPassScope, Outside, EnvVars, UserVars, Event, Spend
  <2> QED
    BY <2>1, <2>2, <2>3, <2>4, <1>2, <1>3 DEF TypeOK
<1>5. WatchShape'
  <2>1. \A q \in Passes \ {p} : pass'[q] = pass[q]
    BY DEF NextPassScope, TypeOK
  <2> QED
    BY <1>1, <2>1, ShapeKept DEF NextPassScope, Outside, Grows, Covers
<1>6. ListsKeep
  BY <1>1 DEF ListsKeep, Pending, Announced, WholeIsDue, NextPassScope, Outside, EnvVars, UserVars
<1> QED
  BY <1>2, <1>4, <1>5, <1>6, GrowthKeeps

(* A pass cut short hands its remote changes back *)
LEMMA HandBackKeeps ==
    ASSUME ChangesInvariant, NEW p \in Passes, HandBack(p)
    PROVE  ChangesInvariant'
<1> TypeOK /\ WatchShape /\ HandBackIsSpare
  BY DEF ChangesInvariant
<1> DEFINE delta == IF pass[p].full THEN {} ELSE pass[p].remote
           next == IF pass[p].full THEN "force" ELSE pass[p].next
<1>1. delta \in SUBSET RemoteItems /\ next \in {"none", "force", "hold"}
  BY DEF TypeOK, PassState
<1>2. changes' = note_owed_remote(changes, delta)
  BY DEF HandBack
<1>3. Done(p, next, FALSE, TRUE)
  BY DEF HandBack
<1>4. ~pass[p].full => delta = pass[p].remote
  OBVIOUS
<1>5. next = "none" => ~pass[p].full
  OBVIOUS
<1> HIDE DEF delta, next
<1>6. /\ Covers(changes, changes') /\ changes'.owed = changes.owed
      /\ changes'.remoteFull \/ changes'.owed_remote = delta
  BY <1>1, <1>2, NoteOwedRemote DEF TypeOK
<1>7. ASSUME next = "none", NEW i \in Pending', Carries(p, i)
      PROVE  Announced(i)'
  <2>1. i \in pass[p].remote
    BY <1>5, <1>7 DEF Carries, HandBack
  <2> QED
    BY <1>4, <1>5, <1>6, <1>7, <2>1 DEF Announced, WholeIsDue, read_due
<1>8. /\ PassesKeep /\ pass' \in [Passes -> PassState]
      /\ \A q \in Passes \ {p} : pass'[q] = pass[q]
      /\ pass'[p].at = "end"
  BY <1>1, <1>3, <1>7, DonePasses
<1>9. changes' \in ChangeState
  BY <1>6 DEF Covers
<1>10. TypeOK'
  <2>1. /\ unsynced' \subseteq Items /\ fsq' \subseteq LocalItems
        /\ unheard' \subseteq RemoteItems /\ missed' \subseteq LocalItems
    BY DEF TypeOK, HandBack, Outside, EnvVars, UserVars
  <2>2. /\ reading' \in Passes \cup {"free"} /\ approval' \subseteq Items
        /\ offered' \subseteq Items /\ loop' \in LoopPlaces
    BY DEF TypeOK, HandBack, Outside, EnvVars, UserVars, LoopPlaces
  <2>3. /\ live' \in BOOLEAN /\ paused' \in BOOLEAN /\ resuming' \in BOOLEAN
        /\ dirty' \in BOOLEAN /\ requested' \in BOOLEAN /\ broke' \in BOOLEAN
    BY DEF TypeOK, HandBack, Outside, EnvVars, UserVars
  <2>4. used' \in [changes : 0..MAX_CHANGES, events : 0..MAX_EVENTS]
    BY DEF TypeOK, HandBack, Outside, EnvVars, UserVars, Event, Spend
  <2> QED
    BY <2>1, <2>2, <2>3, <2>4, <1>8, <1>9 DEF TypeOK
<1>11. WatchShape'
  BY <1>6, <1>8, ShapeKept DEF HandBack, Outside, Covers
<1>12. changes.owed_remote # {} \/ (\E q \in Passes \ {p} : pass[q].at = "cut") => WholeIsDue
  BY DEF HandBackIsSpare, HandBack
<1>13. \A q \in Passes : pass'[q].at = "cut" => q # p /\ pass[q].at = "cut"
  BY <1>8
<1>14. ListsCover
  BY <1>6, <1>12, <1>13
  DEF ListsCover, Pending, Announced, WholeIsDue, HandBack, Outside, EnvVars, UserVars
<1> QED
  BY <1>8, <1>10, <1>11, <1>14, CoverKeeps

(* A screened plan is owed in the place of what was owed before it, which   *)
(* no change depends on                                                     *)
LEMMA ScreenPlanKeeps ==
    ASSUME ChangesInvariant, NEW p \in Passes, ScreenPlan(p)
    PROVE  ChangesInvariant'
<1> TypeOK /\ WatchShape /\ OwedIsSpare
  BY DEF ChangesInvariant
<1> DEFINE held == IF Held(p) = approval THEN {} ELSE Held(p)
           released == pass[p].plan \ held
           next == IF held = {} THEN "none" ELSE "hold"
<1>1. pass[p] \in PassState /\ pass[p].plan \subseteq Items /\ pass[p].at = "plan"
  BY DEF TypeOK, PassState, ScreenPlan
<1>2. Held(p) \subseteq pass[p].plan
  BY DEF Held
<1>3. held \subseteq pass[p].plan /\ released \in SUBSET Items
  BY <1>1, <1>2
<1>4. changes' = note_owed(changes, released)
  BY DEF ScreenPlan
<1>5. \/ Done(p, next, FALSE, FALSE) /\ released = {}
      \/ pass' = [pass EXCEPT ![p].at = "apply", ![p].plan = released, ![p].next = next]
  BY DEF ScreenPlan
<1>6. approval' \subseteq Items /\ offered' \subseteq Items
  BY <1>1, <1>2 DEF ScreenPlan, TypeOK
<1>7. next \in {"none", "hold"} /\ (next = "none" => released = pass[p].plan)
  OBVIOUS
<1> HIDE DEF held, released, next
<1>8. Covers(changes, changes') /\ changes'.owed_remote = changes.owed_remote
  BY <1>3, <1>4, NoteOwed DEF TypeOK
<1>9. /\ PassesKeep /\ pass' \in [Passes -> PassState]
      /\ \A q \in Passes \ {p} : pass'[q] = pass[q]
  <2>1. CASE Done(p, next, FALSE, FALSE) /\ released = {}
    <3>1. next = "none" => \A i : ~Carries(p, i)
      BY <1>1, <1>7, <2>1 DEF Carries
    <3> QED
      BY <1>7, <2>1, <3>1, DonePasses
  <2>2. CASE pass' = [pass EXCEPT ![p].at = "apply", ![p].plan = released, ![p].next = next]
    <3> DEFINE r == [pass[p] EXCEPT !.at = "apply", !.plan = released, !.next = next]
    <3>1. pass' = [pass EXCEPT ![p] = r]
      BY <2>2
    <3>2. "apply" \in PassPlaces
      BY DEF PassPlaces
    <3>3. /\ r \in PassState /\ r.at = "apply" /\ r.plan = released
          /\ r.cur = pass[p].cur /\ r.next = next
      BY <1>1, <1>3, <1>7, <3>2 DEF PassState
    <3> HIDE DEF r
    <3>4. pass'[p] = r /\ \A q \in Passes \ {p} : pass'[q] = pass[q]
      BY <3>1 DEF TypeOK
    <3>5. ASSUME NEW i \in Pending', Carries(p, i)
          PROVE  Announced(i)'
      <4>1. Carries(p, i)'
        BY <1>1, <1>7, <3>3, <3>4, <3>5 DEF Carries
      <4> QED
        BY <4>1 DEF Announced
    <3>6. PassesKeep
      BY <3>1, <3>3, <3>5, OnePass DEF Reading
    <3> QED
      BY <3>1, <3>3, <3>4, <3>6 DEF TypeOK
  <2> QED
    BY <1>5, <2>1, <2>2
<1>10. changes' \in ChangeState
  BY <1>8 DEF Covers
<1>11. TypeOK'
  <2>1. /\ unsynced' \subseteq Items /\ fsq' \subseteq LocalItems
        /\ unheard' \subseteq RemoteItems /\ missed' \subseteq LocalItems
    BY DEF TypeOK, ScreenPlan, EnvVars
  <2>2. /\ reading' \in Passes \cup {"free"} /\ approval' \subseteq Items
        /\ offered' \subseteq Items /\ loop' \in LoopPlaces
    BY <1>6 DEF TypeOK, ScreenPlan, LoopPlaces
  <2>3. /\ live' \in BOOLEAN /\ paused' \in BOOLEAN /\ resuming' \in BOOLEAN
        /\ dirty' \in BOOLEAN /\ requested' \in BOOLEAN /\ broke' \in BOOLEAN
    BY DEF TypeOK, ScreenPlan, EnvVars
  <2>4. used' \in [changes : 0..MAX_CHANGES, events : 0..MAX_EVENTS]
    BY DEF TypeOK, ScreenPlan, EnvVars, Event, Spend
  <2> QED
    BY <2>1, <2>2, <2>3, <2>4, <1>9, <1>10 DEF TypeOK
<1>12. WatchShape'
  BY <1>1, <1>8, <1>9, ShapeKept DEF ScreenPlan, Covers
<1>13. \A i \in Pending : Announced(i)
  BY <1>1 DEF OwedIsSpare
<1>14. ListsCover
  BY <1>8, <1>13 DEF ListsCover, Pending, Announced, WholeIsDue, ScreenPlan, EnvVars
<1> QED
  BY <1>9, <1>11, <1>12, <1>14, CoverKeeps

(* A pass takes all the lists hold: what they named its scope names *)
LEMMA TakeListsKeeps ==
    ASSUME ChangesInvariant, NEW p \in Passes, TakeLists(p)
    PROVE  ChangesInvariant'
<1> TypeOK /\ WatchShape
  BY DEF ChangesInvariant
<1> DEFINE r == Scope(changes)
<1>1. changes \in ChangeState
  BY DEF TypeOK
<1>2. /\ changes' \in ChangeState /\ changes'.owed = {} /\ changes'.owed_remote = {}
      /\ changes'.local_covered = changes.local_covered
      /\ changes'.degraded = changes.degraded
  <2>1. 0 \in CatchUps
    BY DEF CatchUps
  <2> QED
    BY <1>1, <2>1 DEF TakeLists, take, ChangeState
<1>3. /\ r.at = "catchup" /\ r.local = changes.local \cup changes.owed
      /\ r.remote = changes.remote \cup changes.owed_remote
      /\ r.full = (full_pending \/ changes.held) /\ r.want = changes.current_remote
  BY DEF Scope, NoPass
<1>4. r \in PassState
  <2>1. NoPass \in PassState /\ "catchup" \in PassPlaces
    BY DEF NoPass, PassState, PassPlaces, CatchUps
  <2>2. (full_pending \/ changes.held) \in BOOLEAN
    BY <1>1 DEF ChangeState, full_pending, read_due
  <2>3. /\ changes.local \cup changes.owed \in SUBSET Items
        /\ changes.remote \cup changes.owed_remote \in SUBSET RemoteItems
        /\ changes.current_remote \in CatchUps
    BY <1>1 DEF ChangeState, Items
  <2> QED
    BY <2>1, <2>2, <2>3 DEF Scope, PassState
<1>5. pass' = [pass EXCEPT ![p] = r]
  BY DEF TakeLists
<1> HIDE DEF r
<1>6. /\ pass'[p] = r /\ pass' \in [Passes -> PassState]
      /\ \A q \in Passes \ {p} : pass'[q] = pass[q]
  BY <1>4, <1>5 DEF TypeOK
<1>7. TypeOK'
  <2>1. /\ unsynced' \subseteq Items /\ fsq' \subseteq LocalItems
        /\ unheard' \subseteq RemoteItems /\ missed' \subseteq LocalItems
    BY DEF TypeOK, TakeLists, EnvVars, UserVars
  <2>2. /\ reading' \in Passes \cup {"free"} /\ approval' \subseteq Items
        /\ offered' \subseteq Items /\ loop' \in LoopPlaces
    BY DEF TypeOK, TakeLists, EnvVars, UserVars, LoopPlaces
  <2>3. /\ live' \in BOOLEAN /\ paused' \in BOOLEAN /\ resuming' \in BOOLEAN
        /\ dirty' \in BOOLEAN /\ requested' \in BOOLEAN /\ broke' \in BOOLEAN
    BY DEF TypeOK, TakeLists, EnvVars, UserVars
  <2>4. used' \in [changes : 0..MAX_CHANGES, events : 0..MAX_EVENTS]
    BY DEF TypeOK, TakeLists, EnvVars, UserVars, Event, Spend
  <2> QED
    BY <2>1, <2>2, <2>3, <2>4, <1>2, <1>6 DEF TypeOK
<1>8. WatchShape'
  BY <1>2, <1>6, ShapeKept DEF TakeLists
<1>9. ASSUME NEW i \in Pending'
      PROVE  Announced(i)'
  <2>1. CASE i \in fsq \cup unheard \/ paused \/ resuming
    BY <2>1 DEF Announced, WholeIsDue, TakeLists, EnvVars, UserVars
  <2>2. CASE i \in changes.local \cup changes.remote \cup changes.owed_remote
    <3>1. i \in (r.local \cap LocalItems) \cup r.remote
      BY <1>1, <1>3, <2>2 DEF ChangeState
    <3> QED
      BY <1>3, <1>6, <3>1 DEF Announced, Carries
  <2>3. CASE i \in changes.owed \cap LocalItems
    BY <1>3, <1>6, <2>3 DEF Announced, Carries
  <2>4. CASE r.full
    BY <1>3, <1>6, <2>4 DEF Announced, Carries
  <2>5. CASE \E q \in Passes : Carries(q, i)
    <3>1. PICK q \in Passes : Carries(q, i)
      BY <2>5
    <3>2. q # p
      BY <3>1 DEF Carries, TakeLists
    <3>3. Carries(q, i)'
      BY <1>6, <3>1, <3>2 DEF Carries
    <3> QED
      BY <3>3 DEF Announced
  <2>6. i \in Pending \/ r.full
    BY <1>6 DEF TakeLists, Pending
  <2>7. r.full <=> read_due \/ ~changes.local_covered \/ changes.held
    BY <1>1, <1>3 DEF full_pending, ChangeState, read_due
  <2> QED
    BY <2>1, <2>2, <2>3, <2>4, <2>5, <2>6, <2>7
    DEF ChangesInvariant, NoLostChange, Announced, WholeIsDue
<1>10. HandBackIsSpare'
  <2> SUFFICES ASSUME NEW q \in Passes, pass'[q].at = "cut",
                      NEW q2 \in Passes \ {q}, pass'[q2].at = "cut"
               PROVE  FALSE
    BY <1>2 DEF HandBackIsSpare
  <2> QED
    BY <1>3, <1>6 DEF Passes
<1> QED
  BY <1>7, <1>8, <1>9, <1>10 DEF ChangesInvariant, NoLostChange, OwedIsSpare

-----------------------------------------------------------------------------
LEMMA InitChanges == Init => ChangesInvariant
<1> SUFFICES ASSUME Init PROVE ChangesInvariant
  OBVIOUS
<1>1. changes \in ChangeState
  BY DEF Init, ChangeState, CatchUps
<1>2. pass \in [Passes -> PassState]
  BY DEF Init, NoPass, PassState, PassPlaces, CatchUps
<1>3. used \in [changes : 0..MAX_CHANGES, events : 0..MAX_EVENTS]
  BY DEF Init
<1>4. /\ live \in BOOLEAN /\ paused \in BOOLEAN /\ resuming \in BOOLEAN
      /\ dirty \in BOOLEAN /\ requested \in BOOLEAN /\ broke \in BOOLEAN
  BY DEF Init
<1>5. TypeOK
  BY <1>1, <1>2, <1>3, <1>4 DEF Init, TypeOK, LoopPlaces
<1>6. WatchShape /\ HandBackIsSpare /\ OwedIsSpare
  BY DEF Init, WatchShape, HandBackIsSpare, OwedIsSpare, NoPass, Passes
<1>7. NoLostChange
  BY DEF Init, NoLostChange, Pending
<1> QED
  BY <1>5, <1>6, <1>7 DEF ChangesInvariant

LEMMA StutterKeeps == ChangesInvariant /\ UNCHANGED vars => ChangesInvariant'
<1> SUFFICES ASSUME ChangesInvariant, UNCHANGED vars
             PROVE  ChangesInvariant'
  OBVIOUS
<1>1. TypeOK' /\ WatchShape'
  BY DEF ChangesInvariant, TypeOK, WatchShape, Watched, vars
<1>2. PassesKeep
  BY SamePasses DEF vars
<1>3. ListsKeep
  BY SameGrows DEF ChangesInvariant, TypeOK, ListsKeep, Pending, Announced, WholeIsDue, vars
<1> QED
  BY <1>1, <1>2, <1>3, GrowthKeeps

LEMMA NextChanges ==
    ASSUME ChangesInvariant, [Next]_vars
    PROVE  ChangesInvariant'
<1>1. CASE UNCHANGED vars
  BY <1>1, StutterKeeps
<1>2. ASSUME NEW i \in Items, Change(i) \/ LocalEvent(i) \/ RemoteEvent(i)
      PROVE  ChangesInvariant'
  BY <1>2, ChangeKeeps, LocalEventKeeps, RemoteEventKeeps
<1>3. CASE EventsDropped \/ SocketChanges \/ pause_pair \/ resume_pair \/ ForceResumed
             \/ request_pass \/ approve_deletions
  BY <1>3, EventsDroppedKeeps, SocketChangesKeeps, PauseKeeps, ResumeKeeps, ForceResumedKeeps,
     RequestPassKeeps, ApproveKeeps
<1>4. ASSUME NEW p \in Passes, PassStep(p)
      PROVE  ChangesInvariant'
  BY <1>4, TakeListsKeeps, CaughtUpKeeps, ReadSidesKeeps, ScreenPlanKeeps, ApplyActionKeeps,
     HandBackKeeps, ApplyEndsKeeps, NextPassScopeKeeps
  DEF PassStep
<1>5. ASSUME NEW p \in Passes, PassFault(p)
      PROVE  ChangesInvariant'
  BY <1>5, ViewEndsKeeps, CatchUpEndsKeeps, ReadEndsKeeps, ActionFailsKeeps, ApplyHaltsKeeps,
     ApplyCutKeeps
  DEF PassFault
<1>6. CASE SyncOnce \/ OnceReturns \/ WatchStarts \/ NetDue \/ LoopStep \/ DebounceRestarts
             \/ WatchEnds
  BY <1>6, SyncOnceKeeps, OnceReturnsKeeps, WatchStartsKeeps, NetDueKeeps, LoopTopKeeps,
     PassReturnsKeeps, WokenKeeps, DebounceEndsKeeps, BackoffEndsKeeps, DebounceRestartsKeeps,
     WatchEndsKeeps
  DEF LoopStep
<1> QED
  BY <1>1, <1>2, <1>3, <1>4, <1>5, <1>6 DEF Next, Announce

(* No change is forgotten between the changelists and the passes: whatever  *)
(* events are dropped, passes fail, are cut short by a pause or overlap,    *)
(* whenever watches start and end and however small the lists' cap, a       *)
(* change no pass has carried out is announced, listed, carried or covered  *)
(* by a whole read still due (PairChanges, next_pass_scope).  The one that  *)
(* the invariant excepts is a local change made while no watcher ran, once  *)
(* a watch starts with no whole read due: it is missed until a whole pass.  *)
THEOREM NoChangeIsForgotten == Spec => []ChangesInvariant
  BY InitChanges, NextChanges, PTL DEF Spec
=============================================================================
