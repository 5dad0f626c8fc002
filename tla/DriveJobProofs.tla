--------------------------- MODULE DriveJobProofs ---------------------------
(* Proofs about DriveJob, for any plan of directories and files, names,     *)
(* chunks, limits and faults.                                               *)
EXTENDS DriveJob, FiniteSetTheorems, TLAPS

-----------------------------------------------------------------------------
(* The plan's tree. *)

LEMMA BelowIs ==
    ASSUME NEW i, NEW j \in Items
    PROVE  j \in Below(i) <=> Parent[j] \in Below(i) \cup {i}
<1>1. ASSUME Parent[j] \in Below(i) \cup {i} PROVE j \in Below(i)
  <2> SUFFICES ASSUME NEW S \in SUBSET Items,
                      \A k \in Items : Parent[k] \in S \cup {i} => k \in S
               PROVE  j \in S
    BY DEF Below
  <2>1. Parent[j] \in S \cup {i}
    BY <1>1 DEF Below
  <2> QED
    BY <2>1
<1>2. ASSUME j \in Below(i) PROVE Parent[j] \in Below(i) \cup {i}
  <2> DEFINE S == {k \in Below(i) : Parent[k] \in Below(i) \cup {i}}
  <2>1. S \in SUBSET Items
    BY DEF Below
  <2>2. ASSUME NEW k \in Items, Parent[k] \in S \cup {i} PROVE k \in S
    <3>1. Parent[k] \in Below(i) \cup {i}
      BY <2>2
    <3>2. k \in Below(i)
      <4> SUFFICES ASSUME NEW U \in SUBSET Items,
                          \A m \in Items : Parent[m] \in U \cup {i} => m \in U
                   PROVE  k \in U
        BY DEF Below
      <4>1. Parent[k] \in U \cup {i}
        BY <3>1 DEF Below
      <4> QED
        BY <4>1
    <3> QED
      BY <3>1, <3>2
  <2> HIDE DEF S
  <2>3. j \in S
    BY <1>2, <2>1, <2>2 DEF Below
  <2> QED
    BY <2>3 DEF S
<1> QED
  BY <1>1, <1>2

LEMMA BelowInPlan == ASSUME NEW i PROVE Below(i) \subseteq Items
  BY DEF Below

LEMMA NothingAboveTop ==
    ASSUME NEW i \in TopLevel, NEW k \in Items PROVE i \notin Below(k)
<1>1. i \in Items /\ Parent[i] = Dest
  BY DEF TopLevel
<1>2. Dest \notin Below(k) /\ Dest # k
  BY PlanAssumption, BelowInPlan
<1> QED
  BY <1>1, <1>2, BelowIs

LEMMA ParentIs ==
    ASSUME NEW i \in Items, i \notin TopLevel
    PROVE  Parent[i] \in Dirs /\ Parent[i] \in Items /\ i \in Below(Parent[i])
<1>1. Parent[i] \in Dirs
  BY PlanAssumption DEF TopLevel
<1> QED
  BY <1>1, BelowIs DEF Items

-----------------------------------------------------------------------------
(* Operations in flight. *)

LEMMA ChunksAreFinite == IsFiniteSet(AllChunks)
<1>1. ASSUME NEW f \in Files PROVE IsFiniteSet({f} \X (1 .. Chunks[f]))
  <2> DEFINE n == Chunks[f]
             g == [c \in 1 .. n |-> <<f, c>>]
  <2>1. n \in Nat
    BY PlanAssumption
  <2>2. IsFiniteSet(1 .. n)
    BY <2>1, FS_Interval
  <2>3. g \in [1 .. n -> {f} \X (1 .. n)]
    OBVIOUS
  <2>4. ASSUME NEW x \in {f} \X (1 .. n) PROVE \E c \in 1 .. n : g[c] = x
    <3>1. x = <<f, x[2]>> /\ x[2] \in 1 .. n
      BY <2>4
    <3> QED
      BY <3>1
  <2> HIDE DEF n, g
  <2>5. g \in Surjection(1 .. n, {f} \X (1 .. n))
    BY <2>3, <2>4 DEF Surjection
  <2>6. IsFiniteSet({f} \X (1 .. n))
    BY <2>2, <2>5, FS_Surjection
  <2> QED
    BY <2>6 DEF n
<1> DEFINE C == {{f} \X (1 .. Chunks[f]) : f \in Files}
           h == [f \in Files |-> {f} \X (1 .. Chunks[f])]
<1>2. IsFiniteSet(Files)
  BY PlanAssumption, FS_Subset DEF Items
<1>3. h \in [Files -> C] /\ \A x \in C : \E f \in Files : h[f] = x
  OBVIOUS
<1>4. \A x \in C : IsFiniteSet(x)
  BY <1>1
<1> HIDE DEF C, h
<1>5. h \in Surjection(Files, C)
  BY <1>3 DEF Surjection
<1>6. IsFiniteSet(C)
  BY <1>2, <1>5, FS_Surjection
<1>7. IsFiniteSet(UNION C)
  BY <1>4, <1>6, FS_UNION
<1> QED
  BY <1>7 DEF AllChunks, C

LEMMA HoldersAreFinite == IsFiniteSet(Holders)
  BY PlanAssumption, FS_AddElement DEF Holders

(* The counters are zero when nobody is in an operation *)
LEMMA NothingInFlight ==
    ASSUME NEW hs, NEW cs
    PROVE  OpsInFlight(hs, cs) = 0 <=>
             /\ \A h \in Holders : hs[h] = "none"
             /\ \A f \in Files : \A c \in 1 .. Chunks[f] : OpOut(cs[f][c])
<1> DEFINE H == {h \in Holders : hs[h] # "none"}
           X == {x \in AllChunks : ~OpOut(cs[x[1]][x[2]])}
<1>1. H \in SUBSET Holders /\ X \in SUBSET AllChunks
  OBVIOUS
<1>2. IsFiniteSet(H) /\ IsFiniteSet(X)
  BY <1>1, HoldersAreFinite, ChunksAreFinite, FS_Subset
<1>3. OpsInFlight(hs, cs) = Cardinality(H) + Cardinality(X)
  BY DEF OpsInFlight
<1>4. H = {} <=> \A h \in Holders : hs[h] = "none"
  OBVIOUS
<1>5. X = {} <=> \A f \in Files : \A c \in 1 .. Chunks[f] : OpOut(cs[f][c])
  <2>1. ASSUME X = {}, NEW f \in Files, NEW c \in 1 .. Chunks[f] PROVE OpOut(cs[f][c])
    <3>1. <<f, c>> \in AllChunks
      BY DEF AllChunks
    <3> QED
      BY <2>1, <3>1
  <2>2. ASSUME \A f \in Files : \A c \in 1 .. Chunks[f] : OpOut(cs[f][c]), NEW x \in AllChunks
        PROVE  OpOut(cs[x[1]][x[2]])
    <3>1. PICK f \in Files : x \in {f} \X (1 .. Chunks[f])
      BY DEF AllChunks
    <3>2. x[1] = f /\ x[2] \in 1 .. Chunks[f]
      BY <3>1
    <3> QED
      BY <2>2, <3>2
  <2> QED
    BY <2>1, <2>2
<1> HIDE DEF H, X
<1>6. Cardinality(H) \in Nat /\ Cardinality(X) \in Nat
  BY <1>2, FS_CardinalityType
<1>7. (Cardinality(H) = 0 <=> H = {}) /\ (Cardinality(X) = 0 <=> X = {})
  BY <1>2, FS_EmptySet
<1> QED
  BY <1>3, <1>4, <1>5, <1>6, <1>7

LEMMA UpdatePausedIs ==
    ASSUME NEW c \in Core, NEW hs, NEW cs
    PROVE  /\ UpdatePaused(c, hs, cs) \in Core
           /\ UpdatePaused(c, hs, cs).paused =>
                /\ \A h \in Holders : hs[h] = "none"
                /\ \A f \in Files : \A k \in 1 .. Chunks[f] : OpOut(cs[f][k])
<1>1. UpdatePaused(c, hs, cs) \in Core
  BY DEF UpdatePaused, Core
<1>2. UpdatePaused(c, hs, cs).paused => OpsInFlight(hs, cs) = 0
  BY DEF UpdatePaused, Core
<1> QED
  BY <1>1, <1>2, NothingInFlight

LEMMA AskedIs ==
    ASSUME NEW c \in Core, ControlTypes
    PROVE  /\ SetPauseRequested(c, IsPauseRequested) \in Core
           /\ WindDown(c) \in Core
<1>1. IsPauseRequested \in BOOLEAN
  BY DEF ControlTypes, IsPauseRequested
<1>2. SetPauseRequested(c, IsPauseRequested) \in Core
  BY <1>1 DEF Core, SetPauseRequested
<1>3. WindDown(c) \in Core
  BY DEF Core, WindDown, ControlTypes
<1> QED
  BY <1>2, <1>3

LEMMA TickIs ==
    ASSUME JobCore, Tick PROVE core' \in Core /\ PausedIsQuiet'
<1>1. core \in Core /\ core' = UpdatePaused(core, held', chunk')
  BY DEF JobCore, TypeOK, ControlTypes, Tick
<1> QED
  BY <1>1, UpdatePausedIs DEF PausedIsQuiet

(* A chunk that moves on leaves the others where they are *)
LEMMA StageIs ==
    ASSUME TaskTypes, NEW f \in Files, NEW c \in 1 .. Chunks[f], NEW s \in Stages, Stage(f, c, s)
    PROVE  /\ DOMAIN chunk' = Files
           /\ \A g \in Files : chunk'[g] \in [1 .. Chunks[g] -> Stages]
           /\ chunk'[f][c] = s
           /\ \A g \in Files : g # f => chunk'[g] = chunk[g]
           /\ \A g \in Files : \A d \in 1 .. Chunks[g] :
                g # f \/ d # c => chunk'[g][d] = chunk[g][d]
  BY DEF TaskTypes, Stage

LEMMA DropsChunksIs ==
    ASSUME TaskTypes, NEW f \in Files, DropsChunks(f)
    PROVE  /\ DOMAIN chunk' = Files
           /\ \A g \in Files : chunk'[g] \in [1 .. Chunks[g] -> Stages]
           /\ \A g \in Files : g # f => chunk'[g] = chunk[g]
           /\ \A g \in Files : \A d \in 1 .. Chunks[g] :
                /\ OpOut(chunk[g][d]) => OpOut(chunk'[g][d])
                /\ ~OpOut(chunk[g][d]) => ~OpOut(chunk'[g][d])
<1>1. chunk' = [chunk EXCEPT ![f] = [c \in 1 .. Chunks[f] |->
                  IF OpOut(chunk[f][c]) THEN chunk[f][c] ELSE "freed"]]
  BY DEF DropsChunks
<1>2. DOMAIN chunk' = Files /\ \A g \in Files : g # f => chunk'[g] = chunk[g]
  BY <1>1 DEF TaskTypes
<1>3. chunk'[f] = [c \in 1 .. Chunks[f] |->
                     IF OpOut(chunk[f][c]) THEN chunk[f][c] ELSE "freed"]
  BY <1>1 DEF TaskTypes
<1>4. chunk'[f] \in [1 .. Chunks[f] -> Stages]
  <2>1. chunk[f] \in [1 .. Chunks[f] -> Stages] /\ "freed" \in Stages
    BY DEF TaskTypes, Stages
  <2>2. \A c \in 1 .. Chunks[f] : chunk[f][c] \in Stages
    BY <2>1
  <2> QED
    BY <1>3, <2>1, <2>2
<1> QED
  BY <1>2, <1>3, <1>4 DEF TaskTypes, OpOut

-----------------------------------------------------------------------------
(* What the job relies on, step by step.  A step of a task is about one
   item, in flight before and after; the driver is in its loop meanwhile. *)

Moves(i) ==
    /\ UNCHANGED <<ctl, phase, pc, fatal, told, targets, current, left, shared>>
    /\ i \in Items /\ i \in InFlight /\ at'[i] \notin {"planned", "ready", "gone"}
    /\ \A j \in Items : j # i => at'[j] = at[j] /\ made'[j] = made[j]
    /\ \A h \in Holders : h # i => held'[h] = held[h]
    /\ \A g \in Files : g # i => chunk'[g] = chunk[g]
    /\ unshared \subseteq unshared' /\ inShare \subseteq inShare'
KeepsShare(i) == targets /\ at'[i] = "over" => i \in inShare' \cup unshared'

LEMMA MovesKeeps ==
    ASSUME JobCore, NEW i, Moves(i), TypeOK', ShapeOf(i)', ReportOf(i)', KeepsShare(i),
           PausedIsQuiet', NamesInOrder'
    PROVE  JobCore'
<1>1. /\ i \in Items /\ i \in InFlight /\ Driver \in Holders /\ Driver # i
      /\ \A j \in Items : j \in Holders
      /\ pc \in {"top", "select"} /\ phase \in {"dirs", "files"}
  BY PlanAssumption DEF Moves, JobCore, DriverShape, Holders
<1>2. DriverShape'
  BY <1>1 DEF Moves, JobCore, DriverShape, Ended, InFlight
<1>3. CreatedTopDown'
  BY <1>1 DEF Moves, JobCore, CreatedTopDown, CreatedTops, Begun, InFlight
<1>4. left = {}
  BY <1>1 DEF JobCore, RecheckShape
<1>5. RecheckShape'
  BY <1>1, <1>4 DEF Moves, JobCore, RecheckShape
<1>6. TaskShape'
  BY <1>1 DEF Moves, JobCore, TaskShape, ShapeOf, Idle
<1>7. ReportShape'
  BY <1>1 DEF Moves, JobCore, ReportShape, ReportOf
<1>8. SharesFound'
  BY <1>1 DEF Moves, JobCore, ReportShape, ReportOf, SharesFound, KeepsShare, InFlight
<1> QED
  BY <1>2, <1>3, <1>5, <1>6, <1>7, <1>8 DEF JobCore

(* The names that were checked, and the locks they were checked under *)
NamesKept == NameIsFree /\ NewFilesAreNew => NameIsFree' /\ NewFilesAreNew'

LEMMA HolderMoves ==
    ASSUME TaskTypes, NEW k \in Holders, held' = [held EXCEPT ![k] = held'[k]],
           UNCHANGED <<name, entry, foreign, made>>,
           UNCHANGED stale \/ (stale' = stale \ {k} /\ held'[k] = "leaving"),
           foreign = "now" /\ held'[k] \in {"got", "good"} => held[k] \in {"got", "good"},
           \A f \in Files \cap TopLevel :
             at'[f] = "write" => at[f] = "write" /\ (f = k /\ held[f] = "good" => held'[f] = "good")
    PROVE  NamesKept
<1> SUFFICES ASSUME NameIsFree, NewFilesAreNew PROVE NameIsFree' /\ NewFilesAreNew'
  BY DEF NamesKept
<1>1. \A h \in Holders : h # k => held'[h] = held[h] /\ (h \in stale <=> h \in stale')
  BY DEF TaskTypes
<1>2. ASSUME foreign' = "now", NEW h \in Holders \ stale', HasLock(h)' PROVE FALSE
  <2>1. h \notin stale /\ HasLock(h)
    BY <1>1, <1>2 DEF HasLock
  <2> QED
    BY <1>2, <2>1 DEF NameIsFree, Covered
<1>3. ASSUME NEW f \in Files \cap TopLevel, at'[f] = "write"
      PROVE  held'[f] = "good" /\ (f \notin stale' => entry'[name'[f].is] = "free")
  <2>1. at[f] = "write" /\ held[f] = "good" /\ (f \notin stale => entry[name[f].is] = "free")
    BY <1>3 DEF NameIsFree
  <2>2. f \in Holders
    BY DEF Holders, Items
  <2>3. held'[f] = "good" /\ (f \in stale <=> f \in stale')
    BY <1>1, <1>3, <2>1, <2>2
  <2> QED
    BY <2>1, <2>3
<1>4. NameIsFree'
  BY <1>2, <1>3 DEF NameIsFree, Covered
<1> QED
  BY <1>4 DEF NewFilesAreNew

LEMMA ControlsKeepsCore == ASSUME JobCore, Controls PROVE JobCore'
<1>1. ControlTypes'
  BY DEF JobCore, TypeOK, ControlTypes, Controls, Pause, Resume, Cancel, DropController,
         server, report, recheck
<1>2. TaskTypes'
  BY DEF JobCore, TypeOK, TaskTypes, HasLock, Controls, server, report, recheck
<1>3. ServerTypes'
  BY DEF JobCore, TypeOK, ServerTypes, Controls, server, report, recheck
<1>4. TaskShape'
  BY DEF JobCore, TypeOK, TaskShape, ShapeOf, Idle, Controls, server, report, recheck
<1>5. DriverShape'
  BY DEF JobCore, TypeOK, DriverShape, InFlight, Ended, Controls, server, report, recheck
<1>6. ReportShape'
  BY DEF JobCore, TypeOK, ReportShape, ReportOf, Controls, server, report, recheck
<1>7. CreatedTopDown'
  BY DEF JobCore, TypeOK, CreatedTopDown, Begun, CreatedTops, Controls, server, report, recheck
<1>8. SharesFound'
  BY DEF JobCore, TypeOK, SharesFound, Controls, server, report, recheck
<1>9. RecheckShape'
  BY DEF JobCore, TypeOK, RecheckShape, CreatedTops, Shared, Controls, server, report, recheck
<1>10. PausedIsQuiet'
  BY DEF JobCore, TypeOK, PausedIsQuiet, Controls, server, report, recheck
<1>11. NamesInOrder'
  BY DEF JobCore, TypeOK, NamesInOrder, Controls, server, report, recheck
<1> QED
  BY <1>1, <1>2, <1>3, <1>4, <1>5, <1>6, <1>7, <1>8, <1>9, <1>10, <1>11 DEF JobCore, TypeOK

LEMMA LeaseLostKeepsCore == ASSUME JobCore, LeaseLost PROVE JobCore'
<1>1. ControlTypes'
  BY DEF JobCore, TypeOK, ControlTypes, LeaseLost, control, report, recheck
<1>2. TaskTypes'
  BY DEF JobCore, TypeOK, TaskTypes, LockStages, HasLock, LeaseLost, control, report, recheck
<1>3. ServerTypes'
  BY DEF JobCore, TypeOK, ServerTypes, LeaseLost, HasLock, control, report, recheck
<1>4. TaskShape'
  BY DEF JobCore, TypeOK, TaskShape, ShapeOf, Idle, LeaseLost, control, report, recheck
<1>5. DriverShape'
  BY DEF JobCore, TypeOK, DriverShape, InFlight, Ended, LeaseLost, control, report, recheck
<1>6. ReportShape'
  BY DEF JobCore, TypeOK, ReportShape, ReportOf, LeaseLost, control, report, recheck
<1>7. CreatedTopDown'
  BY DEF JobCore, TypeOK, CreatedTopDown, Begun, CreatedTops, LeaseLost, control, report,
         recheck
<1>8. SharesFound'
  BY DEF JobCore, TypeOK, SharesFound, LeaseLost, control, report, recheck
<1>9. RecheckShape'
  BY DEF JobCore, TypeOK, RecheckShape, CreatedTops, Shared, LeaseLost, control, report,
         recheck
<1>10. PausedIsQuiet'
  BY DEF JobCore, TypeOK, PausedIsQuiet, LeaseLost, control, report, recheck
<1>11. NamesInOrder'
  BY DEF JobCore, TypeOK, NamesInOrder, LeaseLost, control, report, recheck
<1> QED
  BY <1>1, <1>2, <1>3, <1>4, <1>5, <1>6, <1>7, <1>8, <1>9, <1>10, <1>11 DEF JobCore, TypeOK

LEMMA ForeignTakesKeepsCore == ASSUME JobCore, ForeignTakes PROVE JobCore'
<1>1. ControlTypes'
  BY DEF JobCore, TypeOK, ControlTypes, ForeignTakes, control, report, recheck
<1>2. TaskTypes'
  BY DEF JobCore, TypeOK, TaskTypes, HasLock, ForeignTakes, control, report, recheck
<1>3. ServerTypes'
  BY DEF JobCore, TypeOK, ServerTypes, ForeignTakes, control, report, recheck
<1>4. TaskShape'
  BY DEF JobCore, TypeOK, TaskShape, ShapeOf, Idle, ForeignTakes, control, report, recheck
<1>5. DriverShape'
  BY DEF JobCore, TypeOK, DriverShape, InFlight, Ended, ForeignTakes, control, report, recheck
<1>6. ReportShape'
  BY DEF JobCore, TypeOK, ReportShape, ReportOf, ForeignTakes, control, report, recheck
<1>7. CreatedTopDown'
  BY DEF JobCore, TypeOK, CreatedTopDown, Begun, CreatedTops, ForeignTakes, control, report,
         recheck
<1>8. SharesFound'
  BY DEF JobCore, TypeOK, SharesFound, ForeignTakes, control, report, recheck
<1>9. RecheckShape'
  BY DEF JobCore, TypeOK, RecheckShape, CreatedTops, Shared, ForeignTakes, control, report,
         recheck
<1>10. PausedIsQuiet'
  BY DEF JobCore, TypeOK, PausedIsQuiet, ForeignTakes, control, report, recheck
<1>11. NamesInOrder'
  BY DEF JobCore, TypeOK, NamesInOrder, ForeignTakes, control, report, recheck
<1> QED
  BY <1>1, <1>2, <1>3, <1>4, <1>5, <1>6, <1>7, <1>8, <1>9, <1>10, <1>11 DEF JobCore, TypeOK

LEMMA ForeignLeavesKeepsCore == ASSUME JobCore, ForeignLeaves PROVE JobCore'
<1>1. ControlTypes'
  BY DEF JobCore, TypeOK, ControlTypes, ForeignLeaves, control, report, recheck
<1>2. TaskTypes'
  BY DEF JobCore, TypeOK, TaskTypes, HasLock, ForeignLeaves, control, report, recheck
<1>3. ServerTypes'
  BY DEF JobCore, TypeOK, ServerTypes, ForeignLeaves, control, report, recheck
<1>4. TaskShape'
  BY DEF JobCore, TypeOK, TaskShape, ShapeOf, Idle, ForeignLeaves, control, report, recheck
<1>5. DriverShape'
  BY DEF JobCore, TypeOK, DriverShape, InFlight, Ended, ForeignLeaves, control, report, recheck
<1>6. ReportShape'
  BY DEF JobCore, TypeOK, ReportShape, ReportOf, ForeignLeaves, control, report, recheck
<1>7. CreatedTopDown'
  BY DEF JobCore, TypeOK, CreatedTopDown, Begun, CreatedTops, ForeignLeaves, control, report,
         recheck
<1>8. SharesFound'
  BY DEF JobCore, TypeOK, SharesFound, ForeignLeaves, control, report, recheck
<1>9. RecheckShape'
  BY DEF JobCore, TypeOK, RecheckShape, CreatedTops, Shared, ForeignLeaves, control, report,
         recheck
<1>10. PausedIsQuiet'
  BY DEF JobCore, TypeOK, PausedIsQuiet, ForeignLeaves, control, report, recheck
<1>11. NamesInOrder'
  BY DEF JobCore, TypeOK, NamesInOrder, ForeignLeaves, control, report, recheck
<1> QED
  BY <1>1, <1>2, <1>3, <1>4, <1>5, <1>6, <1>7, <1>8, <1>9, <1>10, <1>11 DEF JobCore, TypeOK

LEMMA UserSharesKeepsCore == ASSUME JobCore, UserShares PROVE JobCore'
<1>1. ControlTypes'
  BY DEF JobCore, TypeOK, ControlTypes, UserShares, control, report, recheck
<1>2. TaskTypes'
  BY DEF JobCore, TypeOK, TaskTypes, HasLock, UserShares, control, report, recheck
<1>3. ServerTypes'
  BY DEF JobCore, TypeOK, ServerTypes, UserShares, control, report, recheck
<1>4. TaskShape'
  BY DEF JobCore, TypeOK, TaskShape, ShapeOf, Idle, UserShares, control, report, recheck
<1>5. DriverShape'
  BY DEF JobCore, TypeOK, DriverShape, InFlight, Ended, UserShares, control, report, recheck
<1>6. ReportShape'
  BY DEF JobCore, TypeOK, ReportShape, ReportOf, UserShares, control, report, recheck
<1>7. CreatedTopDown'
  BY DEF JobCore, TypeOK, CreatedTopDown, Begun, CreatedTops, UserShares, control, report,
         recheck
<1>8. SharesFound'
  BY DEF JobCore, TypeOK, SharesFound, TaskTypes, ServerTypes, ReportShape, ReportOf,
         UserShares, control, report, recheck
<1>9. RecheckShape'
  BY BelowInPlan
  DEF JobCore, TypeOK, RecheckShape, CreatedTops, Shared, ServerTypes, ReportShape, ReportOf,
      TopLevel, UserShares, control, report, recheck
<1>10. PausedIsQuiet'
  BY DEF JobCore, TypeOK, PausedIsQuiet, UserShares, control, report, recheck
<1>11. NamesInOrder'
  BY DEF JobCore, TypeOK, NamesInOrder, UserShares, control, report, recheck
<1> QED
  BY <1>1, <1>2, <1>3, <1>4, <1>5, <1>6, <1>7, <1>8, <1>9, <1>10, <1>11 DEF JobCore, TypeOK

LEMMA OpFinishedKeepsCore == ASSUME JobCore, NEW h \in Holders, OpFinished(h) PROVE JobCore'
<1>1. ControlTypes'
  BY TickIs DEF JobCore, TypeOK, ControlTypes, OpFinished, control, server, report, recheck
<1>2. TaskTypes'
  BY DEF JobCore, TypeOK, TaskTypes, LockStages, HasLock, OpFinished, control, server, report,
         recheck
<1>3. ServerTypes'
  BY DEF JobCore, TypeOK, ServerTypes, OpFinished, control, server, report, recheck
<1>4. TaskShape'
  BY DEF JobCore, TypeOK, TaskShape, TaskTypes, ShapeOf, Idle, LockStages, OpFinished, control,
         server, report, recheck
<1>5. DriverShape'
  BY DEF JobCore, TypeOK, DriverShape, InFlight, Ended, TaskTypes, OpFinished, control, server,
         report, recheck
<1>6. ReportShape'
  BY DEF JobCore, TypeOK, ReportShape, ReportOf, OpFinished, control, server, report, recheck
<1>7. CreatedTopDown'
  BY DEF JobCore, TypeOK, CreatedTopDown, Begun, CreatedTops, OpFinished, control, server,
         report, recheck
<1>8. SharesFound'
  BY DEF JobCore, TypeOK, SharesFound, OpFinished, control, server, report, recheck
<1>9. RecheckShape'
  BY DEF JobCore, TypeOK, RecheckShape, CreatedTops, Shared, OpFinished, control, server,
         report, recheck
<1>10. PausedIsQuiet'
  BY TickIs
  DEF JobCore, TypeOK, PausedIsQuiet, TaskTypes, OpFinished, control, server, report, recheck
<1>11. NamesInOrder'
  BY DEF JobCore, TypeOK, NamesInOrder, OpFinished, control, server, report, recheck
<1> QED
  BY <1>1, <1>2, <1>3, <1>4, <1>5, <1>6, <1>7, <1>8, <1>9, <1>10, <1>11 DEF JobCore, TypeOK

LEMMA UnderLockIs ==
    ASSUME NEW i
    PROVE  /\ UnderLock(i) \in {"check", "write"} /\ (UnderLock(i) = "check" => i \in TopLevel)
           /\ i \in Files \cap TopLevel => UnderLock(i) = "check"
  BY PlanAssumption DEF UnderLock

LEMMA NextNameIs ==
    ASSUME JobCore, NEW i \in Items, i \in TopLevel, NEW then, NextName(i, then)
    PROVE  /\ name' \in [Items -> [is : Names, tries : 0 .. NAME_ATTEMPTS]] /\ NamesInOrder'
           /\ \A j \in Items : j # i => name'[j] = name[j]
           /\ \/ at' = [at EXCEPT ![i] = "failed"] /\ Drops(i)
              \/ at' = [at EXCEPT ![i] = then] /\ UNCHANGED <<held, stale>>
<1> DEFINE n == name[i]
<1>1. /\ n \in [is : Names, tries : 0 .. NAME_ATTEMPTS] /\ n.is = PlannedName[i] + n.tries
      /\ n.tries < NAME_ATTEMPTS /\ name \in [Items -> [is : Names, tries : 0 .. NAME_ATTEMPTS]]
  BY DEF JobCore, TypeOK, TaskTypes, NamesInOrder
<1>2. /\ PlannedName[i] \in Nat /\ PlannedName[i] >= 1 /\ NAME_ATTEMPTS \in Nat /\ MAX_NAME \in Nat
      /\ PlannedName[i] + NAME_ATTEMPTS - 1 <= MAX_NAME /\ n.tries \in Nat
  BY <1>1, PlanAssumption DEF Names
<1>3. CASE n.tries + 1 >= NAME_ATTEMPTS
  <2>1. UNCHANGED name /\ at' = [at EXCEPT ![i] = "failed"] /\ Drops(i)
    BY <1>3 DEF NextName, Goes
  <2> QED
    BY <1>1, <2>1 DEF JobCore, NamesInOrder
<1>4. CASE ~(n.tries + 1 >= NAME_ATTEMPTS)
  <2> DEFINE m == [is |-> n.is + 1, tries |-> n.tries + 1]
  <2>1. name' = [name EXCEPT ![i] = m] /\ at' = [at EXCEPT ![i] = then] /\ UNCHANGED <<held, stale>>
    BY <1>4 DEF NextName, Goes
  <2>2. m.is = PlannedName[i] + m.tries /\ m.tries < NAME_ATTEMPTS
    BY <1>1, <1>2, <1>4
  <2>3. m \in [is : Names, tries : 0 .. NAME_ATTEMPTS]
    BY <1>1, <1>2, <1>4 DEF Names
  <2> HIDE DEF m, n
  <2>4. name' \in [Items -> [is : Names, tries : 0 .. NAME_ATTEMPTS]]
    BY <1>1, <2>1, <2>3
  <2>5. NamesInOrder'
    BY <1>1, <2>1, <2>2 DEF JobCore, NamesInOrder
  <2> QED
    BY <2>1, <2>4, <2>5
<1> QED
  BY <1>3, <1>4

LEMMA NameCheckIs ==
    ASSUME JobCore, NEW i \in Items, i \in TopLevel, NEW free, NameCheck(i, free)
    PROVE  /\ name' \in [Items -> [is : Names, tries : 0 .. NAME_ATTEMPTS]] /\ NamesInOrder'
           /\ \A j \in Items : j # i => name'[j] = name[j]
           /\ \/ \E out \in {"failed", "fatal"} : at' = [at EXCEPT ![i] = out] /\ Drops(i)
              \/ /\ at' = [at EXCEPT ![i] = free] /\ UNCHANGED <<held, stale, name>>
                 /\ entry[name[i].is] = "free"
              \/ at' = [at EXCEPT ![i] = at[i]] /\ UNCHANGED <<held, stale>>
<1>1. CASE entry[name[i].is] = "free" /\ Goes(i, free) /\ UNCHANGED <<held, stale, name, faults>>
  BY <1>1 DEF Goes, JobCore, TypeOK, TaskTypes, NamesInOrder
<1>2. CASE entry[name[i].is] # "free" /\ NextName(i, at[i]) /\ UNCHANGED faults
  BY <1>2, NextNameIs
<1>3. CASE Fault /\ Drops(i) /\ Fails(i) /\ UNCHANGED name
  BY <1>3 DEF Fails, Goes, JobCore, TypeOK, TaskTypes, NamesInOrder
<1> QED
  BY <1>1, <1>2, <1>3 DEF NameCheck

LEMMA ItemWaitsKeeps ==
    ASSUME JobCore, NEW i \in Items, ItemWaits(i) PROVE JobCore' /\ NamesKept
<1>1. i \in Items /\ i \in Holders /\ (i \in Dirs <=> i \notin Files)
  BY PlanAssumption DEF Items, Holders
<1>2. UNCHANGED <<ctl, phase, pc, fatal, told, targets, current, left, shared>>
  BY DEF ItemWaits, control, server, report, recheck
<1>3. UNCHANGED at /\ at[i] \in LockStages
  BY <1>1
  DEF ItemWaits, control, server, report, recheck, JobCore, TypeOK, TaskShape, ShapeOf,
      LockStages
<1>4. /\ held' = [held EXCEPT ![i] = held'[i]]
      /\ held'[i] = "waiting" /\ held[i] = "none" /\ UNCHANGED stale
  BY <1>1
  DEF ItemWaits, control, server, report, recheck, JobCore, TypeOK, TaskTypes, StartWait
<1>5. UNCHANGED <<unshared, inShare, made>>
  BY DEF ItemWaits, control, server, report, recheck
<1>6. UNCHANGED chunk
  BY DEF ItemWaits, control, server, report, recheck
<1>7. Moves(i)
  BY <1>1, <1>2, <1>3, <1>4, <1>5, <1>6
  DEF JobCore, TypeOK, Moves, TaskTypes, ServerTypes, InFlight, LockStages, TaskShape, ShapeOf
<1>8. ControlTypes'
  BY <1>1, <1>2, <1>3, <1>4, <1>5, <1>6, TickIs
  DEF JobCore, TypeOK, ControlTypes, ItemWaits, LockStages, Written, StartWait, control,
      server, report, recheck
<1>9. TaskTypes'
  BY <1>1, <1>2, <1>3, <1>4, <1>5, <1>6
  DEF JobCore, TypeOK, TaskTypes, LockStages, HasLock, ItemWaits, control, server, report,
      recheck
<1>10. ServerTypes'
  BY DEF JobCore, TypeOK, ServerTypes, ItemWaits, control, server, report, recheck
<1>11. NamesInOrder'
  BY DEF JobCore, TypeOK, NamesInOrder, ItemWaits, control, server, report, recheck
<1>12. PausedIsQuiet'
  BY <1>1, <1>2, <1>3, <1>4, <1>5, <1>6, TickIs
  DEF JobCore, TypeOK, PausedIsQuiet, TaskTypes, ItemWaits, control, server, report, recheck
<1>13. ShapeOf(i)'
  BY <1>1, <1>2, <1>3, <1>4, <1>5, <1>6
  DEF JobCore, TypeOK, TaskShape, ShapeOf, TaskTypes, Idle, LockStages
<1>14. ReportOf(i)'
  BY <1>1, <1>2, <1>3, <1>4, <1>5, <1>6
  DEF JobCore, TypeOK, ReportShape, ReportOf, TaskShape, ShapeOf, TaskTypes, ServerTypes,
      LockStages
<1>15. KeepsShare(i)
  BY <1>1, <1>2, <1>3, <1>4, <1>5, <1>6
  DEF JobCore, TypeOK, KeepsShare, SharesFound, TaskTypes, ServerTypes, LockStages
<1>16. NamesKept
  <2>1. UNCHANGED <<name, entry, foreign, made>>
    BY DEF ItemWaits, control, server, report, recheck
  <2>2. UNCHANGED stale \/ (stale' = stale \ {i} /\ held'[i] = "leaving")
    BY <1>4
  <2>3. foreign = "now" /\ held'[i] \in {"got", "good"} => held[i] \in {"got", "good"}
    BY <1>1, <1>4
  <2>4. ASSUME NEW g \in Files \cap TopLevel, at'[g] = "write"
        PROVE  at[g] = "write" /\ (g = i /\ held[g] = "good" => held'[g] = "good")
    BY <1>1, <1>3, <1>4, <2>4 DEF JobCore, TypeOK, TaskTypes, Items
  <2>5. held' = [held EXCEPT ![i] = held'[i]]
    BY <1>4
  <2> QED
    BY <1>1, <2>1, <2>2, <2>3, <2>4, <2>5, HolderMoves DEF JobCore, TypeOK
<1> QED
  BY <1>7, <1>8, <1>9, <1>10, <1>11, <1>12, <1>13, <1>14, <1>15, <1>16, MovesKeeps
  DEF JobCore, TypeOK

LEMMA ItemStoppedKeeps ==
    ASSUME JobCore, NEW i \in Items, ItemStopped(i) PROVE JobCore' /\ NamesKept
<1>1. i \in Items /\ i \in Holders /\ (i \in Dirs <=> i \notin Files)
  BY PlanAssumption DEF Items, Holders
<1>2. UNCHANGED <<ctl, phase, pc, fatal, told, targets, current, left, shared>>
  BY DEF ItemStopped, control, server, recheck
<1>3. /\ at' = [at EXCEPT ![i] = at'[i]]
      /\ \/ /\ at[i] \in {"color", "propagate"} /\ at'[i] = "over" /\ (targets => i \in unshared')
         \/ at[i] \in {"check", "write"} /\ at'[i] = IF i \in Dirs THEN "back" ELSE "stopped"
  BY <1>1
  DEF ItemStopped, control, server, recheck, JobCore, TypeOK, TaskTypes, TaskShape, ShapeOf,
      LockStages, GivesUp, Goes, Written
<1>4. /\ held' = [held EXCEPT ![i] = held'[i]]
      /\ \/ held[i] = "none" /\ UNCHANGED <<held, stale>>
         \/ held[i] = "waiting" /\ held'[i] = "leaving" /\ stale' = stale \ {i}
  BY <1>1
  DEF ItemStopped, control, server, recheck, JobCore, TypeOK, TaskTypes, StopEndsWait, Leave,
      HasLock
<1>5. /\ unshared \subseteq unshared' /\ inShare \subseteq inShare'
      /\ UNCHANGED <<made, inShare>> /\ unshared' \in {unshared, unshared \cup {i}}
  BY <1>1 DEF ItemStopped, control, server, recheck, JobCore, TypeOK, ServerTypes, GivesUp
<1>6. UNCHANGED chunk
  BY DEF ItemStopped, control, server, recheck
<1>7. Moves(i)
  BY <1>1, <1>2, <1>3, <1>4, <1>5, <1>6
  DEF JobCore, TypeOK, Moves, TaskTypes, ServerTypes, InFlight, LockStages, TaskShape, ShapeOf
<1>8. ControlTypes'
  BY DEF JobCore, TypeOK, ControlTypes, ItemStopped, control, server, recheck
<1>9. TaskTypes'
  BY <1>1, <1>2, <1>3, <1>4, <1>5, <1>6
  DEF JobCore, TypeOK, TaskTypes, LockStages, HasLock, ItemStopped, control, server, recheck
<1>10. ServerTypes'
  BY <1>1, <1>2, <1>3, <1>4, <1>5, <1>6
  DEF JobCore, TypeOK, ServerTypes, ItemStopped, control, server, recheck
<1>11. NamesInOrder'
  BY DEF JobCore, TypeOK, NamesInOrder, ItemStopped, control, server, recheck
<1>12. PausedIsQuiet'
  BY <1>1, <1>2, <1>3, <1>4, <1>5, <1>6
  DEF JobCore, TypeOK, PausedIsQuiet, TaskTypes, ItemStopped, control, server, recheck
<1>13. ShapeOf(i)'
  BY <1>1, <1>2, <1>3, <1>4, <1>5, <1>6
  DEF JobCore, TypeOK, TaskShape, ShapeOf, TaskTypes, Idle, LockStages
<1>14. ReportOf(i)'
  BY <1>1, <1>2, <1>3, <1>4, <1>5, <1>6
  DEF JobCore, TypeOK, ReportShape, ReportOf, TaskShape, ShapeOf, TaskTypes, ServerTypes,
      LockStages
<1>15. KeepsShare(i)
  BY <1>1, <1>2, <1>3, <1>4, <1>5, <1>6
  DEF JobCore, TypeOK, KeepsShare, SharesFound, TaskTypes, ServerTypes, LockStages
<1>16. NamesKept
  <2>1. UNCHANGED <<name, entry, foreign, made>>
    BY DEF ItemStopped, control, server, recheck
  <2>2. UNCHANGED stale \/ (stale' = stale \ {i} /\ held'[i] = "leaving")
    BY <1>4
  <2>3. foreign = "now" /\ held'[i] \in {"got", "good"} => held[i] \in {"got", "good"}
    BY <1>1, <1>4
  <2>4. ASSUME NEW g \in Files \cap TopLevel, at'[g] = "write"
        PROVE  at[g] = "write" /\ (g = i /\ held[g] = "good" => held'[g] = "good")
    BY <1>1, <1>3, <1>4, <2>4 DEF JobCore, TypeOK, TaskTypes, Items
  <2>5. held' = [held EXCEPT ![i] = held'[i]]
    BY <1>4
  <2> QED
    BY <1>1, <2>1, <2>2, <2>3, <2>4, <2>5, HolderMoves DEF JobCore, TypeOK
<1> QED
  BY <1>7, <1>8, <1>9, <1>10, <1>11, <1>12, <1>13, <1>14, <1>15, <1>16, MovesKeeps
  DEF JobCore, TypeOK

LEMMA ItemPausedKeeps ==
    ASSUME JobCore, NEW i \in Items, ItemPaused(i) PROVE JobCore' /\ NamesKept
<1>1. i \in Items /\ i \in Holders /\ (i \in Dirs <=> i \notin Files)
  BY PlanAssumption DEF Items, Holders
<1>2. UNCHANGED <<ctl, phase, pc, fatal, told, targets, current, left, shared>>
  BY DEF ItemPaused, control, server, report, recheck
<1>3. /\ at' = [at EXCEPT ![i] = at'[i]]
      /\ \/ at[i] \in LockStages /\ at'[i] = at[i]
         \/ i \in Dirs /\ at[i] \in {"check", "write"} /\ at'[i] = "back"
  BY <1>1
  DEF ItemPaused, control, server, report, recheck, JobCore, TypeOK, TaskTypes, TaskShape,
      ShapeOf, LockStages, Goes, Written, PauseEndsWait
<1>4. /\ held' = [held EXCEPT ![i] = held'[i]]
      /\ held'[i] = "leaving" /\ held[i] \in {"waiting", "got"} /\ stale' = stale \ {i}
  BY <1>1
  DEF ItemPaused, control, server, report, recheck, JobCore, TypeOK, TaskTypes, PauseEndsWait,
      Leave
<1>5. UNCHANGED <<unshared, inShare, made>>
  BY DEF ItemPaused, control, server, report, recheck
<1>6. UNCHANGED chunk
  BY DEF ItemPaused, control, server, report, recheck
<1>7. Moves(i)
  BY <1>1, <1>2, <1>3, <1>4, <1>5, <1>6
  DEF JobCore, TypeOK, Moves, TaskTypes, ServerTypes, InFlight, LockStages, TaskShape, ShapeOf
<1>8. ControlTypes'
  BY DEF JobCore, TypeOK, ControlTypes, ItemPaused, control, server, report, recheck
<1>9. TaskTypes'
  BY <1>1, <1>2, <1>3, <1>4, <1>5, <1>6
  DEF JobCore, TypeOK, TaskTypes, LockStages, HasLock, ItemPaused, control, server, report,
      recheck
<1>10. ServerTypes'
  BY DEF JobCore, TypeOK, ServerTypes, ItemPaused, control, server, report, recheck
<1>11. NamesInOrder'
  BY DEF JobCore, TypeOK, NamesInOrder, ItemPaused, control, server, report, recheck
<1>12. PausedIsQuiet'
  BY <1>1, <1>2, <1>3, <1>4, <1>5, <1>6
  DEF JobCore, TypeOK, PausedIsQuiet, TaskTypes, ItemPaused, control, server, report, recheck
<1>13. ShapeOf(i)'
  BY <1>1, <1>2, <1>3, <1>4, <1>5, <1>6
  DEF JobCore, TypeOK, TaskShape, ShapeOf, TaskTypes, Idle, LockStages
<1>14. ReportOf(i)'
  BY <1>1, <1>2, <1>3, <1>4, <1>5, <1>6
  DEF JobCore, TypeOK, ReportShape, ReportOf, TaskShape, ShapeOf, TaskTypes, ServerTypes,
      LockStages
<1>15. KeepsShare(i)
  BY <1>1, <1>2, <1>3, <1>4, <1>5, <1>6
  DEF JobCore, TypeOK, KeepsShare, SharesFound, TaskTypes, ServerTypes, LockStages
<1>16. NamesKept
  <2>1. UNCHANGED <<name, entry, foreign, made>>
    BY DEF ItemPaused, control, server, report, recheck
  <2>2. UNCHANGED stale \/ (stale' = stale \ {i} /\ held'[i] = "leaving")
    BY <1>4
  <2>3. foreign = "now" /\ held'[i] \in {"got", "good"} => held[i] \in {"got", "good"}
    BY <1>1, <1>4
  <2>4. ASSUME NEW g \in Files \cap TopLevel, at'[g] = "write"
        PROVE  at[g] = "write" /\ (g = i /\ held[g] = "good" => held'[g] = "good")
    BY <1>1, <1>3, <1>4, <2>4 DEF JobCore, TypeOK, TaskTypes, Items
  <2>5. held' = [held EXCEPT ![i] = held'[i]]
    BY <1>4
  <2> QED
    BY <1>1, <2>1, <2>2, <2>3, <2>4, <2>5, HolderMoves DEF JobCore, TypeOK
<1> QED
  BY <1>7, <1>8, <1>9, <1>10, <1>11, <1>12, <1>13, <1>14, <1>15, <1>16, MovesKeeps
  DEF JobCore, TypeOK

LEMMA ItemLockedKeeps ==
    ASSUME JobCore, NEW i \in Items, ItemLocked(i) PROVE JobCore' /\ NamesKept
<1>1. i \in Items /\ i \in Holders /\ (i \in Dirs <=> i \notin Files)
  BY PlanAssumption DEF Items, Holders
<1>2. UNCHANGED <<ctl, phase, pc, fatal, told, targets, current, left, shared>>
  BY DEF ItemLocked, control, server, report, recheck
<1>3. UNCHANGED at /\ at[i] \in LockStages
  BY <1>1
  DEF ItemLocked, control, server, report, recheck, JobCore, TypeOK, TaskShape, ShapeOf,
      LockStages, Granted, Keeps
<1>4. /\ held' = [held EXCEPT ![i] = held'[i]]
      /\ held'[i] \in {"got", "good"} /\ held[i] \in {"waiting", "got"} /\ UNCHANGED stale
      /\ (held[i] = "waiting" => foreign # "now")
  BY <1>1
  DEF ItemLocked, control, server, report, recheck, JobCore, TypeOK, TaskTypes, Granted, Keeps
<1>5. UNCHANGED <<unshared, inShare, made>>
  BY DEF ItemLocked, control, server, report, recheck
<1>6. UNCHANGED chunk
  BY DEF ItemLocked, control, server, report, recheck
<1>7. Moves(i)
  BY <1>1, <1>2, <1>3, <1>4, <1>5, <1>6
  DEF JobCore, TypeOK, Moves, TaskTypes, ServerTypes, InFlight, LockStages, TaskShape, ShapeOf
<1>8. ControlTypes'
  BY DEF JobCore, TypeOK, ControlTypes, ItemLocked, control, server, report, recheck
<1>9. TaskTypes'
  BY <1>1, <1>2, <1>3, <1>4, <1>5, <1>6
  DEF JobCore, TypeOK, TaskTypes, LockStages, HasLock, ItemLocked, control, server, report,
      recheck
<1>10. ServerTypes'
  BY DEF JobCore, TypeOK, ServerTypes, ItemLocked, control, server, report, recheck
<1>11. NamesInOrder'
  BY DEF JobCore, TypeOK, NamesInOrder, ItemLocked, control, server, report, recheck
<1>12. PausedIsQuiet'
  BY <1>1, <1>2, <1>3, <1>4, <1>5, <1>6
  DEF JobCore, TypeOK, PausedIsQuiet, TaskTypes, ItemLocked, control, server, report, recheck
<1>13. ShapeOf(i)'
  BY <1>1, <1>2, <1>3, <1>4, <1>5, <1>6
  DEF JobCore, TypeOK, TaskShape, ShapeOf, TaskTypes, Idle, LockStages
<1>14. ReportOf(i)'
  BY <1>1, <1>2, <1>3, <1>4, <1>5, <1>6
  DEF JobCore, TypeOK, ReportShape, ReportOf, TaskShape, ShapeOf, TaskTypes, ServerTypes,
      LockStages
<1>15. KeepsShare(i)
  BY <1>1, <1>2, <1>3, <1>4, <1>5, <1>6
  DEF JobCore, TypeOK, KeepsShare, SharesFound, TaskTypes, ServerTypes, LockStages
<1>16. NamesKept
  <2>1. UNCHANGED <<name, entry, foreign, made>>
    BY DEF ItemLocked, control, server, report, recheck
  <2>2. UNCHANGED stale \/ (stale' = stale \ {i} /\ held'[i] = "leaving")
    BY <1>4
  <2>3. foreign = "now" /\ held'[i] \in {"got", "good"} => held[i] \in {"got", "good"}
    BY <1>1, <1>4
  <2>4. ASSUME NEW g \in Files \cap TopLevel, at'[g] = "write"
        PROVE  at[g] = "write" /\ (g = i /\ held[g] = "good" => held'[g] = "good")
    BY <1>1, <1>3, <1>4, <2>4 DEF JobCore, TypeOK, TaskTypes, Items
  <2>5. held' = [held EXCEPT ![i] = held'[i]]
    BY <1>4
  <2> QED
    BY <1>1, <2>1, <2>2, <2>3, <2>4, <2>5, HolderMoves DEF JobCore, TypeOK
<1> QED
  BY <1>7, <1>8, <1>9, <1>10, <1>11, <1>12, <1>13, <1>14, <1>15, <1>16, MovesKeeps
  DEF JobCore, TypeOK

LEMMA ItemLockFailsKeeps ==
    ASSUME JobCore, NEW i \in Items, ItemLockFails(i) PROVE JobCore' /\ NamesKept
<1>1. i \in Items /\ i \in Holders /\ (i \in Dirs <=> i \notin Files)
  BY PlanAssumption DEF Items, Holders
<1>2. UNCHANGED <<ctl, phase, pc, fatal, told, targets, current, left, shared>>
  BY DEF ItemLockFails, control, server, recheck
<1>3. /\ at' = [at EXCEPT ![i] = at'[i]]
      /\ \/ /\ at[i] \in {"color", "propagate"} /\ at'[i] = "over" /\ (targets => i \in unshared')
         \/ at[i] \in {"check", "write"} /\ at'[i] \in {"failed", "fatal"}
  BY <1>1
  DEF ItemLockFails, control, server, recheck, JobCore, TypeOK, TaskTypes, TaskShape, ShapeOf,
      LockStages, GivesUp, Goes, Written, LockFails
<1>4. /\ held' = [held EXCEPT ![i] = held'[i]]
      /\ held'[i] = "leaving" /\ held[i] = "waiting" /\ stale' = stale \ {i}
  BY <1>1
  DEF ItemLockFails, control, server, recheck, JobCore, TypeOK, TaskTypes, LockFails, Leave
<1>5. /\ unshared \subseteq unshared' /\ inShare \subseteq inShare'
      /\ UNCHANGED <<made, inShare>> /\ unshared' \in {unshared, unshared \cup {i}}
  BY <1>1 DEF ItemLockFails, control, server, recheck, JobCore, TypeOK, ServerTypes, GivesUp
<1>6. UNCHANGED chunk
  BY DEF ItemLockFails, control, server, recheck
<1>7. Moves(i)
  BY <1>1, <1>2, <1>3, <1>4, <1>5, <1>6
  DEF JobCore, TypeOK, Moves, TaskTypes, ServerTypes, InFlight, LockStages, TaskShape, ShapeOf
<1>8. ControlTypes'
  BY DEF JobCore, TypeOK, ControlTypes, ItemLockFails, control, server, recheck
<1>9. TaskTypes'
  BY <1>1, <1>2, <1>3, <1>4, <1>5, <1>6
  DEF JobCore, TypeOK, TaskTypes, LockStages, HasLock, ItemLockFails, control, server, recheck
<1>10. ServerTypes'
  BY <1>1, <1>2, <1>3, <1>4, <1>5, <1>6
  DEF JobCore, TypeOK, ServerTypes, ItemLockFails, control, server, recheck
<1>11. NamesInOrder'
  BY DEF JobCore, TypeOK, NamesInOrder, ItemLockFails, control, server, recheck
<1>12. PausedIsQuiet'
  BY <1>1, <1>2, <1>3, <1>4, <1>5, <1>6
  DEF JobCore, TypeOK, PausedIsQuiet, TaskTypes, ItemLockFails, control, server, recheck
<1>13. ShapeOf(i)'
  BY <1>1, <1>2, <1>3, <1>4, <1>5, <1>6
  DEF JobCore, TypeOK, TaskShape, ShapeOf, TaskTypes, Idle, LockStages
<1>14. ReportOf(i)'
  BY <1>1, <1>2, <1>3, <1>4, <1>5, <1>6
  DEF JobCore, TypeOK, ReportShape, ReportOf, TaskShape, ShapeOf, TaskTypes, ServerTypes,
      LockStages
<1>15. KeepsShare(i)
  BY <1>1, <1>2, <1>3, <1>4, <1>5, <1>6
  DEF JobCore, TypeOK, KeepsShare, SharesFound, TaskTypes, ServerTypes, LockStages
<1>16. NamesKept
  <2>1. UNCHANGED <<name, entry, foreign, made>>
    BY DEF ItemLockFails, control, server, recheck
  <2>2. UNCHANGED stale \/ (stale' = stale \ {i} /\ held'[i] = "leaving")
    BY <1>4
  <2>3. foreign = "now" /\ held'[i] \in {"got", "good"} => held[i] \in {"got", "good"}
    BY <1>1, <1>4
  <2>4. ASSUME NEW g \in Files \cap TopLevel, at'[g] = "write"
        PROVE  at[g] = "write" /\ (g = i /\ held[g] = "good" => held'[g] = "good")
    BY <1>1, <1>3, <1>4, <2>4 DEF JobCore, TypeOK, TaskTypes, Items
  <2>5. held' = [held EXCEPT ![i] = held'[i]]
    BY <1>4
  <2> QED
    BY <1>1, <2>1, <2>2, <2>3, <2>4, <2>5, HolderMoves DEF JobCore, TypeOK
<1> QED
  BY <1>7, <1>8, <1>9, <1>10, <1>11, <1>12, <1>13, <1>14, <1>15, <1>16, MovesKeeps
  DEF JobCore, TypeOK

LEMMA ItemChecksKeeps ==
    ASSUME JobCore, NEW i \in Items, ItemChecks(i) PROVE JobCore' /\ NamesKept
<1>1. i \in Items /\ i \in Holders /\ (i \in Dirs <=> i \notin Files)
  BY PlanAssumption DEF Items, Holders
<1>2. UNCHANGED <<ctl, phase, pc, fatal, told, targets, current, left, shared>>
  BY DEF ItemChecks, control, server, report, recheck
<1>3. /\ at' = [at EXCEPT ![i] = at'[i]]
      /\ at[i] = "check" /\ at'[i] \in {"check", "write", "failed", "fatal"}
      /\ name' \in [Items -> [is : Names, tries : 0 .. NAME_ATTEMPTS]] /\ NamesInOrder'
      /\ \A j \in Items : j # i => name'[j] = name[j]
      /\ (at'[i] = "write" => held[i] = "good" /\ UNCHANGED <<held, stale, name>> /\ entry[name[i].is] = "free")
  BY <1>1, NameCheckIs
  DEF ItemChecks, control, server, report, recheck, JobCore, TypeOK, TaskTypes, TaskShape,
      ShapeOf, LockStages
<1>4. /\ held' = [held EXCEPT ![i] = held'[i]]
      /\ \/ UNCHANGED <<held, stale>> /\ at'[i] \in {"check", "write"}
         \/ held'[i] = "leaving" /\ stale' = stale \ {i}
  BY <1>1, <1>3, NameCheckIs
  DEF ItemChecks, control, server, report, recheck, JobCore, TypeOK, TaskTypes, TaskShape,
      ShapeOf, Drops, Leave, HasLock
<1>5. UNCHANGED <<unshared, inShare, made>>
  BY DEF ItemChecks, control, server, report, recheck
<1>6. UNCHANGED chunk
  BY DEF ItemChecks, control, server, report, recheck
<1>7. Moves(i)
  <2>1. i \in InFlight /\ at'[i] \notin {"planned", "ready", "gone"}
    BY <1>1, <1>3 DEF InFlight, LockStages
  <2>2. \A j \in Items : j # i => at'[j] = at[j] /\ made'[j] = made[j]
    BY <1>1, <1>3, <1>5 DEF JobCore, TypeOK, TaskTypes, ServerTypes
  <2>3. \A h \in Holders : h # i => held'[h] = held[h]
    BY <1>1, <1>3, <1>4 DEF JobCore, TypeOK, TaskTypes
  <2>4. /\ \A g \in Files : g # i => chunk'[g] = chunk[g]
        /\ unshared \subseteq unshared' /\ inShare \subseteq inShare'
    BY <1>1, <1>2, <1>3, <1>4, <1>5, <1>6
  <2> QED
    BY <1>1, <1>2, <2>1, <2>2, <2>3, <2>4 DEF Moves
<1>8. ControlTypes'
  BY DEF JobCore, TypeOK, ControlTypes, ItemChecks, control, server, report, recheck
<1>9. TaskTypes'
  <2>1. at' \in [Items -> LockStages \cup
                 {"planned", "ready", "start", "verify", "copy", "over",
                  "failed", "fatal", "stopped", "back", "gone"}]
    BY <1>1, <1>3 DEF JobCore, TypeOK, TaskTypes, LockStages
  <2>2. held' \in [Holders -> {"none", "waiting", "got", "good", "leaving"}]
    BY <1>1, <1>3, <1>4 DEF JobCore, TypeOK, TaskTypes
  <2>3. stale' \subseteq {h \in Holders : HasLock(h)'}
    BY <1>1, <1>3, <1>4 DEF JobCore, TypeOK, TaskTypes, HasLock
  <2>4. name' \in [Items -> [is : Names, tries : 0 .. NAME_ATTEMPTS]]
    BY <1>3 DEF JobCore, TypeOK, TaskTypes
  <2> QED
    BY <1>6, <2>1, <2>2, <2>3, <2>4 DEF JobCore, TypeOK, TaskTypes
<1>10. ServerTypes'
  BY DEF JobCore, TypeOK, ServerTypes, ItemChecks, control, server, report, recheck
<1>11. NamesInOrder'
  BY <1>1, <1>2, <1>3, <1>4, <1>5, <1>6
  DEF JobCore, TypeOK, NamesInOrder, TaskTypes, control, server, report, recheck
<1>12. PausedIsQuiet'
  BY <1>1, <1>2, <1>3, <1>4, <1>5, <1>6
  DEF JobCore, TypeOK, PausedIsQuiet, TaskTypes, ItemChecks, control, server, report, recheck
<1>13. ShapeOf(i)'
  BY <1>1, <1>2, <1>3, <1>4, <1>5, <1>6
  DEF JobCore, TypeOK, TaskShape, ShapeOf, TaskTypes, Idle, LockStages
<1>14. ReportOf(i)'
  BY <1>1, <1>2, <1>3, <1>4, <1>5, <1>6
  DEF JobCore, TypeOK, ReportShape, ReportOf, TaskShape, ShapeOf, TaskTypes, ServerTypes,
      LockStages
<1>15. KeepsShare(i)
  BY <1>1, <1>2, <1>3, <1>4, <1>5, <1>6
  DEF JobCore, TypeOK, KeepsShare, SharesFound, TaskTypes, ServerTypes, LockStages
<1>16. NamesKept
  <2> SUFFICES ASSUME NameIsFree, NewFilesAreNew PROVE NameIsFree' /\ NewFilesAreNew'
    BY DEF NamesKept
  <2>1. UNCHANGED <<entry, foreign, made>>
    BY DEF ItemChecks, server
  <2>2. /\ \A h \in Holders : h # i => held'[h] = held[h] /\ (h \in stale <=> h \in stale')
        /\ (held'[i] = held[i] /\ UNCHANGED stale) \/ held'[i] = "leaving"
    BY <1>1, <1>2, <1>3, <1>4, <1>5, <1>6 DEF JobCore, TypeOK, TaskTypes
  <2>3. ~Covered \/ foreign' # "now"
    BY <2>1 DEF NameIsFree
  <2>4. \A h \in Holders : HasLock(h)' /\ h \notin stale' => HasLock(h) /\ h \notin stale
    BY <2>2 DEF HasLock
  <2>5. ASSUME NEW g \in Files \cap TopLevel, at'[g] = "write"
        PROVE  held'[g] = "good" /\ (g \notin stale' => entry'[name'[g].is] = "free")
    <3>1. g \in Items /\ g \in Holders
      BY DEF Items, Holders
    <3>2. CASE g # i
      <4>1. at[g] = "write" /\ held'[g] = held[g] /\ name'[g] = name[g] /\ (g \in stale <=> g \in stale')
        BY <1>3, <2>2, <2>5, <3>1, <3>2 DEF JobCore, TypeOK, TaskTypes
      <4> QED
        BY <2>1, <4>1 DEF NameIsFree
    <3>3. CASE g = i
      BY <1>1, <1>2, <1>3, <1>4, <2>1, <2>5, <3>3
    <3> QED
      BY <3>2, <3>3
  <2>6. NameIsFree'
    BY <2>3, <2>4, <2>5 DEF NameIsFree, Covered
  <2> QED
    BY <2>1, <2>6 DEF NewFilesAreNew
<1> QED
  BY <1>7, <1>8, <1>9, <1>10, <1>11, <1>12, <1>13, <1>14, <1>15, <1>16, MovesKeeps
  DEF JobCore, TypeOK

LEMMA FileVerifiesKeeps ==
    ASSUME JobCore, NEW f \in Files, FileVerifies(f) PROVE JobCore' /\ NamesKept
<1>1. f \in Items /\ f \in Holders /\ (f \in Dirs <=> f \notin Files)
  BY PlanAssumption DEF Items, Holders
<1>2. UNCHANGED <<ctl, phase, pc, fatal, told, targets, current, left, shared>>
  BY DEF FileVerifies, control, server, report, recheck
<1>3. /\ at' = [at EXCEPT ![f] = at'[f]]
      /\ at[f] = "verify" /\ at'[f] \in {"verify", "copy", "failed", "fatal"}
      /\ f \in TopLevel /\ name' \in [Items -> [is : Names, tries : 0 .. NAME_ATTEMPTS]] /\ NamesInOrder'
      /\ \A j \in Items : j # f => name'[j] = name[j]
  BY <1>1, NameCheckIs
  DEF FileVerifies, control, server, report, recheck, JobCore, TypeOK, TaskTypes, TaskShape,
      ShapeOf, LockStages
<1>4. /\ held' = [held EXCEPT ![f] = held'[f]]
      /\ UNCHANGED <<held, stale>>
  BY <1>1, <1>3, NameCheckIs
  DEF FileVerifies, control, server, report, recheck, JobCore, TypeOK, TaskTypes, TaskShape,
      ShapeOf, Drops, HasLock, LockStages
<1>5. UNCHANGED <<unshared, inShare, made>>
  BY DEF FileVerifies, control, server, report, recheck
<1>6. UNCHANGED chunk
  BY DEF FileVerifies, control, server, report, recheck
<1>7. Moves(f)
  <2>1. f \in InFlight /\ at'[f] \notin {"planned", "ready", "gone"}
    BY <1>1, <1>3 DEF InFlight, LockStages
  <2>2. \A j \in Items : j # f => at'[j] = at[j] /\ made'[j] = made[j]
    BY <1>1, <1>3, <1>5 DEF JobCore, TypeOK, TaskTypes, ServerTypes
  <2>3. \A h \in Holders : h # f => held'[h] = held[h]
    BY <1>1, <1>3, <1>4 DEF JobCore, TypeOK, TaskTypes
  <2>4. /\ \A g \in Files : g # f => chunk'[g] = chunk[g]
        /\ unshared \subseteq unshared' /\ inShare \subseteq inShare'
    BY <1>1, <1>2, <1>3, <1>4, <1>5, <1>6
  <2> QED
    BY <1>1, <1>2, <2>1, <2>2, <2>3, <2>4 DEF Moves
<1>8. ControlTypes'
  BY DEF JobCore, TypeOK, ControlTypes, FileVerifies, control, server, report, recheck
<1>9. TaskTypes'
  <2>1. at' \in [Items -> LockStages \cup
                 {"planned", "ready", "start", "verify", "copy", "over",
                  "failed", "fatal", "stopped", "back", "gone"}]
    BY <1>1, <1>3 DEF JobCore, TypeOK, TaskTypes, LockStages
  <2>2. held' \in [Holders -> {"none", "waiting", "got", "good", "leaving"}]
    BY <1>1, <1>3, <1>4 DEF JobCore, TypeOK, TaskTypes
  <2>3. stale' \subseteq {h \in Holders : HasLock(h)'}
    BY <1>1, <1>3, <1>4 DEF JobCore, TypeOK, TaskTypes, HasLock
  <2>4. name' \in [Items -> [is : Names, tries : 0 .. NAME_ATTEMPTS]]
    BY <1>3 DEF JobCore, TypeOK, TaskTypes
  <2> QED
    BY <1>6, <2>1, <2>2, <2>3, <2>4 DEF JobCore, TypeOK, TaskTypes
<1>10. ServerTypes'
  BY DEF JobCore, TypeOK, ServerTypes, FileVerifies, control, server, report, recheck
<1>11. NamesInOrder'
  BY <1>1, <1>2, <1>3, <1>4, <1>5, <1>6
  DEF JobCore, TypeOK, NamesInOrder, TaskTypes, control, server, report, recheck
<1>12. PausedIsQuiet'
  BY <1>1, <1>2, <1>3, <1>4, <1>5, <1>6
  DEF JobCore, TypeOK, PausedIsQuiet, TaskTypes, FileVerifies, control, server, report, recheck
<1>13. ShapeOf(f)'
  BY <1>1, <1>2, <1>3, <1>4, <1>5, <1>6
  DEF JobCore, TypeOK, TaskShape, ShapeOf, TaskTypes, Idle, LockStages
<1>14. ReportOf(f)'
  BY <1>1, <1>2, <1>3, <1>4, <1>5, <1>6
  DEF JobCore, TypeOK, ReportShape, ReportOf, TaskShape, ShapeOf, TaskTypes, ServerTypes,
      LockStages
<1>15. KeepsShare(f)
  BY <1>1, <1>2, <1>3, <1>4, <1>5, <1>6
  DEF JobCore, TypeOK, KeepsShare, SharesFound, TaskTypes, ServerTypes, LockStages
<1>16. NamesKept
  <2> SUFFICES ASSUME NameIsFree, NewFilesAreNew PROVE NameIsFree' /\ NewFilesAreNew'
    BY DEF NamesKept
  <2>1. UNCHANGED <<entry, foreign, made>>
    BY DEF FileVerifies, server
  <2>2. /\ \A h \in Holders : h # f => held'[h] = held[h] /\ (h \in stale <=> h \in stale')
        /\ (held'[f] = held[f] /\ UNCHANGED stale) \/ held'[f] = "leaving"
    BY <1>1, <1>2, <1>3, <1>4, <1>5, <1>6 DEF JobCore, TypeOK, TaskTypes
  <2>3. ~Covered \/ foreign' # "now"
    BY <2>1 DEF NameIsFree
  <2>4. \A h \in Holders : HasLock(h)' /\ h \notin stale' => HasLock(h) /\ h \notin stale
    BY <2>2 DEF HasLock
  <2>5. ASSUME NEW g \in Files \cap TopLevel, at'[g] = "write"
        PROVE  held'[g] = "good" /\ (g \notin stale' => entry'[name'[g].is] = "free")
    <3>1. g \in Items /\ g \in Holders
      BY DEF Items, Holders
    <3>2. CASE g # f
      <4>1. at[g] = "write" /\ held'[g] = held[g] /\ name'[g] = name[g] /\ (g \in stale <=> g \in stale')
        BY <1>3, <2>2, <2>5, <3>1, <3>2 DEF JobCore, TypeOK, TaskTypes
      <4> QED
        BY <2>1, <4>1 DEF NameIsFree
    <3>3. CASE g = f
      BY <1>1, <1>2, <1>3, <1>4, <2>1, <2>5, <3>3
    <3> QED
      BY <3>2, <3>3
  <2>6. NameIsFree'
    BY <2>3, <2>4, <2>5 DEF NameIsFree, Covered
  <2> QED
    BY <2>1, <2>6 DEF NewFilesAreNew
<1> QED
  BY <1>7, <1>8, <1>9, <1>10, <1>11, <1>12, <1>13, <1>14, <1>15, <1>16, MovesKeeps
  DEF JobCore, TypeOK

LEMMA ItemUnconfirmedKeeps ==
    ASSUME JobCore, NEW i \in Items, ItemUnconfirmed(i) PROVE JobCore' /\ NamesKept
<1>1. i \in Items /\ i \in Holders /\ (i \in Dirs <=> i \notin Files)
  BY PlanAssumption DEF Items, Holders
<1>2. UNCHANGED <<ctl, phase, pc, fatal, told, targets, current, left, shared>>
  BY DEF ItemUnconfirmed, control, server, report, recheck
<1>3. /\ at' = [at EXCEPT ![i] = at'[i]]
      /\ at[i] = "write" /\ (at'[i] = "write" \/ (at'[i] = "check" /\ i \in TopLevel))
      /\ (i \in Files \cap TopLevel => at'[i] = "check")
  BY <1>1, UnderLockIs
  DEF ItemUnconfirmed, control, server, report, recheck, JobCore, TypeOK, TaskTypes, Goes,
      Unconfirmed, Leave, Fault
<1>4. /\ held' = [held EXCEPT ![i] = held'[i]]
      /\ held'[i] = "leaving" /\ held[i] = "good" /\ stale' = stale \ {i}
  BY <1>1
  DEF ItemUnconfirmed, control, server, report, recheck, JobCore, TypeOK, TaskTypes,
      Unconfirmed, Leave
<1>5. UNCHANGED <<unshared, inShare, made>>
  BY DEF ItemUnconfirmed, control, server, report, recheck
<1>6. UNCHANGED chunk
  BY DEF ItemUnconfirmed, control, server, report, recheck
<1>7. Moves(i)
  BY <1>1, <1>2, <1>3, <1>4, <1>5, <1>6
  DEF JobCore, TypeOK, Moves, TaskTypes, ServerTypes, InFlight, LockStages, TaskShape, ShapeOf
<1>8. ControlTypes'
  BY DEF JobCore, TypeOK, ControlTypes, ItemUnconfirmed, control, server, report, recheck
<1>9. TaskTypes'
  BY <1>1, <1>2, <1>3, <1>4, <1>5, <1>6
  DEF JobCore, TypeOK, TaskTypes, LockStages, HasLock, ItemUnconfirmed, control, server,
      report, recheck
<1>10. ServerTypes'
  BY DEF JobCore, TypeOK, ServerTypes, ItemUnconfirmed, control, server, report, recheck
<1>11. NamesInOrder'
  BY DEF JobCore, TypeOK, NamesInOrder, ItemUnconfirmed, control, server, report, recheck
<1>12. PausedIsQuiet'
  BY <1>1, <1>2, <1>3, <1>4, <1>5, <1>6
  DEF JobCore, TypeOK, PausedIsQuiet, TaskTypes, ItemUnconfirmed, control, server, report,
      recheck
<1>13. ShapeOf(i)'
  BY <1>1, <1>2, <1>3, <1>4, <1>5, <1>6
  DEF JobCore, TypeOK, TaskShape, ShapeOf, TaskTypes, Idle, LockStages
<1>14. ReportOf(i)'
  BY <1>1, <1>2, <1>3, <1>4, <1>5, <1>6
  DEF JobCore, TypeOK, ReportShape, ReportOf, TaskShape, ShapeOf, TaskTypes, ServerTypes,
      LockStages
<1>15. KeepsShare(i)
  BY <1>1, <1>2, <1>3, <1>4, <1>5, <1>6
  DEF JobCore, TypeOK, KeepsShare, SharesFound, TaskTypes, ServerTypes, LockStages
<1>16. NamesKept
  <2>1. UNCHANGED <<name, entry, foreign, made>>
    BY DEF ItemUnconfirmed, control, server, report, recheck
  <2>2. UNCHANGED stale \/ (stale' = stale \ {i} /\ held'[i] = "leaving")
    BY <1>4
  <2>3. foreign = "now" /\ held'[i] \in {"got", "good"} => held[i] \in {"got", "good"}
    BY <1>1, <1>4
  <2>4. ASSUME NEW g \in Files \cap TopLevel, at'[g] = "write"
        PROVE  at[g] = "write" /\ (g = i /\ held[g] = "good" => held'[g] = "good")
    BY <1>1, <1>3, <1>4, <2>4 DEF JobCore, TypeOK, TaskTypes, Items
  <2>5. held' = [held EXCEPT ![i] = held'[i]]
    BY <1>4
  <2> QED
    BY <1>1, <2>1, <2>2, <2>3, <2>4, <2>5, HolderMoves DEF JobCore, TypeOK
<1> QED
  BY <1>7, <1>8, <1>9, <1>10, <1>11, <1>12, <1>13, <1>14, <1>15, <1>16, MovesKeeps
  DEF JobCore, TypeOK

LEMMA AnsweredIs ==
    ASSUME JobCore, NEW i \in Items, Answered(i)
    PROVE  /\ at' = [at EXCEPT ![i] = at'[i]]
           /\ \/ at'[i] = "color" /\ i \in Colored
              \/ at'[i] = "propagate"
              \/ at'[i] = "over" /\ ~targets
           /\ \/ UNCHANGED <<held, stale>> /\ at'[i] \in {"color", "propagate"}
              \/ Leave(i) /\ at'[i] = "over"
<1>1. at' = [at EXCEPT ![i] = at'[i]] /\ at'[i] = AfterWrite(i)
  BY DEF Answered, Goes, JobCore, TypeOK, TaskTypes
<1>2. \/ AfterWrite(i) = "color" /\ i \in Colored
      \/ AfterWrite(i) = "propagate"
      \/ AfterWrite(i) = "over" /\ ~targets
  BY DEF AfterWrite, AfterColor
<1> QED
  BY <1>1, <1>2 DEF Answered

LEMMA LandsIs ==
    ASSUME JobCore, NEW i \in Items, NEW as \in {"new", "version"}, Lands(i, as)
    PROVE  /\ made' = [made EXCEPT ![i] = made'[i]] /\ made'[i] = as
           /\ entry' \in [Names -> {"free", "foreign", "job"}]
           /\ UNCHANGED <<shared, inShare, foreign>>
  BY DEF Lands, JobCore, TypeOK, ServerTypes

LEMMA FailsIs ==
    ASSUME JobCore, NEW i \in Items, Fails(i)
    PROVE  at' = [at EXCEPT ![i] = at'[i]] /\ at'[i] \in {"failed", "fatal"}
  BY DEF Fails, Goes, JobCore, TypeOK, TaskTypes

LEMMA LeaveIs ==
    ASSUME JobCore, NEW h \in Holders, Leave(h)
    PROVE  held' = [held EXCEPT ![h] = held'[h]] /\ held'[h] = "leaving" /\ stale' = stale \ {h}
  BY DEF Leave, JobCore, TypeOK, TaskTypes

LEMMA FileWritesKeepsCore ==
    ASSUME JobCore, NEW i \in Items, FileWrites(i) PROVE JobCore'
<1>1. i \in Items /\ i \in Holders /\ (i \in Dirs <=> i \notin Files)
  BY PlanAssumption DEF Items, Holders
<1>2. UNCHANGED <<ctl, phase, pc, fatal, told, targets, current, left, shared>>
  BY DEF FileWrites, control, server, report, recheck, Lands
<1>3. /\ at' = [at EXCEPT ![i] = at'[i]] /\ at[i] = "write" /\ held[i] = "good" /\ i \in Files
      /\ held' = [held EXCEPT ![i] = held'[i]]
      /\ \/ UNCHANGED <<held, stale>> /\ at'[i] \in LockStages
         \/ held'[i] = "leaving" /\ stale' = stale \ {i}
      /\ made' = [made EXCEPT ![i] = made'[i]] /\ made'[i] \in {made[i], "new", "version"}
      /\ entry' \in [Names -> {"free", "foreign", "job"}] /\ UNCHANGED <<shared, inShare, foreign>>
      /\ \/ at'[i] = "propagate" /\ made'[i] # "no"
         \/ at'[i] = "over" /\ ~targets /\ made'[i] # "no"
         \/ at'[i] \in {"failed", "fatal"}
  <2> DEFINE as == IF Taken(i) THEN "version" ELSE "new"
  <2>0. /\ i \notin Colored /\ as \in {"new", "version"} /\ at[i] = "write" /\ held[i] = "good"
        /\ i \in Files /\ made = [made EXCEPT ![i] = made[i]] /\ held = [held EXCEPT ![i] = held[i]]
        /\ entry \in [Names -> {"free", "foreign", "job"}]
    BY <1>1, PlanAssumption DEF FileWrites, JobCore, TypeOK, ServerTypes, TaskTypes
  <2>1. CASE Lands(i, as) /\ Answered(i)
    <3> HIDE DEF as
    <3>1. /\ made' = [made EXCEPT ![i] = made'[i]] /\ made'[i] \in {"new", "version"}
          /\ entry' \in [Names -> {"free", "foreign", "job"}]
          /\ UNCHANGED <<shared, inShare, foreign>>
      BY <2>0, <2>1, LandsIs
    <3>2. /\ at' = [at EXCEPT ![i] = at'[i]]
          /\ at'[i] = "propagate" \/ (at'[i] = "over" /\ ~targets)
          /\ (UNCHANGED <<held, stale>> /\ at'[i] = "propagate") \/ Leave(i)
      BY <2>0, <2>1, AnsweredIs
    <3> QED
      BY <1>1, <2>0, <3>1, <3>2, LeaveIs DEF LockStages
  <2>2. CASE Leave(i) /\ Fails(i) /\ (Lands(i, as) \/ UNCHANGED server)
    <3>1. \/ UNCHANGED <<made, entry, shared, inShare, foreign>>
          \/ /\ made' = [made EXCEPT ![i] = made'[i]] /\ made'[i] \in {"new", "version"}
             /\ entry' \in [Names -> {"free", "foreign", "job"}]
             /\ UNCHANGED <<shared, inShare, foreign>>
      <4> HIDE DEF as
      <4> QED
        BY <1>1, <2>0, <2>2, LandsIs DEF server
    <3> HIDE DEF as
    <3> QED
      BY <1>1, <2>0, <2>2, <3>1, FailsIs, LeaveIs
  <2> QED
    BY <2>1, <2>2 DEF FileWrites
<1>4. UNCHANGED unshared
  BY DEF FileWrites, report
<1>5. UNCHANGED <<told, targets, current, left>>
  BY DEF FileWrites, report, recheck
<1>6. UNCHANGED chunk
  BY DEF FileWrites, control, server, report, recheck
<1>7. Moves(i)
  <2>1. i \in InFlight /\ at'[i] \notin {"planned", "ready", "gone"}
    BY <1>1, <1>3 DEF InFlight, LockStages
  <2>2. \A j \in Items : j # i => at'[j] = at[j] /\ made'[j] = made[j]
    BY <1>1, <1>3, <1>5 DEF JobCore, TypeOK, TaskTypes, ServerTypes
  <2>3. \A h \in Holders : h # i => held'[h] = held[h]
    BY <1>1, <1>3, <1>4 DEF JobCore, TypeOK, TaskTypes
  <2>4. /\ \A g \in Files : g # i => chunk'[g] = chunk[g]
        /\ unshared \subseteq unshared' /\ inShare \subseteq inShare'
    BY <1>1, <1>2, <1>3, <1>4, <1>5, <1>6
  <2> QED
    BY <1>1, <1>2, <2>1, <2>2, <2>3, <2>4 DEF Moves
<1>8. ControlTypes'
  BY DEF JobCore, TypeOK, ControlTypes, FileWrites, control, server, report, recheck
<1>9. TaskTypes'
  <2>1. at' \in [Items -> LockStages \cup
                 {"planned", "ready", "start", "verify", "copy", "over",
                  "failed", "fatal", "stopped", "back", "gone"}]
    BY <1>1, <1>3 DEF JobCore, TypeOK, TaskTypes, LockStages
  <2>2. held' \in [Holders -> {"none", "waiting", "got", "good", "leaving"}]
    BY <1>1, <1>3, <1>4 DEF JobCore, TypeOK, TaskTypes
  <2>3. stale' \subseteq {h \in Holders : HasLock(h)'}
    BY <1>1, <1>3, <1>4 DEF JobCore, TypeOK, TaskTypes, HasLock
  <2>4. name' \in [Items -> [is : Names, tries : 0 .. NAME_ATTEMPTS]]
    BY DEF JobCore, TypeOK, TaskTypes, FileWrites
  <2> QED
    BY <1>6, <2>1, <2>2, <2>3, <2>4 DEF JobCore, TypeOK, TaskTypes
<1>10. ServerTypes'
  <2>1. made' \in [Items -> {"no", "new", "version"}]
    BY <1>3 DEF JobCore, TypeOK, ServerTypes
  <2> QED
    BY <1>2, <1>3, <1>4, <1>5, <2>1 DEF JobCore, TypeOK, ServerTypes
<1>11. NamesInOrder'
  BY DEF JobCore, TypeOK, NamesInOrder, FileWrites, control, server, report, recheck
<1>12. PausedIsQuiet'
  BY <1>1, <1>2, <1>3, <1>4, <1>5, <1>6
  DEF JobCore, TypeOK, PausedIsQuiet, TaskTypes, FileWrites, control, server, report, recheck
<1>13. ShapeOf(i)'
  BY <1>1, <1>2, <1>3, <1>4, <1>5, <1>6
  DEF JobCore, TypeOK, TaskShape, ShapeOf, TaskTypes, Idle, LockStages
<1>14. ReportOf(i)'
  BY <1>1, <1>2, <1>3, <1>4, <1>5, <1>6
  DEF JobCore, TypeOK, ReportShape, ReportOf, TaskShape, ShapeOf, TaskTypes, ServerTypes,
      LockStages
<1>15. KeepsShare(i)
  BY <1>1, <1>2, <1>3, <1>4, <1>5, <1>6
  DEF JobCore, TypeOK, KeepsShare, SharesFound, TaskTypes, ServerTypes, LockStages
<1> QED
  BY <1>7, <1>8, <1>9, <1>10, <1>11, <1>12, <1>13, <1>14, <1>15, MovesKeeps DEF JobCore, TypeOK

LEMMA DirWritesKeepsCore ==
    ASSUME JobCore, NEW i \in Items, DirWrites(i) PROVE JobCore'
<1>1. i \in Items /\ i \in Holders /\ (i \in Dirs <=> i \notin Files)
  BY PlanAssumption DEF Items, Holders
<1>2. UNCHANGED <<ctl, phase, pc, fatal, told, targets, current, left, shared>>
  BY DEF DirWrites, control, server, report, recheck, Lands
<1>3. /\ at' = [at EXCEPT ![i] = at'[i]] /\ at[i] = "write" /\ held[i] = "good" /\ i \in Dirs
      /\ held' = [held EXCEPT ![i] = held'[i]]
      /\ \/ UNCHANGED <<held, stale>> /\ at'[i] \in LockStages
         \/ held'[i] = "leaving" /\ stale' = stale \ {i}
      /\ made' = [made EXCEPT ![i] = made'[i]] /\ made'[i] \in {made[i], "new"}
      /\ entry' \in [Names -> {"free", "foreign", "job"}] /\ UNCHANGED <<shared, inShare, foreign>>
      /\ name' \in [Items -> [is : Names, tries : 0 .. NAME_ATTEMPTS]] /\ NamesInOrder'
      /\ \/ at'[i] \in {"color", "propagate"} /\ made'[i] = "new"
         \/ at'[i] = "over" /\ ~targets /\ made'[i] = "new"
         \/ at'[i] \in {"failed", "fatal"}
         \/ at'[i] = "write" /\ made'[i] = made[i]
         \/ at'[i] = "check" /\ i \in TopLevel /\ made'[i] = made[i]
  <2>0. /\ at[i] = "write" /\ held[i] = "good" /\ i \in Dirs
        /\ made = [made EXCEPT ![i] = made[i]] /\ held = [held EXCEPT ![i] = held[i]]
        /\ entry \in [Names -> {"free", "foreign", "job"}]
    BY <1>1 DEF DirWrites, JobCore, TypeOK, ServerTypes, TaskTypes
  <2>1. ASSUME UNCHANGED name
        PROVE  name' \in [Items -> [is : Names, tries : 0 .. NAME_ATTEMPTS]] /\ NamesInOrder'
    BY <2>1 DEF JobCore, TypeOK, TaskTypes, NamesInOrder
  <2>2. CASE Lands(i, "new") /\ Answered(i) /\ UNCHANGED name
    BY <1>1, <2>0, <2>1, <2>2, LandsIs, AnsweredIs, LeaveIs DEF LockStages
  <2>3. CASE Taken(i) /\ NextName(i, UnderLock(i)) /\ UNCHANGED server
    <3>1. UNCHANGED <<made, entry, shared, inShare, foreign>>
      BY <2>3 DEF server
    <3>2. /\ name' \in [Items -> [is : Names, tries : 0 .. NAME_ATTEMPTS]] /\ NamesInOrder'
          /\ \/ at' = [at EXCEPT ![i] = "failed"] /\ Leave(i)
             \/ at' = [at EXCEPT ![i] = UnderLock(i)] /\ UNCHANGED <<held, stale>>
      BY <2>0, <2>3, NextNameIs DEF Taken, Drops, HasLock
    <3>3. /\ at' = [at EXCEPT ![i] = at'[i]]
          /\ \/ at'[i] = "failed" /\ Leave(i)
             \/ at'[i] = UnderLock(i) /\ UNCHANGED <<held, stale>>
      BY <3>2 DEF JobCore, TypeOK, TaskTypes
    <3> QED
      BY <1>1, <2>0, <3>1, <3>2, <3>3, UnderLockIs, LeaveIs DEF LockStages
  <2>4. CASE Leave(i) /\ Fails(i) /\ UNCHANGED name /\ (Lands(i, "new") \/ UNCHANGED server)
    <3>1. \/ UNCHANGED <<made, entry, shared, inShare, foreign>>
          \/ /\ made' = [made EXCEPT ![i] = made'[i]] /\ made'[i] = "new"
             /\ entry' \in [Names -> {"free", "foreign", "job"}]
             /\ UNCHANGED <<shared, inShare, foreign>>
      BY <1>1, <2>0, <2>4, LandsIs DEF server
    <3> QED
      BY <1>1, <2>0, <2>1, <2>4, <3>1, FailsIs, LeaveIs
  <2> QED
    BY <2>2, <2>3, <2>4 DEF DirWrites
<1>4. UNCHANGED unshared
  BY DEF DirWrites, report
<1>5. UNCHANGED <<told, targets, current, left>>
  BY DEF DirWrites, report, recheck
<1>6. UNCHANGED chunk
  BY DEF DirWrites, control, server, report, recheck
<1>7. Moves(i)
  <2>1. i \in InFlight /\ at'[i] \notin {"planned", "ready", "gone"}
    BY <1>1, <1>3 DEF InFlight, LockStages
  <2>2. \A j \in Items : j # i => at'[j] = at[j] /\ made'[j] = made[j]
    BY <1>1, <1>3, <1>5 DEF JobCore, TypeOK, TaskTypes, ServerTypes
  <2>3. \A h \in Holders : h # i => held'[h] = held[h]
    BY <1>1, <1>3, <1>4 DEF JobCore, TypeOK, TaskTypes
  <2>4. /\ \A g \in Files : g # i => chunk'[g] = chunk[g]
        /\ unshared \subseteq unshared' /\ inShare \subseteq inShare'
    BY <1>1, <1>2, <1>3, <1>4, <1>5, <1>6
  <2> QED
    BY <1>1, <1>2, <2>1, <2>2, <2>3, <2>4 DEF Moves
<1>8. ControlTypes'
  BY DEF JobCore, TypeOK, ControlTypes, DirWrites, control, server, report, recheck
<1>9. TaskTypes'
  <2>1. at' \in [Items -> LockStages \cup
                 {"planned", "ready", "start", "verify", "copy", "over",
                  "failed", "fatal", "stopped", "back", "gone"}]
    BY <1>1, <1>3 DEF JobCore, TypeOK, TaskTypes, LockStages
  <2>2. held' \in [Holders -> {"none", "waiting", "got", "good", "leaving"}]
    BY <1>1, <1>3, <1>4 DEF JobCore, TypeOK, TaskTypes
  <2>3. stale' \subseteq {h \in Holders : HasLock(h)'}
    BY <1>1, <1>3, <1>4 DEF JobCore, TypeOK, TaskTypes, HasLock
  <2>4. name' \in [Items -> [is : Names, tries : 0 .. NAME_ATTEMPTS]]
    BY <1>3 DEF JobCore, TypeOK, TaskTypes
  <2> QED
    BY <1>6, <2>1, <2>2, <2>3, <2>4 DEF JobCore, TypeOK, TaskTypes
<1>10. ServerTypes'
  <2>1. made' \in [Items -> {"no", "new", "version"}]
    BY <1>3 DEF JobCore, TypeOK, ServerTypes
  <2> QED
    BY <1>2, <1>3, <1>4, <1>5, <2>1 DEF JobCore, TypeOK, ServerTypes
<1>11. NamesInOrder'
  BY <1>1, <1>2, <1>3, <1>4, <1>5, <1>6 DEF JobCore, TypeOK, NamesInOrder, TaskTypes
<1>12. PausedIsQuiet'
  BY <1>1, <1>2, <1>3, <1>4, <1>5, <1>6
  DEF JobCore, TypeOK, PausedIsQuiet, TaskTypes, DirWrites, control, server, report, recheck
<1>13. ShapeOf(i)'
  BY <1>1, <1>2, <1>3, <1>4, <1>5, <1>6
  DEF JobCore, TypeOK, TaskShape, ShapeOf, TaskTypes, Idle, LockStages
<1>14. ReportOf(i)'
  BY <1>1, <1>2, <1>3, <1>4, <1>5, <1>6
  DEF JobCore, TypeOK, ReportShape, ReportOf, TaskShape, ShapeOf, TaskTypes, ServerTypes,
      LockStages
<1>15. KeepsShare(i)
  BY <1>1, <1>2, <1>3, <1>4, <1>5, <1>6
  DEF JobCore, TypeOK, KeepsShare, SharesFound, TaskTypes, ServerTypes, LockStages
<1> QED
  BY <1>7, <1>8, <1>9, <1>10, <1>11, <1>12, <1>13, <1>14, <1>15, MovesKeeps DEF JobCore, TypeOK

LEMMA DirColorsKeeps ==
    ASSUME JobCore, NEW i \in Items, DirColors(i) PROVE JobCore' /\ NamesKept
<1>1. i \in Items /\ i \in Holders /\ (i \in Dirs <=> i \notin Files)
  BY PlanAssumption DEF Items, Holders
<1>2. UNCHANGED <<ctl, phase, pc, fatal, told, targets, current, left, shared>>
  BY DEF DirColors, control, server, report, recheck
<1>3. /\ at' = [at EXCEPT ![i] = at'[i]]
      /\ at[i] = "color" /\ (at'[i] \in {"color", "propagate"} \/ (at'[i] = "over" /\ ~targets))
  BY <1>1
  DEF DirColors, control, server, report, recheck, JobCore, TypeOK, TaskTypes, TaskShape,
      ShapeOf, LockStages, Goes, AfterColor, ServerTypes, Confirmed, Unconfirmed, Leave, Fault
<1>4. /\ held' = [held EXCEPT ![i] = held'[i]]
      /\ held[i] = "good"
      /\ \/ UNCHANGED <<held, stale>> /\ at'[i] = "propagate"
         \/ held'[i] = "leaving" /\ stale' = stale \ {i}
  <2>1. CASE Confirmed(i) /\ Goes(i, "propagate") /\ UNCHANGED <<held, stale>>
    BY <1>1, <2>1 DEF JobCore, TypeOK, TaskTypes, Confirmed, Goes
  <2>2. CASE held[i] = "good" /\ Leave(i)
    BY <1>1, <2>2, LeaveIs
  <2> QED
    BY <2>1, <2>2 DEF DirColors, Confirmed, Unconfirmed, AfterColor
<1>5. UNCHANGED <<unshared, inShare, made>>
  BY DEF DirColors, control, server, report, recheck
<1>6. UNCHANGED chunk
  BY DEF DirColors, control, server, report, recheck
<1>7. Moves(i)
  BY <1>1, <1>2, <1>3, <1>4, <1>5, <1>6
  DEF JobCore, TypeOK, Moves, TaskTypes, ServerTypes, InFlight, LockStages, TaskShape, ShapeOf
<1>8. ControlTypes'
  BY DEF JobCore, TypeOK, ControlTypes, DirColors, control, server, report, recheck
<1>9. TaskTypes'
  BY <1>1, <1>2, <1>3, <1>4, <1>5, <1>6
  DEF JobCore, TypeOK, TaskTypes, LockStages, HasLock, DirColors, control, server, report,
      recheck
<1>10. ServerTypes'
  BY DEF JobCore, TypeOK, ServerTypes, DirColors, control, server, report, recheck
<1>11. NamesInOrder'
  BY DEF JobCore, TypeOK, NamesInOrder, DirColors, control, server, report, recheck
<1>12. PausedIsQuiet'
  BY <1>1, <1>2, <1>3, <1>4, <1>5, <1>6
  DEF JobCore, TypeOK, PausedIsQuiet, TaskTypes, DirColors, control, server, report, recheck
<1>13. ShapeOf(i)'
  BY <1>1, <1>2, <1>3, <1>4, <1>5, <1>6
  DEF JobCore, TypeOK, TaskShape, ShapeOf, TaskTypes, Idle, LockStages
<1>14. ReportOf(i)'
  BY <1>1, <1>2, <1>3, <1>4, <1>5, <1>6
  DEF JobCore, TypeOK, ReportShape, ReportOf, TaskShape, ShapeOf, TaskTypes, ServerTypes,
      LockStages
<1>15. KeepsShare(i)
  BY <1>1, <1>2, <1>3, <1>4, <1>5, <1>6
  DEF JobCore, TypeOK, KeepsShare, SharesFound, TaskTypes, ServerTypes, LockStages
<1>16. NamesKept
  <2>1. UNCHANGED <<name, entry, foreign, made>>
    BY DEF DirColors, control, server, report, recheck
  <2>2. UNCHANGED stale \/ (stale' = stale \ {i} /\ held'[i] = "leaving")
    BY <1>4
  <2>3. foreign = "now" /\ held'[i] \in {"got", "good"} => held[i] \in {"got", "good"}
    BY <1>1, <1>4
  <2>4. ASSUME NEW g \in Files \cap TopLevel, at'[g] = "write"
        PROVE  at[g] = "write" /\ (g = i /\ held[g] = "good" => held'[g] = "good")
    BY <1>1, <1>3, <1>4, <2>4 DEF JobCore, TypeOK, TaskTypes, Items
  <2>5. held' = [held EXCEPT ![i] = held'[i]]
    BY <1>4
  <2> QED
    BY <1>1, <2>1, <2>2, <2>3, <2>4, <2>5, HolderMoves DEF JobCore, TypeOK
<1> QED
  BY <1>7, <1>8, <1>9, <1>10, <1>11, <1>12, <1>13, <1>14, <1>15, <1>16, MovesKeeps
  DEF JobCore, TypeOK

LEMMA ItemPropagatesKeeps ==
    ASSUME JobCore, NEW i \in Items, ItemPropagates(i) PROVE JobCore' /\ NamesKept
<1>1. i \in Items /\ i \in Holders /\ (i \in Dirs <=> i \notin Files)
  BY PlanAssumption DEF Items, Holders
<1>2. UNCHANGED <<ctl, phase, pc, fatal, told, targets, current, left, shared>>
  BY DEF ItemPropagates, control, recheck
<1>3. /\ at' = [at EXCEPT ![i] = at'[i]]
      /\ at[i] = "propagate" /\ at'[i] \in {"propagate", "over"}
  BY <1>1
  DEF ItemPropagates, control, recheck, JobCore, TypeOK, TaskTypes, TaskShape, ShapeOf,
      LockStages, Goes
<1>4. /\ held' = [held EXCEPT ![i] = held'[i]]
      /\ held[i] = "good" /\ held'[i] = "leaving" /\ stale' = stale \ {i}
  BY <1>1
  DEF ItemPropagates, control, recheck, JobCore, TypeOK, TaskTypes, Confirmed, Unconfirmed,
      Leave
<1>5. /\ unshared \subseteq unshared' /\ inShare \subseteq inShare'
      /\ unshared' \subseteq unshared \cup {i} /\ inShare' \subseteq inShare \cup {i}
      /\ UNCHANGED made /\ (at'[i] = "over" => i \in inShare' \cup unshared')
  BY <1>1, <1>3
  DEF ItemPropagates, control, recheck, JobCore, TypeOK, ServerTypes, Goes, TaskTypes
<1>6. UNCHANGED chunk
  BY DEF ItemPropagates, control, recheck
<1>7. Moves(i)
  BY <1>1, <1>2, <1>3, <1>4, <1>5, <1>6
  DEF JobCore, TypeOK, Moves, TaskTypes, ServerTypes, InFlight, LockStages, TaskShape, ShapeOf
<1>8. ControlTypes'
  BY DEF JobCore, TypeOK, ControlTypes, ItemPropagates, control, recheck
<1>9. TaskTypes'
  BY <1>1, <1>2, <1>3, <1>4, <1>5, <1>6
  DEF JobCore, TypeOK, TaskTypes, LockStages, HasLock, ItemPropagates, control, recheck
<1>10. ServerTypes'
  BY <1>1, <1>2, <1>3, <1>4, <1>5, <1>6
  DEF JobCore, TypeOK, ServerTypes, ItemPropagates, control, recheck
<1>11. NamesInOrder'
  BY DEF JobCore, TypeOK, NamesInOrder, ItemPropagates, control, recheck
<1>12. PausedIsQuiet'
  BY <1>1, <1>2, <1>3, <1>4, <1>5, <1>6
  DEF JobCore, TypeOK, PausedIsQuiet, TaskTypes, ItemPropagates, control, recheck
<1>13. ShapeOf(i)'
  BY <1>1, <1>2, <1>3, <1>4, <1>5, <1>6
  DEF JobCore, TypeOK, TaskShape, ShapeOf, TaskTypes, Idle, LockStages
<1>14. ReportOf(i)'
  BY <1>1, <1>2, <1>3, <1>4, <1>5, <1>6
  DEF JobCore, TypeOK, ReportShape, ReportOf, TaskShape, ShapeOf, TaskTypes, ServerTypes,
      LockStages
<1>15. KeepsShare(i)
  BY <1>1, <1>2, <1>3, <1>4, <1>5, <1>6
  DEF JobCore, TypeOK, KeepsShare, SharesFound, TaskTypes, ServerTypes, LockStages
<1>16. NamesKept
  <2>1. UNCHANGED <<name, entry, foreign, made>>
    BY DEF ItemPropagates, control, recheck, server
  <2>2. UNCHANGED stale \/ (stale' = stale \ {i} /\ held'[i] = "leaving")
    BY <1>4
  <2>3. foreign = "now" /\ held'[i] \in {"got", "good"} => held[i] \in {"got", "good"}
    BY <1>1, <1>4
  <2>4. ASSUME NEW g \in Files \cap TopLevel, at'[g] = "write"
        PROVE  at[g] = "write" /\ (g = i /\ held[g] = "good" => held'[g] = "good")
    BY <1>1, <1>3, <1>4, <2>4 DEF JobCore, TypeOK, TaskTypes, Items
  <2>5. held' = [held EXCEPT ![i] = held'[i]]
    BY <1>4
  <2> QED
    BY <1>1, <2>1, <2>2, <2>3, <2>4, <2>5, HolderMoves DEF JobCore, TypeOK
<1> QED
  BY <1>7, <1>8, <1>9, <1>10, <1>11, <1>12, <1>13, <1>14, <1>15, <1>16, MovesKeeps
  DEF JobCore, TypeOK

LEMMA FileStartsKeeps ==
    ASSUME JobCore, NEW f \in Files, FileStarts(f) PROVE JobCore' /\ NamesKept
<1>1. f \in Items /\ f \in Holders /\ (f \in Dirs <=> f \notin Files)
  BY PlanAssumption DEF Items, Holders
<1>2. UNCHANGED <<ctl, phase, pc, fatal, told, targets, current, left, shared>>
  BY DEF FileStarts, control, server, report, recheck
<1>3. /\ at' = [at EXCEPT ![f] = at'[f]]
      /\ at[f] = "start" /\ at'[f] \in {"stopped", "verify", "copy"}
      /\ (at'[f] = "verify" => f \in TopLevel)
  BY <1>1, PlanAssumption
  DEF FileStarts, control, server, report, recheck, JobCore, TypeOK, TaskTypes, TaskShape,
      ShapeOf, LockStages, Goes
<1>4. UNCHANGED <<held, stale>>
  BY DEF FileStarts, control, server, report, recheck
<1>5. UNCHANGED <<unshared, inShare, made>>
  BY DEF FileStarts, control, server, report, recheck
<1>6. UNCHANGED chunk
  BY DEF FileStarts, control, server, report, recheck
<1>7. Moves(f)
  BY <1>1, <1>2, <1>3, <1>4, <1>5, <1>6
  DEF JobCore, TypeOK, Moves, TaskTypes, ServerTypes, InFlight, LockStages, TaskShape, ShapeOf
<1>8. ControlTypes'
  BY DEF JobCore, TypeOK, ControlTypes, FileStarts, control, server, report, recheck
<1>9. TaskTypes'
  BY <1>1, <1>2, <1>3, <1>4, <1>5, <1>6
  DEF JobCore, TypeOK, TaskTypes, LockStages, HasLock, FileStarts, control, server, report,
      recheck
<1>10. ServerTypes'
  BY DEF JobCore, TypeOK, ServerTypes, FileStarts, control, server, report, recheck
<1>11. NamesInOrder'
  BY DEF JobCore, TypeOK, NamesInOrder, FileStarts, control, server, report, recheck
<1>12. PausedIsQuiet'
  BY DEF JobCore, TypeOK, PausedIsQuiet, FileStarts, control, server, report, recheck
<1>13. ShapeOf(f)'
  BY <1>1, <1>2, <1>3, <1>4, <1>5, <1>6
  DEF JobCore, TypeOK, TaskShape, ShapeOf, TaskTypes, Idle, LockStages
<1>14. ReportOf(f)'
  BY <1>1, <1>2, <1>3, <1>4, <1>5, <1>6
  DEF JobCore, TypeOK, ReportShape, ReportOf, TaskShape, ShapeOf, TaskTypes, ServerTypes,
      LockStages
<1>15. KeepsShare(f)
  BY <1>1, <1>2, <1>3, <1>4, <1>5, <1>6
  DEF JobCore, TypeOK, KeepsShare, SharesFound, TaskTypes, ServerTypes, LockStages
<1>16. NamesKept
  <2>1. UNCHANGED <<name, entry, foreign, made>>
    BY DEF FileStarts, control, server, report, recheck
  <2>2. UNCHANGED stale \/ (stale' = stale \ {f} /\ held'[f] = "leaving")
    BY <1>4
  <2>3. foreign = "now" /\ held'[f] \in {"got", "good"} => held[f] \in {"got", "good"}
    BY <1>1, <1>4
  <2>4. ASSUME NEW g \in Files \cap TopLevel, at'[g] = "write"
        PROVE  at[g] = "write" /\ (g = f /\ held[g] = "good" => held'[g] = "good")
    BY <1>1, <1>3, <1>4, <2>4 DEF JobCore, TypeOK, TaskTypes, Items
  <2>5. held' = [held EXCEPT ![f] = held'[f]]
    BY <1>4 DEF JobCore, TypeOK, TaskTypes
  <2> QED
    BY <1>1, <2>1, <2>2, <2>3, <2>4, <2>5, HolderMoves DEF JobCore, TypeOK
<1> QED
  BY <1>7, <1>8, <1>9, <1>10, <1>11, <1>12, <1>13, <1>14, <1>15, <1>16, MovesKeeps
  DEF JobCore, TypeOK

LEMMA FileCopiedKeeps ==
    ASSUME JobCore, NEW f \in Files, FileCopied(f) PROVE JobCore' /\ NamesKept
<1>1. f \in Items /\ f \in Holders /\ (f \in Dirs <=> f \notin Files)
  BY PlanAssumption DEF Items, Holders
<1>2. UNCHANGED <<ctl, phase, pc, fatal, told, targets, current, left, shared>>
  BY DEF FileCopied, control, server, report, recheck
<1>3. /\ at' = [at EXCEPT ![f] = at'[f]]
      /\ at[f] = "copy" /\ at'[f] \in {"check", "write"}
      /\ (at'[f] = "check" <=> f \in TopLevel)
  BY <1>1, UnderLockIs
  DEF FileCopied, control, server, report, recheck, JobCore, TypeOK, TaskTypes, TaskShape,
      ShapeOf, LockStages, Goes
<1>4. UNCHANGED <<held, stale>>
  BY DEF FileCopied, control, server, report, recheck
<1>5. UNCHANGED <<unshared, inShare, made>>
  BY DEF FileCopied, control, server, report, recheck
<1>6. UNCHANGED chunk
  BY DEF FileCopied, control, server, report, recheck
<1>7. Moves(f)
  BY <1>1, <1>2, <1>3, <1>4, <1>5, <1>6
  DEF JobCore, TypeOK, Moves, TaskTypes, ServerTypes, InFlight, LockStages, TaskShape, ShapeOf
<1>8. ControlTypes'
  BY DEF JobCore, TypeOK, ControlTypes, FileCopied, control, server, report, recheck
<1>9. TaskTypes'
  BY <1>1, <1>2, <1>3, <1>4, <1>5, <1>6
  DEF JobCore, TypeOK, TaskTypes, LockStages, HasLock, FileCopied, control, server, report,
      recheck
<1>10. ServerTypes'
  BY DEF JobCore, TypeOK, ServerTypes, FileCopied, control, server, report, recheck
<1>11. NamesInOrder'
  BY DEF JobCore, TypeOK, NamesInOrder, FileCopied, control, server, report, recheck
<1>12. PausedIsQuiet'
  BY DEF JobCore, TypeOK, PausedIsQuiet, FileCopied, control, server, report, recheck
<1>13. ShapeOf(f)'
  BY <1>1, <1>2, <1>3, <1>4, <1>5, <1>6
  DEF JobCore, TypeOK, TaskShape, ShapeOf, TaskTypes, Idle, LockStages
<1>14. ReportOf(f)'
  BY <1>1, <1>2, <1>3, <1>4, <1>5, <1>6
  DEF JobCore, TypeOK, ReportShape, ReportOf, TaskShape, ShapeOf, TaskTypes, ServerTypes,
      LockStages
<1>15. KeepsShare(f)
  BY <1>1, <1>2, <1>3, <1>4, <1>5, <1>6
  DEF JobCore, TypeOK, KeepsShare, SharesFound, TaskTypes, ServerTypes, LockStages
<1>16. NamesKept
  <2>1. UNCHANGED <<name, entry, foreign, made>>
    BY DEF FileCopied, control, server, report, recheck
  <2>2. UNCHANGED stale \/ (stale' = stale \ {f} /\ held'[f] = "leaving")
    BY <1>4
  <2>3. foreign = "now" /\ held'[f] \in {"got", "good"} => held[f] \in {"got", "good"}
    BY <1>1, <1>4
  <2>4. ASSUME NEW g \in Files \cap TopLevel, at'[g] = "write"
        PROVE  at[g] = "write" /\ (g = f /\ held[g] = "good" => held'[g] = "good")
    BY <1>1, <1>3, <1>4, <2>4 DEF JobCore, TypeOK, TaskTypes, Items
  <2>5. held' = [held EXCEPT ![f] = held'[f]]
    BY <1>4 DEF JobCore, TypeOK, TaskTypes
  <2> QED
    BY <1>1, <2>1, <2>2, <2>3, <2>4, <2>5, HolderMoves DEF JobCore, TypeOK
<1> QED
  BY <1>7, <1>8, <1>9, <1>10, <1>11, <1>12, <1>13, <1>14, <1>15, <1>16, MovesKeeps
  DEF JobCore, TypeOK

LEMMA FileStopsKeeps ==
    ASSUME JobCore, NEW f \in Files, FileStops(f) PROVE JobCore' /\ NamesKept
<1>1. f \in Items /\ f \in Holders /\ (f \in Dirs <=> f \notin Files)
  BY PlanAssumption DEF Items, Holders
<1>2. UNCHANGED <<ctl, phase, pc, fatal, told, targets, current, left, shared>>
  BY DEF FileStops, control, server, report, recheck
<1>3. /\ at' = [at EXCEPT ![f] = at'[f]]
      /\ at[f] = "copy" /\ at'[f] = "stopped"
  BY <1>1
  DEF FileStops, control, server, report, recheck, JobCore, TypeOK, TaskTypes, TaskShape,
      ShapeOf, LockStages, Goes
<1>4. UNCHANGED <<held, stale>>
  BY DEF FileStops, control, server, report, recheck
<1>5. UNCHANGED <<unshared, inShare, made>>
  BY DEF FileStops, control, server, report, recheck
<1>6. /\ DOMAIN chunk' = Files
      /\ \A g \in Files : chunk'[g] \in [1 .. Chunks[g] -> Stages]
      /\ \A g \in Files : g # f => chunk'[g] = chunk[g]
      /\ \A g \in Files : \A d \in 1 .. Chunks[g] : OpOut(chunk[g][d]) => OpOut(chunk'[g][d])
  BY DropsChunksIs DEF JobCore, TypeOK, FileStops
<1>7. Moves(f)
  BY <1>1, <1>2, <1>3, <1>4, <1>5, <1>6
  DEF JobCore, TypeOK, Moves, TaskTypes, ServerTypes, InFlight, LockStages, TaskShape, ShapeOf
<1>8. ControlTypes'
  BY DEF JobCore, TypeOK, ControlTypes, FileStops, control, server, report, recheck
<1>9. TaskTypes'
  BY <1>1, <1>2, <1>3, <1>4, <1>5, <1>6
  DEF JobCore, TypeOK, TaskTypes, LockStages, HasLock, FileStops, control, server, report,
      recheck
<1>10. ServerTypes'
  BY DEF JobCore, TypeOK, ServerTypes, FileStops, control, server, report, recheck
<1>11. NamesInOrder'
  BY DEF JobCore, TypeOK, NamesInOrder, FileStops, control, server, report, recheck
<1>12. PausedIsQuiet'
  BY <1>1, <1>2, <1>3, <1>4, <1>5, <1>6
  DEF JobCore, TypeOK, PausedIsQuiet, TaskTypes, FileStops, control, server, report, recheck
<1>13. ShapeOf(f)'
  BY <1>1, <1>2, <1>3, <1>4, <1>5, <1>6
  DEF JobCore, TypeOK, TaskShape, ShapeOf, TaskTypes, Idle, LockStages
<1>14. ReportOf(f)'
  BY <1>1, <1>2, <1>3, <1>4, <1>5, <1>6
  DEF JobCore, TypeOK, ReportShape, ReportOf, TaskShape, ShapeOf, TaskTypes, ServerTypes,
      LockStages
<1>15. KeepsShare(f)
  BY <1>1, <1>2, <1>3, <1>4, <1>5, <1>6
  DEF JobCore, TypeOK, KeepsShare, SharesFound, TaskTypes, ServerTypes, LockStages
<1>16. NamesKept
  <2>1. UNCHANGED <<name, entry, foreign, made>>
    BY DEF FileStops, control, server, report, recheck
  <2>2. UNCHANGED stale \/ (stale' = stale \ {f} /\ held'[f] = "leaving")
    BY <1>4
  <2>3. foreign = "now" /\ held'[f] \in {"got", "good"} => held[f] \in {"got", "good"}
    BY <1>1, <1>4
  <2>4. ASSUME NEW g \in Files \cap TopLevel, at'[g] = "write"
        PROVE  at[g] = "write" /\ (g = f /\ held[g] = "good" => held'[g] = "good")
    BY <1>1, <1>3, <1>4, <2>4 DEF JobCore, TypeOK, TaskTypes, Items
  <2>5. held' = [held EXCEPT ![f] = held'[f]]
    BY <1>4 DEF JobCore, TypeOK, TaskTypes
  <2> QED
    BY <1>1, <2>1, <2>2, <2>3, <2>4, <2>5, HolderMoves DEF JobCore, TypeOK
<1> QED
  BY <1>7, <1>8, <1>9, <1>10, <1>11, <1>12, <1>13, <1>14, <1>15, <1>16, MovesKeeps
  DEF JobCore, TypeOK

LEMMA FileTransferFailsKeeps ==
    ASSUME JobCore, NEW f \in Files, FileTransferFails(f) PROVE JobCore' /\ NamesKept
<1>1. f \in Items /\ f \in Holders /\ (f \in Dirs <=> f \notin Files)
  BY PlanAssumption DEF Items, Holders
<1>2. UNCHANGED <<ctl, phase, pc, fatal, told, targets, current, left, shared>>
  BY DEF FileTransferFails, control, server, report, recheck
<1>3. /\ at' = [at EXCEPT ![f] = at'[f]]
      /\ at[f] = "copy" /\ at'[f] \in {"failed", "fatal"}
  BY <1>1
  DEF FileTransferFails, control, server, report, recheck, JobCore, TypeOK, TaskTypes,
      TaskShape, ShapeOf, LockStages, Goes, Fails
<1>4. UNCHANGED <<held, stale>>
  BY DEF FileTransferFails, control, server, report, recheck
<1>5. UNCHANGED <<unshared, inShare, made>>
  BY DEF FileTransferFails, control, server, report, recheck
<1>6. /\ DOMAIN chunk' = Files
      /\ \A g \in Files : chunk'[g] \in [1 .. Chunks[g] -> Stages]
      /\ \A g \in Files : g # f => chunk'[g] = chunk[g]
      /\ \A g \in Files : \A d \in 1 .. Chunks[g] : OpOut(chunk[g][d]) => OpOut(chunk'[g][d])
  BY DropsChunksIs DEF JobCore, TypeOK, FileTransferFails
<1>7. Moves(f)
  BY <1>1, <1>2, <1>3, <1>4, <1>5, <1>6
  DEF JobCore, TypeOK, Moves, TaskTypes, ServerTypes, InFlight, LockStages, TaskShape, ShapeOf
<1>8. ControlTypes'
  BY DEF JobCore, TypeOK, ControlTypes, FileTransferFails, control, server, report, recheck
<1>9. TaskTypes'
  BY <1>1, <1>2, <1>3, <1>4, <1>5, <1>6
  DEF JobCore, TypeOK, TaskTypes, LockStages, HasLock, FileTransferFails, control, server,
      report, recheck
<1>10. ServerTypes'
  BY DEF JobCore, TypeOK, ServerTypes, FileTransferFails, control, server, report, recheck
<1>11. NamesInOrder'
  BY DEF JobCore, TypeOK, NamesInOrder, FileTransferFails, control, server, report, recheck
<1>12. PausedIsQuiet'
  BY <1>1, <1>2, <1>3, <1>4, <1>5, <1>6
  DEF JobCore, TypeOK, PausedIsQuiet, TaskTypes, FileTransferFails, control, server, report,
      recheck
<1>13. ShapeOf(f)'
  BY <1>1, <1>2, <1>3, <1>4, <1>5, <1>6
  DEF JobCore, TypeOK, TaskShape, ShapeOf, TaskTypes, Idle, LockStages
<1>14. ReportOf(f)'
  BY <1>1, <1>2, <1>3, <1>4, <1>5, <1>6
  DEF JobCore, TypeOK, ReportShape, ReportOf, TaskShape, ShapeOf, TaskTypes, ServerTypes,
      LockStages
<1>15. KeepsShare(f)
  BY <1>1, <1>2, <1>3, <1>4, <1>5, <1>6
  DEF JobCore, TypeOK, KeepsShare, SharesFound, TaskTypes, ServerTypes, LockStages
<1>16. NamesKept
  <2>1. UNCHANGED <<name, entry, foreign, made>>
    BY DEF FileTransferFails, control, server, report, recheck
  <2>2. UNCHANGED stale \/ (stale' = stale \ {f} /\ held'[f] = "leaving")
    BY <1>4
  <2>3. foreign = "now" /\ held'[f] \in {"got", "good"} => held[f] \in {"got", "good"}
    BY <1>1, <1>4
  <2>4. ASSUME NEW g \in Files \cap TopLevel, at'[g] = "write"
        PROVE  at[g] = "write" /\ (g = f /\ held[g] = "good" => held'[g] = "good")
    BY <1>1, <1>3, <1>4, <2>4 DEF JobCore, TypeOK, TaskTypes, Items
  <2>5. held' = [held EXCEPT ![f] = held'[f]]
    BY <1>4 DEF JobCore, TypeOK, TaskTypes
  <2> QED
    BY <1>1, <2>1, <2>2, <2>3, <2>4, <2>5, HolderMoves DEF JobCore, TypeOK
<1> QED
  BY <1>7, <1>8, <1>9, <1>10, <1>11, <1>12, <1>13, <1>14, <1>15, <1>16, MovesKeeps
  DEF JobCore, TypeOK

LEMMA ReservesChunkKeeps ==
    ASSUME JobCore, NEW f \in Files, NEW c \in 1 .. Chunks[f], ReservesChunk(f, c) PROVE JobCore' /\ NamesKept
<1>1. f \in Items /\ f \in Holders /\ (f \in Dirs <=> f \notin Files)
  BY PlanAssumption DEF Items, Holders
<1>2. UNCHANGED <<ctl, phase, pc, fatal, told, targets, current, left, shared>>
  BY DEF ReservesChunk, control, server, report, recheck
<1>3. UNCHANGED at /\ at[f] = "copy"
  BY <1>1
  DEF ReservesChunk, control, server, report, recheck, JobCore, TypeOK, TaskShape, ShapeOf,
      LockStages
<1>4. UNCHANGED <<held, stale>>
  BY DEF ReservesChunk, control, server, report, recheck
<1>5. UNCHANGED <<unshared, inShare, made>>
  BY DEF ReservesChunk, control, server, report, recheck
<1>6. /\ DOMAIN chunk' = Files
      /\ \A g \in Files : chunk'[g] \in [1 .. Chunks[g] -> Stages]
      /\ \A g \in Files : g # f => chunk'[g] = chunk[g]
  BY StageIs DEF JobCore, TypeOK, Stages, OpOut, ReservesChunk
<1>7. Moves(f)
  BY <1>1, <1>2, <1>3, <1>4, <1>5, <1>6
  DEF JobCore, TypeOK, Moves, TaskTypes, ServerTypes, InFlight, LockStages, TaskShape, ShapeOf
<1>8. ControlTypes'
  BY <1>1, <1>2, <1>3, <1>4, <1>5, <1>6, TickIs
  DEF JobCore, TypeOK, ControlTypes, ReservesChunk, control, server, report, recheck
<1>9. TaskTypes'
  BY <1>1, <1>2, <1>3, <1>4, <1>5, <1>6
  DEF JobCore, TypeOK, TaskTypes, LockStages, HasLock, ReservesChunk, control, server, report,
      recheck
<1>10. ServerTypes'
  BY DEF JobCore, TypeOK, ServerTypes, ReservesChunk, control, server, report, recheck
<1>11. NamesInOrder'
  BY DEF JobCore, TypeOK, NamesInOrder, ReservesChunk, control, server, report, recheck
<1>12. PausedIsQuiet'
  BY <1>1, <1>2, <1>3, <1>4, <1>5, <1>6, TickIs
  DEF JobCore, TypeOK, PausedIsQuiet, TaskTypes, ReservesChunk, control, server, report,
      recheck
<1>13. ShapeOf(f)'
  BY <1>1, <1>2, <1>3, <1>4, <1>5, <1>6
  DEF JobCore, TypeOK, TaskShape, ShapeOf, TaskTypes, Idle, LockStages
<1>14. ReportOf(f)'
  BY <1>1, <1>2, <1>3, <1>4, <1>5, <1>6
  DEF JobCore, TypeOK, ReportShape, ReportOf, TaskShape, ShapeOf, TaskTypes, ServerTypes,
      LockStages
<1>15. KeepsShare(f)
  BY <1>1, <1>2, <1>3, <1>4, <1>5, <1>6
  DEF JobCore, TypeOK, KeepsShare, SharesFound, TaskTypes, ServerTypes, LockStages
<1>16. NamesKept
  <2>1. UNCHANGED <<name, entry, foreign, made>>
    BY DEF ReservesChunk, control, server, report, recheck
  <2>2. UNCHANGED stale \/ (stale' = stale \ {f} /\ held'[f] = "leaving")
    BY <1>4
  <2>3. foreign = "now" /\ held'[f] \in {"got", "good"} => held[f] \in {"got", "good"}
    BY <1>1, <1>4
  <2>4. ASSUME NEW g \in Files \cap TopLevel, at'[g] = "write"
        PROVE  at[g] = "write" /\ (g = f /\ held[g] = "good" => held'[g] = "good")
    BY <1>1, <1>3, <1>4, <2>4 DEF JobCore, TypeOK, TaskTypes, Items
  <2>5. held' = [held EXCEPT ![f] = held'[f]]
    BY <1>4 DEF JobCore, TypeOK, TaskTypes
  <2> QED
    BY <1>1, <2>1, <2>2, <2>3, <2>4, <2>5, HolderMoves DEF JobCore, TypeOK
<1> QED
  BY <1>7, <1>8, <1>9, <1>10, <1>11, <1>12, <1>13, <1>14, <1>15, <1>16, MovesKeeps
  DEF JobCore, TypeOK

LEMMA ChunkWaitsKeeps ==
    ASSUME JobCore, NEW f \in Files, NEW c \in 1 .. Chunks[f], ChunkWaits(f, c) PROVE JobCore' /\ NamesKept
<1>1. f \in Items /\ f \in Holders /\ (f \in Dirs <=> f \notin Files)
  BY PlanAssumption DEF Items, Holders
<1>2. UNCHANGED <<ctl, phase, pc, fatal, told, targets, current, left, shared>>
  BY DEF ChunkWaits, control, server, report, recheck
<1>3. UNCHANGED at /\ at[f] = "copy"
  BY <1>1
  DEF ChunkWaits, control, server, report, recheck, JobCore, TypeOK, TaskShape, ShapeOf,
      LockStages
<1>4. UNCHANGED <<held, stale>>
  BY DEF ChunkWaits, control, server, report, recheck
<1>5. UNCHANGED <<unshared, inShare, made>>
  BY DEF ChunkWaits, control, server, report, recheck
<1>6. /\ DOMAIN chunk' = Files
      /\ \A g \in Files : chunk'[g] \in [1 .. Chunks[g] -> Stages]
      /\ \A g \in Files : g # f => chunk'[g] = chunk[g]
      /\ ~OpOut(chunk[f][c])
  BY StageIs DEF JobCore, TypeOK, Stages, OpOut, ChunkWaits
<1>7. Moves(f)
  BY <1>1, <1>2, <1>3, <1>4, <1>5, <1>6
  DEF JobCore, TypeOK, Moves, TaskTypes, ServerTypes, InFlight, LockStages, TaskShape, ShapeOf
<1>8. ControlTypes'
  BY TickIs DEF JobCore, TypeOK, ControlTypes, ChunkWaits, control, server, report, recheck
<1>9. TaskTypes'
  BY <1>1, <1>2, <1>3, <1>4, <1>5, <1>6
  DEF JobCore, TypeOK, TaskTypes, LockStages, HasLock, ChunkWaits, control, server, report,
      recheck
<1>10. ServerTypes'
  BY DEF JobCore, TypeOK, ServerTypes, ChunkWaits, control, server, report, recheck
<1>11. NamesInOrder'
  BY DEF JobCore, TypeOK, NamesInOrder, ChunkWaits, control, server, report, recheck
<1>12. PausedIsQuiet'
  BY <1>1, <1>2, <1>3, <1>4, <1>5, <1>6, TickIs
  DEF JobCore, TypeOK, PausedIsQuiet, TaskTypes, ChunkWaits, control, server, report, recheck
<1>13. ShapeOf(f)'
  BY <1>1, <1>2, <1>3, <1>4, <1>5, <1>6
  DEF JobCore, TypeOK, TaskShape, ShapeOf, TaskTypes, Idle, LockStages
<1>14. ReportOf(f)'
  BY <1>1, <1>2, <1>3, <1>4, <1>5, <1>6
  DEF JobCore, TypeOK, ReportShape, ReportOf, TaskShape, ShapeOf, TaskTypes, ServerTypes,
      LockStages
<1>15. KeepsShare(f)
  BY <1>1, <1>2, <1>3, <1>4, <1>5, <1>6
  DEF JobCore, TypeOK, KeepsShare, SharesFound, TaskTypes, ServerTypes, LockStages
<1>16. NamesKept
  <2>1. UNCHANGED <<name, entry, foreign, made>>
    BY DEF ChunkWaits, control, server, report, recheck
  <2>2. UNCHANGED stale \/ (stale' = stale \ {f} /\ held'[f] = "leaving")
    BY <1>4
  <2>3. foreign = "now" /\ held'[f] \in {"got", "good"} => held[f] \in {"got", "good"}
    BY <1>1, <1>4
  <2>4. ASSUME NEW g \in Files \cap TopLevel, at'[g] = "write"
        PROVE  at[g] = "write" /\ (g = f /\ held[g] = "good" => held'[g] = "good")
    BY <1>1, <1>3, <1>4, <2>4 DEF JobCore, TypeOK, TaskTypes, Items
  <2>5. held' = [held EXCEPT ![f] = held'[f]]
    BY <1>4 DEF JobCore, TypeOK, TaskTypes
  <2> QED
    BY <1>1, <2>1, <2>2, <2>3, <2>4, <2>5, HolderMoves DEF JobCore, TypeOK
<1> QED
  BY <1>7, <1>8, <1>9, <1>10, <1>11, <1>12, <1>13, <1>14, <1>15, <1>16, MovesKeeps
  DEF JobCore, TypeOK

LEMMA ChunkMovesKeeps ==
    ASSUME JobCore, NEW f \in Files, NEW c \in 1 .. Chunks[f], ChunkMoves(f, c) PROVE JobCore' /\ NamesKept
<1>1. f \in Items /\ f \in Holders /\ (f \in Dirs <=> f \notin Files)
  BY PlanAssumption DEF Items, Holders
<1>2. UNCHANGED <<ctl, phase, pc, fatal, told, targets, current, left, shared>>
  BY DEF ChunkMoves, control, server, report, recheck
<1>3. UNCHANGED at /\ at[f] = "copy"
  BY <1>1
  DEF ChunkMoves, control, server, report, recheck, JobCore, TypeOK, TaskShape, ShapeOf,
      LockStages
<1>4. UNCHANGED <<held, stale>>
  BY DEF ChunkMoves, control, server, report, recheck
<1>5. UNCHANGED <<unshared, inShare, made>>
  BY DEF ChunkMoves, control, server, report, recheck
<1>6. /\ DOMAIN chunk' = Files
      /\ \A g \in Files : chunk'[g] \in [1 .. Chunks[g] -> Stages]
      /\ \A g \in Files : g # f => chunk'[g] = chunk[g]
      /\ ~OpOut(chunk[f][c])
  BY StageIs DEF JobCore, TypeOK, Stages, OpOut, ChunkMoves
<1>7. Moves(f)
  BY <1>1, <1>2, <1>3, <1>4, <1>5, <1>6
  DEF JobCore, TypeOK, Moves, TaskTypes, ServerTypes, InFlight, LockStages, TaskShape, ShapeOf
<1>8. ControlTypes'
  BY TickIs DEF JobCore, TypeOK, ControlTypes, ChunkMoves, control, server, report, recheck
<1>9. TaskTypes'
  BY <1>1, <1>2, <1>3, <1>4, <1>5, <1>6
  DEF JobCore, TypeOK, TaskTypes, LockStages, HasLock, ChunkMoves, control, server, report,
      recheck
<1>10. ServerTypes'
  BY DEF JobCore, TypeOK, ServerTypes, ChunkMoves, control, server, report, recheck
<1>11. NamesInOrder'
  BY DEF JobCore, TypeOK, NamesInOrder, ChunkMoves, control, server, report, recheck
<1>12. PausedIsQuiet'
  BY <1>1, <1>2, <1>3, <1>4, <1>5, <1>6, TickIs
  DEF JobCore, TypeOK, PausedIsQuiet, TaskTypes, ChunkMoves, control, server, report, recheck
<1>13. ShapeOf(f)'
  BY <1>1, <1>2, <1>3, <1>4, <1>5, <1>6
  DEF JobCore, TypeOK, TaskShape, ShapeOf, TaskTypes, Idle, LockStages
<1>14. ReportOf(f)'
  BY <1>1, <1>2, <1>3, <1>4, <1>5, <1>6
  DEF JobCore, TypeOK, ReportShape, ReportOf, TaskShape, ShapeOf, TaskTypes, ServerTypes,
      LockStages
<1>15. KeepsShare(f)
  BY <1>1, <1>2, <1>3, <1>4, <1>5, <1>6
  DEF JobCore, TypeOK, KeepsShare, SharesFound, TaskTypes, ServerTypes, LockStages
<1>16. NamesKept
  <2>1. UNCHANGED <<name, entry, foreign, made>>
    BY DEF ChunkMoves, control, server, report, recheck
  <2>2. UNCHANGED stale \/ (stale' = stale \ {f} /\ held'[f] = "leaving")
    BY <1>4
  <2>3. foreign = "now" /\ held'[f] \in {"got", "good"} => held[f] \in {"got", "good"}
    BY <1>1, <1>4
  <2>4. ASSUME NEW g \in Files \cap TopLevel, at'[g] = "write"
        PROVE  at[g] = "write" /\ (g = f /\ held[g] = "good" => held'[g] = "good")
    BY <1>1, <1>3, <1>4, <2>4 DEF JobCore, TypeOK, TaskTypes, Items
  <2>5. held' = [held EXCEPT ![f] = held'[f]]
    BY <1>4 DEF JobCore, TypeOK, TaskTypes
  <2> QED
    BY <1>1, <2>1, <2>2, <2>3, <2>4, <2>5, HolderMoves DEF JobCore, TypeOK
<1> QED
  BY <1>7, <1>8, <1>9, <1>10, <1>11, <1>12, <1>13, <1>14, <1>15, <1>16, MovesKeeps
  DEF JobCore, TypeOK

LEMMA ChunkOpFinishedKeeps ==
    ASSUME JobCore, NEW f \in Files, NEW c \in 1 .. Chunks[f], ChunkOpFinished(f, c) PROVE JobCore' /\ NamesKept
<1>1. f \in Items /\ f \in Holders /\ (f \in Dirs <=> f \notin Files)
  BY PlanAssumption DEF Items, Holders
<1>2. UNCHANGED <<ctl, phase, pc, fatal, told, targets, current, left, shared>>
  BY DEF ChunkOpFinished, control, server, report, recheck
<1>3. UNCHANGED at /\ at[f] \notin {"planned", "ready", "gone"}
  BY <1>1
  DEF ChunkOpFinished, control, server, report, recheck, JobCore, TypeOK, TaskShape, ShapeOf,
      LockStages, OpOut, Idle
<1>4. UNCHANGED <<held, stale>>
  BY DEF ChunkOpFinished, control, server, report, recheck
<1>5. UNCHANGED <<unshared, inShare, made>>
  BY DEF ChunkOpFinished, control, server, report, recheck
<1>6. /\ DOMAIN chunk' = Files
      /\ \A g \in Files : chunk'[g] \in [1 .. Chunks[g] -> Stages]
      /\ \A g \in Files : g # f => chunk'[g] = chunk[g]
      /\ ~OpOut(chunk[f][c])
  BY StageIs DEF JobCore, TypeOK, Stages, OpOut, ChunkOpFinished
<1>7. Moves(f)
  BY <1>1, <1>2, <1>3, <1>4, <1>5, <1>6
  DEF JobCore, TypeOK, Moves, TaskTypes, ServerTypes, InFlight, LockStages, TaskShape, ShapeOf
<1>8. ControlTypes'
  BY <1>1, <1>2, <1>3, <1>4, <1>5, <1>6, TickIs
  DEF JobCore, TypeOK, ControlTypes, ChunkOpFinished, control, server, report, recheck
<1>9. TaskTypes'
  BY <1>1, <1>2, <1>3, <1>4, <1>5, <1>6
  DEF JobCore, TypeOK, TaskTypes, LockStages, HasLock, ChunkOpFinished, control, server,
      report, recheck
<1>10. ServerTypes'
  BY DEF JobCore, TypeOK, ServerTypes, ChunkOpFinished, control, server, report, recheck
<1>11. NamesInOrder'
  BY DEF JobCore, TypeOK, NamesInOrder, ChunkOpFinished, control, server, report, recheck
<1>12. PausedIsQuiet'
  BY <1>1, <1>2, <1>3, <1>4, <1>5, <1>6, TickIs
  DEF JobCore, TypeOK, PausedIsQuiet, TaskTypes, ChunkOpFinished, control, server, report,
      recheck
<1>13. ShapeOf(f)'
  BY <1>1, <1>2, <1>3, <1>4, <1>5, <1>6
  DEF JobCore, TypeOK, TaskShape, ShapeOf, TaskTypes, Idle, LockStages
<1>14. ReportOf(f)'
  BY <1>1, <1>2, <1>3, <1>4, <1>5, <1>6
  DEF JobCore, TypeOK, ReportShape, ReportOf, TaskShape, ShapeOf, TaskTypes, ServerTypes,
      LockStages
<1>15. KeepsShare(f)
  BY <1>1, <1>2, <1>3, <1>4, <1>5, <1>6
  DEF JobCore, TypeOK, KeepsShare, SharesFound, TaskTypes, ServerTypes, LockStages
<1>16. NamesKept
  <2>1. UNCHANGED <<name, entry, foreign, made>>
    BY DEF ChunkOpFinished, control, server, report, recheck
  <2>2. UNCHANGED stale \/ (stale' = stale \ {f} /\ held'[f] = "leaving")
    BY <1>4
  <2>3. foreign = "now" /\ held'[f] \in {"got", "good"} => held[f] \in {"got", "good"}
    BY <1>1, <1>4
  <2>4. ASSUME NEW g \in Files \cap TopLevel, at'[g] = "write"
        PROVE  at[g] = "write" /\ (g = f /\ held[g] = "good" => held'[g] = "good")
    BY <1>1, <1>3, <1>4, <2>4 DEF JobCore, TypeOK, TaskTypes, Items
  <2>5. held' = [held EXCEPT ![f] = held'[f]]
    BY <1>4 DEF JobCore, TypeOK, TaskTypes
  <2> QED
    BY <1>1, <2>1, <2>2, <2>3, <2>4, <2>5, HolderMoves DEF JobCore, TypeOK
<1> QED
  BY <1>7, <1>8, <1>9, <1>10, <1>11, <1>12, <1>13, <1>14, <1>15, <1>16, MovesKeeps
  DEF JobCore, TypeOK

-----------------------------------------------------------------------------
(* The driver's steps. *)

LEMMA DriverIs == Driver \in Holders /\ Driver \notin Items /\ Items \subseteq Holders
  BY PlanAssumption DEF Holders

(* A step of the driver that leaves the items alone *)
DriverStays ==
    UNCHANGED <<at, told, made, chunk, name, entry, foreign, shared, targets, unshared, inShare>>
LEMMA DriverStaysKeeps ==
    ASSUME JobCore, DriverStays, \A h \in Items : held'[h] = held[h],
           current' = "shared" => shared
    PROVE  TaskShape' /\ ReportShape' /\ CreatedTopDown' /\ SharesFound' /\ NamesInOrder'
<1>1. TaskShape'
  BY DEF DriverStays, JobCore, TaskShape, ShapeOf, Idle
<1>2. ReportShape'
  BY DEF DriverStays, JobCore, ReportShape, ReportOf
<1>3. CreatedTopDown'
  BY DEF DriverStays, JobCore, CreatedTopDown, CreatedTops, Begun
<1>4. SharesFound'
  BY DEF DriverStays, JobCore, SharesFound
<1>5. NamesInOrder'
  BY DEF DriverStays, JobCore, NamesInOrder
<1> QED
  BY <1>1, <1>2, <1>3, <1>4, <1>5

LEMMA DriverWakesKeepsCore == ASSUME JobCore, DriverWakes PROVE JobCore'
<1>1. DriverStays /\ pc = "select" /\ pc' = "top" /\ UNCHANGED <<control, core, phase, held, stale, report, recheck>>
  BY DEF DriverWakes, DriverStays, report, recheck, server
<1>2. TypeOK'
  <2>1. ControlTypes'
    BY <1>1 DEF JobCore, TypeOK, ControlTypes, control, report
  <2>2. TaskTypes'
    BY <1>1 DEF DriverStays, JobCore, TypeOK, TaskTypes, HasLock
  <2>3. ServerTypes'
    BY <1>1 DEF DriverStays, JobCore, TypeOK, ServerTypes, recheck
  <2> QED
    BY <2>1, <2>2, <2>3 DEF TypeOK
<1>3. DriverShape'
  BY <1>1 DEF DriverStays, JobCore, DriverShape, InFlight, Ended
<1>4. RecheckShape'
  BY <1>1 DEF DriverStays, JobCore, RecheckShape, CreatedTops, Shared, recheck
<1>5. PausedIsQuiet'
  BY <1>1 DEF DriverStays, JobCore, PausedIsQuiet
<1> QED
  BY <1>1, <1>2, <1>3, <1>4, <1>5, DriverStaysKeeps DEF JobCore, SharesFound, recheck

LEMMA DriverParksKeepsCore == ASSUME JobCore, DriverParks PROVE JobCore'
<1>1. DriverStays /\ UNCHANGED <<ctl, phase, held, stale, fatal, current, left>>
  BY DEF DriverParks, DriverStays, control, report, recheck, server
<1>2. PICK c \in Core : core' = UpdatePaused(c, held', chunk')
  BY <1>1, AskedIs DEF JobCore, TypeOK, ControlTypes, DriverParks, DriverStays
<1>3. core' \in Core /\ PausedIsQuiet'
  BY <1>2, UpdatePausedIs DEF PausedIsQuiet
<1>4. /\ pc \in {"park", "parked"} /\ held[Driver] = "none"
      /\ pc' \in {"stopped", "parked", AfterCheckpoint}
  BY DEF DriverParks
<1>5. \/ phase \in {"dirs", "files"} /\ AfterCheckpoint = "top"
      \/ phase = "targets" /\ AfterCheckpoint = "fetch"
      \/ phase = "finishing" /\ current = "unknown" /\ AfterCheckpoint = "fetch"
      \/ phase = "finishing" /\ current # "unknown" /\ AfterCheckpoint = "lock"
  BY <1>4 DEF AfterCheckpoint, JobCore, TypeOK, ControlTypes, DriverShape, Ended
<1>6. ControlTypes'
  BY <1>1, <1>3, <1>4, <1>5 DEF JobCore, TypeOK, ControlTypes
<1>7. TaskTypes' /\ ServerTypes'
  BY <1>1 DEF DriverStays, JobCore, TypeOK, TaskTypes, ServerTypes, HasLock
<1>8. DriverShape'
  BY <1>1, <1>4, <1>5 DEF DriverStays, JobCore, DriverShape, InFlight, Ended
<1>9. RecheckShape'
  BY <1>1, <1>4, <1>5 DEF DriverStays, JobCore, RecheckShape, CreatedTops, Shared
<1> QED
  BY <1>1, <1>3, <1>6, <1>7, <1>8, <1>9, DriverStaysKeeps DEF JobCore, TypeOK, SharesFound

LEMMA DriverWaitsKeepsCore == ASSUME JobCore, DriverWaits PROVE JobCore'
<1>1. DriverStays /\ UNCHANGED <<ctl, phase, pc, stale, fatal, current, left>> /\ pc = "lock"
  BY DEF DriverWaits, DriverStays, control, report, recheck, server
<1>2. held' = [held EXCEPT ![Driver] = "waiting"] /\ held[Driver] = "none"
  BY DEF DriverWaits, StartWait
<1>3. core' \in Core /\ PausedIsQuiet'
  BY TickIs DEF DriverWaits
<1>4. ControlTypes' /\ ServerTypes'
  <2>1. ControlTypes'
    BY <1>1, <1>3 DEF JobCore, TypeOK, ControlTypes
  <2>2. ServerTypes'
    BY <1>1 DEF DriverStays, JobCore, TypeOK, ServerTypes
  <2> QED
    BY <2>1, <2>2
<1>5. TaskTypes'
  BY <1>1, <1>2, DriverIs DEF DriverStays, JobCore, TypeOK, TaskTypes, HasLock
<1>6. DriverShape'
  BY <1>1, <1>2, DriverIs
  DEF DriverStays, JobCore, DriverShape, InFlight, Ended, TypeOK, TaskTypes
<1>7. RecheckShape'
  BY <1>1 DEF DriverStays, JobCore, RecheckShape, CreatedTops, Shared
<1>8. \A h \in Items : held'[h] = held[h]
  BY <1>2, DriverIs DEF JobCore, TypeOK, TaskTypes
<1> QED
  BY <1>1, <1>3, <1>4, <1>5, <1>6, <1>7, <1>8, DriverStaysKeeps
  DEF JobCore, TypeOK, SharesFound

LEMMA JobFinishesKeepsCore == ASSUME JobCore, JobFinishes PROVE JobCore'
<1>1. DriverStays /\ UNCHANGED <<ctl, held, stale, fatal, current, left>>
  BY DEF JobFinishes, DriverStays, control, report, recheck, server
<1>2. /\ pc \in {"ok", "stopped"} /\ held[Driver] = "none" /\ pc' = "over"
      /\ phase' \in {"done", "cancelled", "failed"} /\ (phase' = "done" => pc = "ok")
  BY DEF JobFinishes, JobCore, TypeOK, ControlTypes
<1>3. core' \in Core /\ ~core'.paused
  BY DEF JobFinishes, JobCore, TypeOK, ControlTypes, Core
<1>4. TypeOK'
  <2>1. ControlTypes'
    BY <1>1, <1>2, <1>3 DEF JobCore, TypeOK, ControlTypes
  <2>2. TaskTypes'
    BY <1>1 DEF DriverStays, JobCore, TypeOK, TaskTypes, HasLock
  <2>3. ServerTypes'
    BY <1>1 DEF DriverStays, JobCore, TypeOK, ServerTypes
  <2> QED
    BY <2>1, <2>2, <2>3 DEF TypeOK
<1>5. DriverShape'
  BY <1>1, <1>2 DEF DriverStays, JobCore, DriverShape, InFlight, Ended
<1>6. RecheckShape'
  BY <1>1, <1>2 DEF DriverStays, JobCore, RecheckShape, CreatedTops, Shared
<1>7. PausedIsQuiet'
  BY <1>3 DEF PausedIsQuiet
<1> QED
  BY <1>1, <1>4, <1>5, <1>6, <1>7, DriverStaysKeeps DEF JobCore, SharesFound

LEMMA EndsJobIs ==
    ASSUME JobCore, EndsJob
    PROVE  /\ core' \in Core /\ PausedIsQuiet' /\ fatal' \in BOOLEAN
           /\ ctl' \in [pause : BOOLEAN, cancel : BOOLEAN, gone : BOOLEAN, stop : BOOLEAN]
<1>1. core' = UpdatePaused(WindDown(core), held', chunk') /\ WindDown(core) \in Core
  BY AskedIs DEF EndsJob, JobCore, TypeOK, ControlTypes
<1>2. core' \in Core /\ PausedIsQuiet'
  BY <1>1, UpdatePausedIs DEF PausedIsQuiet
<1> QED
  BY <1>2 DEF EndsJob, JobCore, TypeOK, ControlTypes

LEMMA DriverFetchesKeepsCore == ASSUME JobCore, DriverFetches PROVE JobCore'
<1>1. /\ UNCHANGED <<at, told, made, chunk, name, entry, foreign, shared, unshared, inShare, held, stale>>
      /\ pc = "fetch"
  BY DEF DriverFetches, server
<1>2. InFlight = {} /\ phase \in {"targets", "finishing"} /\ phase # "done"
  BY <1>1 DEF JobCore, DriverShape
<1>3. /\ ControlTypes' /\ PausedIsQuiet'
      /\ \/ pc' = "stopped" /\ UNCHANGED <<phase, targets, current, left>>
         \/ /\ phase = "targets" /\ targets' = shared /\ pc' = "top" /\ phase' \in {"files", "dirs"}
            /\ UNCHANGED <<current, left>>
         \/ /\ phase = "finishing" /\ UNCHANGED <<phase, targets, left>>
            /\ \/ pc' = "ok" /\ UNCHANGED current
               \/ pc' = "ok" /\ current' \in {"shared", "private"} /\ (current' = "shared" => shared /\ targets)
               \/ pc' = "lock" /\ current' = "shared" /\ shared /\ ~targets
  <2>1. ASSUME UNCHANGED <<ctl, core, fatal>>, pc' \in {"stopped", "top", "ok", "lock"},
               phase' \in {phase, "files", "dirs"}
        PROVE  ControlTypes' /\ PausedIsQuiet'
    BY <1>1, <2>1 DEF JobCore, TypeOK, ControlTypes, PausedIsQuiet
  <2>2. CASE IsStopping /\ pc' = "stopped" /\ UNCHANGED <<ctl, core, fatal, phase, recheck, faults>>
    BY <2>1, <2>2 DEF recheck
  <2>3. CASE /\ ~IsStopping /\ phase = "targets" /\ targets' = shared /\ pc' = "top"
             /\ phase' = (IF Ready = {} THEN "files" ELSE "dirs")
             /\ UNCHANGED <<ctl, core, fatal, current, left, faults>>
    BY <2>1, <2>3
  <2>4. CASE /\ ~IsStopping /\ phase = "targets" /\ Fault /\ EndsJob /\ pc' = "stopped"
             /\ UNCHANGED <<phase, recheck>>
    <3>1. ControlTypes' /\ PausedIsQuiet'
      BY <2>4, EndsJobIs DEF JobCore, TypeOK, ControlTypes
    <3> QED
      BY <2>4, <3>1 DEF recheck
  <2>5. CASE /\ ~IsStopping /\ phase = "finishing" /\ current' = (IF shared THEN "shared" ELSE "private")
             /\ pc' = (IF shared /\ ~targets THEN "lock" ELSE "ok")
             /\ UNCHANGED <<ctl, core, fatal, phase, targets, left, faults>>
    <3>1. shared \in BOOLEAN /\ targets \in BOOLEAN
      BY DEF JobCore, TypeOK, ServerTypes
    <3>2. pc' \in {"ok", "lock"}
      BY <2>5
    <3>3. ControlTypes' /\ PausedIsQuiet'
      BY <2>1, <2>5, <3>2
    <3> QED
      BY <2>5, <3>1, <3>3
  <2>6. CASE ~IsStopping /\ phase = "finishing" /\ Fault /\ pc' = "ok" /\ UNCHANGED <<ctl, core, fatal, phase, recheck>>
    BY <2>1, <2>6 DEF recheck
  <2> QED
    BY <2>2, <2>3, <2>4, <2>5, <2>6 DEF DriverFetches
<1>4. TaskTypes'
  BY <1>1 DEF JobCore, TypeOK, TaskTypes, HasLock
<1>5. ServerTypes'
  BY <1>1, <1>3 DEF JobCore, TypeOK, ServerTypes
<1>6. TaskShape' /\ NamesInOrder'
  BY <1>1 DEF JobCore, TaskShape, ShapeOf, Idle, NamesInOrder
<1>7. ReportShape'
  BY <1>1 DEF JobCore, ReportShape, ReportOf
<1>8. CreatedTopDown'
  BY <1>1 DEF JobCore, CreatedTopDown, CreatedTops, Begun
<1>9. DriverShape'
  BY <1>1, <1>2, <1>3 DEF JobCore, DriverShape, InFlight, Ended
<1>10. SharesFound'
  BY <1>1, <1>2, <1>3 DEF JobCore, SharesFound, DriverShape, InFlight
<1>11. RecheckShape'
  BY <1>1, <1>2, <1>3 DEF JobCore, RecheckShape, CreatedTops, Shared
<1> QED
  BY <1>3, <1>4, <1>5, <1>6, <1>7, <1>8, <1>9, <1>10, <1>11 DEF JobCore, TypeOK

LEMMA DriverPropagatesKeepsCore == ASSUME JobCore, DriverPropagates PROVE JobCore'
<1>1. /\ UNCHANGED <<at, told, made, chunk, name, entry, foreign, shared, targets, current, ctl, core, phase, fatal>>
      /\ pc = "propagate"
  BY DEF DriverPropagates, control
<1>2. held[Driver] = "good" /\ InFlight = {} /\ phase = "finishing" /\ current = "shared" /\ ~targets
  BY <1>1 DEF JobCore, DriverShape, RecheckShape
<1>3. /\ pc' \in {"propagate", "ok", "lock"} /\ (pc' = "ok" => left = {})
      /\ held' = [held EXCEPT ![Driver] = held'[Driver]]
      /\ \/ pc' = "propagate" /\ UNCHANGED <<held, stale>>
         \/ pc' # "propagate" /\ held'[Driver] = "leaving" /\ stale' = stale \ {Driver}
  BY <1>1, DriverIs DEF DriverPropagates, Leave, Unconfirmed, JobCore, TypeOK, TaskTypes
<1>4. \/ UNCHANGED <<left, inShare, unshared>>
      \/ \E i \in left : /\ left' = left \ {i} /\ UNCHANGED unshared
                         /\ inShare' = inShare \cup {j \in {i} \cup Below(i) : made[j] # "no"}
      \/ \E i \in left : left' = left \ {i} /\ unshared' = unshared \cup {i} /\ UNCHANGED inShare
  BY DEF DriverPropagates
<1>5. ControlTypes'
  BY <1>1, <1>3 DEF JobCore, TypeOK, ControlTypes
<1>6. TaskTypes'
  BY <1>1, <1>2, <1>3, DriverIs DEF JobCore, TypeOK, TaskTypes, HasLock
<1>7. ServerTypes'
  <2>1. left' \subseteq Items /\ unshared' \subseteq Items /\ inShare' \subseteq Items
    BY <1>4, BelowInPlan DEF JobCore, TypeOK, ServerTypes
  <2> QED
    BY <1>1, <2>1 DEF JobCore, TypeOK, ServerTypes
<1>8. TaskShape' /\ NamesInOrder'
  BY <1>1, <1>3, DriverIs
  DEF JobCore, TaskShape, ShapeOf, Idle, NamesInOrder, TypeOK, TaskTypes
<1>9. ReportShape'
  BY <1>1 DEF JobCore, ReportShape, ReportOf
<1>10. CreatedTopDown'
  BY <1>1 DEF JobCore, CreatedTopDown, CreatedTops, Begun
<1>11. DriverShape'
  BY <1>1, <1>2, <1>3 DEF JobCore, DriverShape, InFlight, Ended
<1>12. SharesFound'
  BY <1>1, <1>2 DEF JobCore, SharesFound
<1>13. PausedIsQuiet'
  BY <1>1, <1>2, DriverIs DEF JobCore, PausedIsQuiet
<1>14. RecheckShape'
  <2>1. \A t \in CreatedTops : t \in left' \cup unshared' \/ Shared(t)'
    <3> SUFFICES ASSUME NEW t \in CreatedTops PROVE t \in left' \cup unshared' \/ Shared(t)'
      OBVIOUS
    <3>1. t \in Items /\ made[t] # "no" /\ (t \in left \cup unshared \/ Shared(t))
      BY <1>1 DEF JobCore, RecheckShape, CreatedTops, TopLevel, ReportShape, ReportOf
    <3>2. inShare \subseteq inShare' /\ unshared \subseteq unshared'
      BY <1>4
    <3>3. CASE Shared(t) \/ t \in unshared
      BY <1>1, <3>2, <3>3 DEF Shared
    <3>4. CASE t \in left
      BY <1>1, <1>4, <3>1, <3>4 DEF Shared
    <3> QED
      BY <3>1, <3>3, <3>4
  <2>2. CreatedTops' = CreatedTops
    BY <1>1 DEF CreatedTops
  <2>3. pc' = "ok" => left' = {}
    BY <1>3, <1>4
  <2> QED
    BY <1>1, <1>2, <1>3, <2>1, <2>2, <2>3 DEF RecheckShape
<1> QED
  BY <1>5, <1>6, <1>7, <1>8, <1>9, <1>10, <1>11, <1>12, <1>13, <1>14 DEF JobCore, TypeOK

LEMMA DriverLockFailsKeepsCore == ASSUME JobCore, DriverLockFails PROVE JobCore'
<1>1. /\ UNCHANGED <<at, told, made, chunk, name, entry, foreign, shared, inShare, targets, left, phase>>
      /\ pc = "lock" /\ held[Driver] = "waiting" /\ Leave(Driver)
  BY DEF DriverLockFails, server, LockFails
<1>2. /\ held' = [held EXCEPT ![Driver] = held'[Driver]] /\ held'[Driver] = "leaving"
      /\ stale' = stale \ {Driver}
  BY <1>1, DriverIs, LeaveIs
<1>3. InFlight = {} /\ phase \in {"dirs", "finishing"} /\ ~Ended
  BY <1>1 DEF JobCore, DriverShape
<1>4. /\ ControlTypes' /\ PausedIsQuiet'
      /\ \/ phase = "dirs" /\ pc' = "stopped" /\ UNCHANGED <<unshared, current>>
         \/ /\ phase = "finishing" /\ pc' = "ok" /\ unshared' = unshared \cup left
            /\ current' = IF left = {} THEN "unknown" ELSE current
  <2>1. CASE phase = "dirs"
    BY <1>1, <2>1, EndsJobIs DEF DriverLockFails, JobCore, TypeOK, ControlTypes
  <2>2. CASE phase = "finishing"
    <3>1. /\ UNCHANGED <<ctl, core, fatal>> /\ pc' = "ok" /\ unshared' = unshared \cup left
          /\ current' = IF left = {} THEN "unknown" ELSE current
      BY <2>2 DEF DriverLockFails
    <3>2. ControlTypes'
      BY <1>1, <3>1 DEF JobCore, TypeOK, ControlTypes
    <3>3. PausedIsQuiet'
      BY <1>1, <3>1, DriverIs DEF JobCore, PausedIsQuiet
    <3> QED
      BY <2>2, <3>1, <3>2, <3>3
  <2> QED
    BY <1>3, <2>1, <2>2
<1>5. TaskTypes'
  BY <1>1, <1>2, DriverIs DEF JobCore, TypeOK, TaskTypes, HasLock
<1>6. ServerTypes'
  BY <1>1, <1>4 DEF JobCore, TypeOK, ServerTypes
<1>7. TaskShape' /\ NamesInOrder'
  BY <1>1, <1>2, DriverIs
  DEF JobCore, TaskShape, ShapeOf, Idle, NamesInOrder, TypeOK, TaskTypes
<1>8. ReportShape'
  BY <1>1 DEF JobCore, ReportShape, ReportOf
<1>9. CreatedTopDown'
  BY <1>1 DEF JobCore, CreatedTopDown, CreatedTops, Begun
<1>10. DriverShape'
  BY <1>1, <1>3, <1>4 DEF JobCore, DriverShape, InFlight, Ended
<1>11. SharesFound'
  BY <1>1, <1>4 DEF JobCore, SharesFound, TypeOK, ServerTypes
<1>12. RecheckShape'
  BY <1>1, <1>3, <1>4 DEF JobCore, RecheckShape, CreatedTops, Shared, Ended
<1> QED
  BY <1>4, <1>5, <1>6, <1>7, <1>8, <1>9, <1>10, <1>11, <1>12 DEF JobCore, TypeOK

(* What Spawns does to the items *)
LEMMA SpawnsIs ==
    ASSUME JobCore, Spawns, phase \in {"dirs", "files"}
    PROVE  /\ DOMAIN at' = Items
           /\ \A i \in Items :
                \/ at'[i] = at[i]
                \/ phase = "dirs" /\ i \in Dirs /\ at[i] = "ready" /\ at'[i] = UnderLock(i)
                \/ /\ phase = "files" /\ i \in Files /\ at[i] = "planned" /\ at'[i] = "start"
                   /\ i \notin TopLevel => told[Parent[i]] = "done"
                \/ phase = "files" /\ i \in Files /\ at[i] = "planned" /\ at'[i] = "gone"
           /\ \/ pc' = "select" /\ UNCHANGED phase
              \/ /\ InFlight = {} /\ InFlight' = {}
                 /\ \/ phase = "dirs" /\ phase' = "files" /\ pc' = "top"
                    \/ phase = "files" /\ phase' = "finishing" /\ pc' = "park"
<1> DEFINE orphans == {f \in Unspawned : Parent[f] \in Dirs /\ told[Parent[f]] # "done"}
           able == IF phase = "dirs" THEN Ready ELSE Unspawned \ orphans
<1>1. PICK S \in SUBSET able :
        /\ at' = [i \in Items |-> CASE i \in S -> IF i \in Dirs THEN UnderLock(i) ELSE "start"
                                    [] phase = "files" /\ i \in orphans -> "gone"
                                    [] OTHER -> at[i]]
        /\ IF S \cup InFlight # {} THEN pc' = "select" /\ UNCHANGED phase
           ELSE pc' = AfterPhase.pc /\ phase' = AfterPhase.phase
  BY DEF Spawns
<1>2. DOMAIN at' = Items
  BY <1>1
<1>3. ASSUME NEW i \in Items
      PROVE  \/ at'[i] = at[i]
             \/ phase = "dirs" /\ i \in Dirs /\ at[i] = "ready" /\ at'[i] = UnderLock(i)
             \/ /\ phase = "files" /\ i \in Files /\ at[i] = "planned" /\ at'[i] = "start"
                /\ i \notin TopLevel => told[Parent[i]] = "done"
             \/ phase = "files" /\ i \in Files /\ at[i] = "planned" /\ at'[i] = "gone"
  <2>1. CASE i \in S /\ phase = "dirs"
    <3>1. i \in Dirs /\ at[i] = "ready"
      BY <2>1 DEF Ready
    <3>2. at'[i] = UnderLock(i)
      BY <1>1, <2>1, <3>1
    <3> QED
      BY <2>1, <3>1, <3>2
  <2>2. CASE i \in S /\ phase = "files"
    <3>1. i \in Files /\ at[i] = "planned" /\ i \notin orphans /\ i \in Unspawned
      BY <2>2 DEF Unspawned
    <3>2. i \notin Dirs
      BY <3>1, PlanAssumption
    <3>3. at'[i] = "start"
      BY <1>1, <2>2, <3>2
    <3>4. i \notin TopLevel => told[Parent[i]] = "done"
      BY <3>1, ParentIs
    <3> QED
      BY <2>2, <3>1, <3>3, <3>4
  <2>3. CASE i \notin S /\ phase = "files" /\ i \in orphans
    <3>1. i \in Files /\ at[i] = "planned"
      BY <2>3 DEF Unspawned
    <3>2. at'[i] = "gone"
      BY <1>1, <2>3
    <3> QED
      BY <2>3, <3>1, <3>2
  <2>4. CASE i \notin S /\ ~(phase = "files" /\ i \in orphans)
    BY <1>1, <2>4
  <2> QED
    BY <2>1, <2>2, <2>3, <2>4
<1>4. CASE S \cup InFlight # {}
  BY <1>1, <1>2, <1>3, <1>4
<1>5. CASE S \cup InFlight = {}
  <2>1. InFlight = {} /\ \A i \in Items : i \notin S
    BY <1>5
  <2>2. \A i \in Items : at'[i] \in {at[i], "gone"}
    BY <1>1, <2>1
  <2>3. InFlight' = {}
    BY <2>1, <2>2 DEF InFlight
  <2>4. \/ phase = "dirs" /\ phase' = "files" /\ pc' = "top"
        \/ phase = "files" /\ phase' = "finishing" /\ pc' = "park"
    BY <1>1, <1>5 DEF AfterPhase
  <2> QED
    BY <1>2, <1>3, <2>1, <2>3, <2>4
<1> QED
  BY <1>4, <1>5

(* What the job relies on after Spawns, but for the locks *)
LEMMA SpawnsKeeps ==
    ASSUME JobCore, Spawns, phase \in {"dirs", "files"}, pc \in {"top", "lock"},
           UNCHANGED <<told, made, chunk, name, entry, foreign, shared, targets, unshared, inShare,
                       current, left>>,
           \A i \in Items : held'[i] = held[i]
    PROVE  /\ at' \in [Items -> LockStages \cup {"planned", "ready", "start", "verify", "copy",
                                  "over", "failed", "fatal", "stopped", "back", "gone"}]
           /\ TaskShape' /\ ReportShape' /\ CreatedTopDown' /\ SharesFound' /\ RecheckShape'
           /\ NamesInOrder'
<1>1. at' \in [Items -> LockStages \cup {"planned", "ready", "start", "verify", "copy",
                          "over", "failed", "fatal", "stopped", "back", "gone"}]
  <2>1. DOMAIN at' = Items
    BY SpawnsIs
  <2>2. \A i \in Items : at'[i] \in {at[i], "start", "gone", UnderLock(i)}
    BY SpawnsIs
  <2>3. \A i \in Items : UnderLock(i) \in LockStages
    BY UnderLockIs DEF LockStages
  <2>4. at' = [i \in Items |-> at'[i]]
    <3>1. \E S : at' = [i \in Items |-> CASE i \in S -> IF i \in Dirs THEN UnderLock(i) ELSE "start"
                              [] phase = "files" /\ i \in {f \in Unspawned : Parent[f] \in Dirs /\ told[Parent[f]] # "done"} -> "gone"
                              [] OTHER -> at[i]]
      BY DEF Spawns
    <3> QED
      BY <3>1
  <2> QED
    BY <2>2, <2>3, <2>4 DEF JobCore, TypeOK, TaskTypes
<1>2. TaskShape'
  <2> SUFFICES ASSUME NEW i \in Items PROVE ShapeOf(i)'
    BY DEF TaskShape
  <2>1. ShapeOf(i) /\ (i \in Dirs <=> i \notin Files) /\ held'[i] = held[i] /\ chunk' = chunk
    BY PlanAssumption DEF JobCore, TaskShape, Items
  <2>2. CASE at'[i] = at[i]
    BY <2>1, <2>2 DEF ShapeOf, Idle
  <2>3. CASE i \in Dirs /\ at[i] = "ready" /\ at'[i] = UnderLock(i)
    BY <2>1, <2>3, UnderLockIs DEF ShapeOf, Idle, LockStages
  <2>4. CASE i \in Files /\ at[i] = "planned" /\ at'[i] \in {"start", "gone"}
    BY <2>1, <2>4 DEF ShapeOf, Idle, LockStages
  <2> QED
    BY <2>2, <2>3, <2>4, SpawnsIs
<1>3. ReportShape'
  <2> SUFFICES ASSUME NEW i \in Items PROVE ReportOf(i)'
    BY DEF ReportShape
  <2>1. ReportOf(i)
    BY DEF JobCore, ReportShape
  <2>2. at'[i] = at[i] \/ (at[i] \in {"ready", "planned"} /\ at'[i] \in {"start", "gone", "check", "write"})
    BY SpawnsIs, UnderLockIs
  <2> QED
    BY <2>1, <2>2 DEF ReportOf
<1>4. CreatedTopDown'
  <2>1. ASSUME NEW i \in Items, Begun(i)', NEW k \in Items, i \in Below(k) PROVE told[k] = "done"
    <3>1. CASE Begun(i)
      BY <2>1, <3>1 DEF JobCore, CreatedTopDown
    <3>2. CASE ~Begun(i)
      <4>1. at[i] \in {"planned", "gone"} /\ at'[i] # at[i] /\ at'[i] # "gone"
        BY <2>1, <3>2 DEF Begun
      <4>2. i \notin TopLevel => told[Parent[i]] = "done"
        BY <4>1, SpawnsIs
      <4>3. i \notin TopLevel
        BY <2>1, NothingAboveTop
      <4>4. Parent[i] \in Items /\ told[Parent[i]] = "done" /\ Parent[i] \in Below(k) \cup {k}
        BY <2>1, <4>2, <4>3, ParentIs, BelowIs
      <4>5. Begun(Parent[i])
        BY <4>4 DEF JobCore, ReportShape, ReportOf, Begun
      <4> QED
        BY <2>1, <4>4, <4>5 DEF JobCore, CreatedTopDown
    <3> QED
      BY <3>1, <3>2
  <2> QED
    BY <2>1 DEF JobCore, CreatedTopDown, CreatedTops
<1>5. SharesFound'
  <2>1. \A i \in Items : at'[i] = "over" => at[i] = "over"
    BY SpawnsIs, UnderLockIs
  <2> QED
    BY <2>1 DEF JobCore, SharesFound
<1>6. RecheckShape'
  <2>1. current = "unknown" /\ left = {}
    BY DEF JobCore, RecheckShape
  <2>2. pc' \in {"select", "top", "park"}
    BY SpawnsIs
  <2>3. phase' # "done"
    BY SpawnsIs
  <2> QED
    BY <2>1, <2>2, <2>3 DEF RecheckShape
<1>7. NamesInOrder'
  BY DEF JobCore, NamesInOrder
<1> QED
  BY <1>1, <1>2, <1>3, <1>4, <1>5, <1>6, <1>7

LEMMA DriverLocksKeepsCore == ASSUME JobCore, DriverLocks PROVE JobCore'
<1>1. /\ UNCHANGED <<ctl, core, chunk, name, told, unshared, fatal, targets, current, made, entry,
                    shared, inShare, foreign>>
      /\ pc = "lock"
  BY DEF DriverLocks, control, report, server
<1>2. InFlight = {} /\ phase \in {"dirs", "finishing"} /\ ~Ended
  BY <1>1 DEF JobCore, DriverShape
<1>3. /\ held[Driver] \in {"waiting", "got"}
      /\ held' = [held EXCEPT ![Driver] = held'[Driver]]
      /\ \/ held'[Driver] \in {"got", "good"} /\ UNCHANGED stale
         \/ held'[Driver] = "leaving" /\ stale' = stale \ {Driver}
  BY DriverIs
  DEF DriverLocks, Granted, Keeps, StopEndsWait, PauseEndsWait, Leave, JobCore, TypeOK,
      TaskTypes
<1>4. \A i \in Items : held'[i] = held[i]
  BY <1>3, DriverIs DEF JobCore, TypeOK, TaskTypes
<1>5. PausedIsQuiet'
  BY <1>1, <1>3, DriverIs DEF JobCore, PausedIsQuiet
<1>6. CASE Keeps(Driver) /\ phase = "dirs" /\ Spawns /\ UNCHANGED <<stale, left>>
  <2>1. held'[Driver] = "good"
    BY <1>6, DriverIs DEF Keeps, JobCore, TypeOK, TaskTypes
  <2>2. at' \in [Items -> LockStages \cup {"planned", "ready", "start", "verify", "copy",
                             "over", "failed", "fatal", "stopped", "back", "gone"}]
    BY <1>1, <1>4, <1>6, SpawnsKeeps
  <2>3. TaskShape' /\ ReportShape' /\ CreatedTopDown' /\ SharesFound' /\ RecheckShape' /\ NamesInOrder'
    BY <1>1, <1>4, <1>6, SpawnsKeeps
  <2>4. \/ pc' = "select" /\ phase' = "dirs"
        \/ InFlight' = {} /\ phase' = "files" /\ pc' = "top"
    BY <1>6, SpawnsIs
  <2>5. ControlTypes'
    BY <1>1, <2>4 DEF JobCore, TypeOK, ControlTypes
  <2>6. TaskTypes'
    BY <1>1, <1>3, <2>2, DriverIs DEF JobCore, TypeOK, TaskTypes, HasLock
  <2>7. ServerTypes'
    BY <1>1, <1>6 DEF JobCore, TypeOK, ServerTypes
  <2>8. DriverShape'
    BY <2>1, <2>4 DEF DriverShape, Ended
  <2> QED
    BY <1>5, <2>3, <2>5, <2>6, <2>7, <2>8 DEF JobCore, TypeOK
<1>7. CASE UNCHANGED <<phase, at>>
  <2>1. /\ \/ pc' = "lock" /\ UNCHANGED left
           \/ phase = "dirs" /\ pc' \in {"top", "stopped", "select"} /\ UNCHANGED left
           \/ phase = "finishing" /\ pc' \in {"stopped", "park"} /\ UNCHANGED left
           \/ /\ phase = "finishing" /\ pc' = "propagate" /\ held'[Driver] = "good"
              /\ left' = (IF left = {} THEN CreatedTops ELSE left)
    <3>1. CASE Keeps(Driver) /\ phase = "dirs" /\ Spawns /\ UNCHANGED <<stale, left>>
      <4>1. pc' \in {"select", "top"}
        BY <3>1, SpawnsIs
      <4> QED
        BY <3>1, <4>1
    <3>2. Keeps(Driver) => held'[Driver] = "good"
      BY DriverIs DEF Keeps, JobCore, TypeOK, TaskTypes
    <3> QED
      BY <1>1, <1>2, <3>1, <3>2 DEF DriverLocks
  <2>2. DriverStays
    BY <1>1, <1>7 DEF DriverStays
  <2>3. ControlTypes'
    BY <1>1, <1>7, <2>1 DEF JobCore, TypeOK, ControlTypes
  <2>4. TaskTypes'
    BY <1>1, <1>3, <1>7, DriverIs DEF JobCore, TypeOK, TaskTypes, HasLock
  <2>5. ServerTypes'
    <3>1. CreatedTops \subseteq Items
      BY DEF CreatedTops, TopLevel
    <3>2. left' \subseteq Items
      BY <2>1, <3>1 DEF JobCore, TypeOK, ServerTypes
    <3> QED
      BY <1>1, <3>2 DEF JobCore, TypeOK, ServerTypes
  <2>6. DriverShape'
    BY <1>1, <1>2, <1>7, <2>1 DEF JobCore, DriverShape, InFlight, Ended
  <2>7. RecheckShape'
    BY <1>1, <1>2, <1>7, <2>1 DEF JobCore, RecheckShape, CreatedTops, Shared
  <2> QED
    BY <1>1, <1>4, <1>5, <2>2, <2>3, <2>4, <2>5, <2>6, <2>7, DriverStaysKeeps
    DEF JobCore, TypeOK, SharesFound
<1> QED
  BY <1>6, <1>7 DEF DriverLocks

LEMMA DriverLoopsKeepsCore == ASSUME JobCore, DriverLoops PROVE JobCore'
<1>1. /\ UNCHANGED <<ctl, chunk, name, told, unshared, fatal, targets, current, left, made, entry,
                    shared, inShare, foreign>>
      /\ pc = "top" /\ held[Driver] \in {"none", "good"}
  BY DEF DriverLoops, control, report, recheck, server
<1>2. phase \in {"dirs", "files"} /\ ~Ended
  BY <1>1 DEF JobCore, DriverShape
<1>3. \/ UNCHANGED <<held, stale>> \/ DropsWarmLock
  BY DEF DriverLoops
<1>4. /\ held' = [held EXCEPT ![Driver] = held'[Driver]]
      /\ \/ UNCHANGED <<held, stale>>
         \/ held[Driver] = "good" /\ held'[Driver] = "leaving" /\ stale' = stale \ {Driver}
  BY <1>1, <1>3, DriverIs DEF DropsWarmLock, Leave, HasLock, JobCore, TypeOK, TaskTypes
<1>5. \A i \in Items : held'[i] = held[i]
  BY <1>4, DriverIs DEF JobCore, TypeOK, TaskTypes
<1>6. PICK c \in Core : core' = UpdatePaused(c, held, chunk)
  BY AskedIs DEF JobCore, TypeOK, ControlTypes, DriverLoops
<1>7. core' \in Core /\ PausedIsQuiet'
  <2>1. /\ core' \in Core
        /\ core'.paused => /\ \A h \in Holders : held[h] = "none"
                           /\ \A f \in Files : \A k \in 1 .. Chunks[f] : OpOut(chunk[f][k])
    BY <1>6, UpdatePausedIs
  <2> QED
    BY <1>1, <1>4, <2>1, DriverIs DEF PausedIsQuiet
<1>8. CASE UNCHANGED at
  <2>1. /\ UNCHANGED <<held, stale>> \/ InFlight = {}
        /\ \/ pc' = "select" /\ UNCHANGED phase
           \/ InFlight = {} /\ pc' \in {"stopped", "park"} /\ UNCHANGED phase
           \/ InFlight = {} /\ pc' = "lock" /\ phase = "dirs" /\ UNCHANGED phase
           \/ InFlight = {} /\ phase = "files" /\ phase' = "finishing" /\ pc' = "park"
           \/ InFlight = {} /\ phase = "dirs" /\ phase' = "files" /\ pc' = "top"
    <3>1. CASE /\ IsStopping
               /\ IF InFlight = {} THEN DropsWarmLock ELSE UNCHANGED <<held, stale>>
               /\ pc' = (IF InFlight = {} THEN "stopped" ELSE "select") /\ UNCHANGED <<at, phase>>
      BY <3>1
    <3>2. CASE /\ ~IsStopping /\ IsPauseRequested
               /\ IF InFlight = {} THEN DropsWarmLock ELSE UNCHANGED <<held, stale>>
               /\ IF InFlight = {} /\ phase = "files" /\ Unspawned = {}
                  THEN pc' = AfterPhase.pc /\ phase' = AfterPhase.phase
                  ELSE pc' = (IF InFlight = {} THEN "park" ELSE "select") /\ UNCHANGED phase
      <4>1. phase = "files" => AfterPhase.pc = "park" /\ AfterPhase.phase = "finishing"
        BY DEF AfterPhase
      <4> QED
        BY <3>2, <4>1
    <3>3. CASE phase = "dirs" /\ held[Driver] = "none" /\ pc' = "lock" /\ UNCHANGED <<phase, held, stale>>
      BY <3>3 DEF JobCore, DriverShape
    <3>4. CASE Spawns /\ IF phase' # phase THEN DropsWarmLock ELSE UNCHANGED <<held, stale>>
      <4>1. \/ pc' = "select" /\ UNCHANGED phase
            \/ /\ InFlight = {}
               /\ \/ phase = "dirs" /\ phase' = "files" /\ pc' = "top"
                  \/ phase = "files" /\ phase' = "finishing" /\ pc' = "park"
        BY <1>2, <3>4, SpawnsIs
      <4> QED
        BY <3>4, <4>1
    <3> QED
      BY <3>1, <3>2, <3>3, <3>4 DEF DriverLoops
  <2>2. DriverStays
    BY <1>1, <1>8 DEF DriverStays
  <2>3. ControlTypes'
    BY <1>1, <1>7, <2>1 DEF JobCore, TypeOK, ControlTypes
  <2>4. TaskTypes'
    BY <1>1, <1>4, <1>8, DriverIs DEF JobCore, TypeOK, TaskTypes, HasLock
  <2>5. ServerTypes'
    BY <1>1 DEF JobCore, TypeOK, ServerTypes
  <2>6. DriverShape'
    BY <1>1, <1>2, <1>8, <2>1 DEF JobCore, DriverShape, InFlight, Ended
  <2>7. RecheckShape'
    <3>1. current = "unknown" /\ left = {}
      BY <1>2 DEF JobCore, RecheckShape
    <3> QED
      BY <1>1, <1>2, <2>1, <3>1 DEF RecheckShape
  <2> QED
    BY <1>1, <1>5, <1>7, <2>2, <2>3, <2>4, <2>5, <2>6, <2>7, DriverStaysKeeps
    DEF JobCore, TypeOK, SharesFound
<1>9. CASE ~UNCHANGED at
  <2>1. /\ Spawns /\ IF phase' # phase THEN DropsWarmLock ELSE UNCHANGED <<held, stale>>
        /\ ~(phase = "dirs" /\ held[Driver] = "none" /\ Ready # {})
    BY <1>9 DEF DriverLoops
  <2>2. at' \in [Items -> LockStages \cup {"planned", "ready", "start", "verify", "copy",
                             "over", "failed", "fatal", "stopped", "back", "gone"}]
    BY <1>1, <1>2, <1>5, <2>1, SpawnsKeeps
  <2>3. TaskShape' /\ ReportShape' /\ CreatedTopDown' /\ SharesFound' /\ RecheckShape' /\ NamesInOrder'
    BY <1>1, <1>2, <1>5, <2>1, SpawnsKeeps
  <2>4. \/ pc' = "select" /\ UNCHANGED phase
        \/ /\ InFlight' = {}
           /\ \/ phase = "dirs" /\ phase' = "files" /\ pc' = "top"
              \/ phase = "files" /\ phase' = "finishing" /\ pc' = "park"
    BY <1>2, <2>1, SpawnsIs
  <2>5. ControlTypes'
    BY <1>1, <1>7, <2>4 DEF JobCore, TypeOK, ControlTypes
  <2>6. TaskTypes'
    BY <1>1, <1>4, <2>2, DriverIs DEF JobCore, TypeOK, TaskTypes, HasLock
  <2>7. ServerTypes'
    BY <1>1 DEF JobCore, TypeOK, ServerTypes
  <2>8. phase' = "dirs" /\ InFlight' # {} => held'[Driver] = "good"
    <3> SUFFICES ASSUME phase' = "dirs", InFlight' # {} PROVE held'[Driver] = "good"
      OBVIOUS
    <3>1. phase = "dirs" /\ UNCHANGED held
      BY <1>2, <2>1, <2>4
    <3>2. CASE InFlight # {}
      BY <3>1, <3>2 DEF JobCore, DriverShape
    <3>3. CASE InFlight = {}
      <4>1. PICK i \in Items : at'[i] \notin {"planned", "ready", "gone"}
        BY DEF InFlight
      <4>2. at[i] \in {"planned", "ready", "gone"}
        BY <3>3 DEF InFlight
      <4>3. i \in Dirs /\ at[i] = "ready"
        BY <1>2, <2>1, <3>1, <4>1, <4>2, SpawnsIs
      <4> QED
        BY <1>1, <2>1, <3>1, <4>3 DEF Ready
    <3> QED
      BY <3>2, <3>3
  <2>9. DriverShape'
    BY <1>2, <2>4, <2>8 DEF DriverShape, Ended
  <2> QED
    BY <1>7, <2>3, <2>5, <2>6, <2>7, <2>9 DEF JobCore, TypeOK
<1> QED
  BY <1>8, <1>9

LEMMA DriverCollectsKeepsCore == ASSUME JobCore, NEW i \in Items, DriverCollects(i) PROVE JobCore'
<1> DEFINE failed == {i} \cup Below(i)
<1>1. /\ UNCHANGED <<phase, stale, held, chunk, name, unshared, targets, current, left, made, entry, shared,
                    inShare, foreign>>
      /\ pc = "select" /\ pc' = "top" /\ held[i] = "none"
      /\ i \in Files => \A c \in 1 .. Chunks[i] : OpOut(chunk[i][c])
      /\ at[i] \in {"over", "failed", "fatal", "stopped", "back"}
  BY DEF DriverCollects, Finished, recheck, server
<1>2. /\ phase \in {"dirs", "files"} /\ i \in InFlight /\ left = {} /\ (i \in Dirs <=> i \notin Files)
      /\ (phase = "dirs" => held[Driver] = "good")
  BY <1>1, PlanAssumption DEF JobCore, DriverShape, InFlight, RecheckShape, Items
<1>3. told[i] # "done" /\ Begun(i)
  BY <1>1 DEF JobCore, ReportShape, ReportOf, Begun
<1>4. \A j \in Below(i) : /\ j \in Items /\ ~Begun(j) /\ told[j] # "done" /\ made[j] = "no"
                          /\ at[j] \in {"planned", "gone"} /\ held[j] = "none"
  <2> SUFFICES ASSUME NEW j \in Below(i)
               PROVE  /\ j \in Items /\ ~Begun(j) /\ told[j] # "done" /\ made[j] = "no"
                      /\ at[j] \in {"planned", "gone"} /\ held[j] = "none"
    OBVIOUS
  <2>1. j \in Items
    BY BelowInPlan
  <2>2. ~Begun(j)
    BY <1>3, <2>1 DEF JobCore, CreatedTopDown
  <2>3. at[j] \in {"planned", "gone"} /\ made[j] = "no"
    BY <2>2 DEF Begun
  <2>4. told[j] # "done"
    BY <2>1, <2>3 DEF JobCore, ReportShape, ReportOf
  <2>5. held[j] = "none"
    BY <2>1, <2>3 DEF JobCore, TaskShape, ShapeOf, Idle
  <2> QED
    BY <2>1, <2>2, <2>3, <2>4, <2>5
<1>5. /\ ctl' \in [pause : BOOLEAN, cancel : BOOLEAN, gone : BOOLEAN, stop : BOOLEAN]
      /\ fatal' \in BOOLEAN /\ core' \in Core /\ PausedIsQuiet'
  <2>1. EndsJob \/ (UNCHANGED <<ctl, fatal>> /\ Tick)
    BY DEF DriverCollects
  <2>2. CASE UNCHANGED <<ctl, fatal>> /\ Tick
    BY <2>2, TickIs DEF JobCore, TypeOK, ControlTypes
  <2> QED
    BY <2>1, <2>2, EndsJobIs
<1>6. /\ DOMAIN at' = Items /\ told' \in [Items -> {"none", "done", "failed"}]
      /\ at' = [j \in Items |-> at'[j]]
      /\ \A j \in Items : told[j] = "done" => told'[j] = "done"
      /\ \A j \in Items : told'[j] = "done" => told[j] = "done" \/ (j = i /\ at[i] = "over" /\ made[i] = "new")
      /\ \A j \in Items \ ({i} \cup Below(i)) : told'[j] = told[j] /\ at'[j] = at[j]
      /\ \A j \in Below(i) : \/ at'[j] = at[j] \/ (j \in Dirs /\ at'[j] = "gone")
                             \/ /\ at[i] = "over" /\ j \in Dirs /\ i \in Dirs /\ told'[i] = "done"
                                /\ Parent[j] = i /\ at'[j] = "ready"
      /\ \/ at'[i] = "gone" /\ (made[i] # "no" => told'[i] # "none")
         \/ at'[i] = "ready" /\ i \in Dirs /\ made[i] = "no" /\ UNCHANGED told
  <2>1. i \in Items /\ i \notin Below(i) /\ told \in [Items -> {"none", "done", "failed"}]
    BY <1>3, <1>4 DEF JobCore, TypeOK, ServerTypes
  <2>2. CASE at[i] = "over"
    <3>1. /\ told' = [told EXCEPT ![i] = Outcome(i)]
          /\ at' = [j \in Items |-> CASE j = i -> "gone"
                                      [] j \in Dirs /\ Parent[j] = i -> "ready"
                                      [] OTHER -> at[j]]
      BY <2>2 DEF DriverCollects
    <3>2. /\ Outcome(i) \in {"done", "failed"} /\ made[i] # "no" /\ (Outcome(i) = "done" => made[i] = "new")
          /\ i \in Dirs => Outcome(i) = "done"
      BY <2>2 DEF Outcome, JobCore, ReportShape, ReportOf, TypeOK, ServerTypes
    <3>3. /\ told' \in [Items -> {"none", "done", "failed"}] /\ told'[i] = Outcome(i)
          /\ \A j \in Items : j # i => told'[j] = told[j]
      BY <2>1, <3>1, <3>2
    <3>4. DOMAIN at' = Items /\ at' = [j \in Items |-> at'[j]] /\ at'[i] = "gone"
      <4>1. DOMAIN at' = Items /\ at' = [j \in Items |-> at'[j]]
        BY <3>1
      <4>2. at'[i] = CASE i = i -> "gone"
                       [] i \in Dirs /\ Parent[i] = i -> "ready"
                       [] OTHER -> at[i]
        BY <3>1
      <4>3. Parent[i] # i
        BY <2>1, BelowIs
      <4> QED
        BY <4>1, <4>2, <4>3
    <3>5. ASSUME NEW j \in Items, j # i, at'[j] # at[j]
          PROVE  j \in Dirs /\ i \in Dirs /\ Parent[j] = i /\ at'[j] = "ready" /\ j \in Below(i)
      <4>1. j \in Dirs /\ Parent[j] = i /\ at'[j] = "ready"
        BY <3>1, <3>5
      <4>2. i \in Dirs
        BY <4>1, PlanAssumption DEF Items
      <4>3. j \in Below(i)
        BY <4>1, BelowIs
      <4> QED
        BY <4>1, <4>2, <4>3
    <3> QED
      BY <1>3, <1>4, <2>1, <2>2, <3>2, <3>3, <3>4, <3>5
  <2>3. CASE at[i] \in {"failed", "fatal"}
    <3>1. /\ told' = [j \in Items |-> IF j \in failed THEN "failed" ELSE told[j]]
          /\ at' = [j \in Items |-> IF j = i \/ j \in failed \cap Dirs THEN "gone" ELSE at[j]]
      BY <2>3 DEF DriverCollects
    <3>2. told' \in [Items -> {"none", "done", "failed"}]
      BY <2>1, <3>1
    <3>3. DOMAIN at' = Items /\ at' = [j \in Items |-> at'[j]] /\ at'[i] = "gone" /\ told'[i] = "failed"
      BY <3>1
    <3>4. \A j \in Items : IF j \in failed THEN told'[j] = "failed" ELSE told'[j] = told[j] /\ at'[j] = at[j]
      BY <3>1
    <3>5. \A j \in Below(i) : at'[j] = at[j] \/ (j \in Dirs /\ at'[j] = "gone")
      <4> SUFFICES ASSUME NEW j \in Below(i)
                   PROVE  at'[j] = at[j] \/ (j \in Dirs /\ at'[j] = "gone")
        OBVIOUS
      <4>1. j \in Items /\ j # i
        BY <1>4, <2>1
      <4> QED
        BY <3>1, <4>1
    <3> QED
      BY <1>3, <1>4, <2>1, <3>2, <3>3, <3>4, <3>5
  <2>4. CASE at[i] \in {"stopped", "back"}
    <3>1. at' = [at EXCEPT ![i] = IF at[i] = "back" THEN "ready" ELSE "gone"] /\ UNCHANGED told
      BY <2>4 DEF DriverCollects, Goes
    <3>2. made[i] = "no" /\ (at[i] = "back" => i \in Dirs)
      BY <1>2, <2>4 DEF JobCore, ReportShape, ReportOf, TaskShape, ShapeOf
    <3>3. /\ DOMAIN at' = Items /\ at' = [j \in Items |-> at'[j]]
          /\ at'[i] = IF at[i] = "back" THEN "ready" ELSE "gone"
          /\ \A j \in Items : j # i => at'[j] = at[j]
      BY <3>1 DEF JobCore, TypeOK, TaskTypes
    <3> QED
      BY <1>4, <2>1, <2>4, <3>1, <3>2, <3>3
  <2> QED
    BY <1>1, <2>2, <2>3, <2>4
<1>7. ControlTypes'
  BY <1>1, <1>5 DEF JobCore, TypeOK, ControlTypes
<1>8. TaskTypes'
  <2>1. \A j \in Items : at'[j] \in {at[j], "gone", "ready"}
    BY <1>6
  <2>2. at' \in [Items -> LockStages \cup {"planned", "ready", "start", "verify", "copy",
                             "over", "failed", "fatal", "stopped", "back", "gone"}]
    BY <1>6, <2>1 DEF JobCore, TypeOK, TaskTypes
  <2> QED
    BY <1>1, <2>2 DEF JobCore, TypeOK, TaskTypes, HasLock
<1>9. ServerTypes'
  BY <1>1, <1>6 DEF JobCore, TypeOK, ServerTypes
<1>10. TaskShape'
  <2> SUFFICES ASSUME NEW j \in Items PROVE ShapeOf(j)'
    BY DEF TaskShape
  <2>1. ShapeOf(j) /\ held' = held /\ chunk' = chunk /\ (j \in Dirs => j \notin Files)
    BY <1>1, PlanAssumption DEF JobCore, TaskShape
  <2>2. CASE at'[j] = at[j]
    BY <2>1, <2>2 DEF ShapeOf, Idle
  <2>3. CASE j = i
    BY <1>1, <1>2, <1>6, <2>1, <2>3 DEF ShapeOf, Idle, LockStages
  <2>4. CASE j \in Below(i)
    BY <1>4, <1>6, <2>1, <2>2, <2>4 DEF ShapeOf, Idle, LockStages
  <2> QED
    BY <1>6, <2>2, <2>3, <2>4
<1>11. ReportShape'
  <2> SUFFICES ASSUME NEW j \in Items PROVE ReportOf(j)'
    BY DEF ReportShape
  <2>1. ReportOf(j) /\ made' = made
    BY <1>1 DEF JobCore, ReportShape
  <2>2. CASE j \notin {i} \cup Below(i)
    BY <1>6, <2>1, <2>2 DEF ReportOf
  <2>3. CASE j = i
    BY <1>1, <1>3, <1>6, <2>1, <2>3 DEF ReportOf
  <2>4. CASE j \in Below(i) /\ j # i
    BY <1>4, <1>6, <2>1, <2>4 DEF ReportOf
  <2> QED
    BY <2>2, <2>3, <2>4
<1>12. CreatedTopDown'
  <2>1. ASSUME NEW j \in Items, Begun(j)', NEW k \in Items, j \in Below(k) PROVE told'[k] = "done"
    <3>1. CASE Begun(j)
      BY <1>6, <2>1, <3>1 DEF JobCore, CreatedTopDown
    <3>2. CASE ~Begun(j)
      <4>1. at[j] \in {"planned", "gone"} /\ at'[j] \notin {"planned", "gone"}
        BY <1>1, <2>1, <3>2 DEF Begun
      <4>2. told'[i] = "done" /\ Parent[j] = i
        BY <1>1, <1>6, <4>1
      <4>3. i \in Below(k) \cup {k}
        BY <2>1, <4>2, BelowIs
      <4>4. k # i => told[k] = "done"
        BY <1>3, <2>1, <4>3 DEF JobCore, CreatedTopDown
      <4> QED
        BY <1>6, <2>1, <4>2, <4>4
    <3> QED
      BY <3>1, <3>2
  <2>2. CreatedTops \subseteq CreatedTops'
    BY <1>6 DEF CreatedTops, TopLevel
  <2>3. ASSUME NEW j \in Items, told'[j] = "done"
        PROVE  \E t \in CreatedTops' : j \in {t} \cup Below(t)
    <3>1. CASE told[j] = "done"
      BY <2>2, <3>1 DEF JobCore, CreatedTopDown
    <3>2. CASE told[j] # "done" /\ j \in TopLevel
      BY <2>3, <3>2 DEF CreatedTops
    <3>3. CASE told[j] # "done" /\ j \notin TopLevel
      <4>1. j = i
        BY <1>6, <2>3, <3>3
      <4>2. Parent[j] \in Items /\ j \in Below(Parent[j])
        BY <3>3, ParentIs
      <4>3. told[Parent[j]] = "done"
        BY <1>3, <4>1, <4>2 DEF JobCore, CreatedTopDown
      <4>4. PICK t \in CreatedTops : Parent[j] \in {t} \cup Below(t)
        BY <4>2, <4>3 DEF JobCore, CreatedTopDown
      <4>5. j \in Below(t)
        BY <4>4, BelowIs
      <4> QED
        BY <2>2, <4>4, <4>5
    <3> QED
      BY <3>1, <3>2, <3>3
  <2> QED
    BY <2>1, <2>3 DEF CreatedTopDown
<1>13. SharesFound'
  <2>1. \A j \in Items : at'[j] = "over" => at[j] = "over"
    BY <1>6
  <2> QED
    BY <1>1, <1>6, <2>1 DEF JobCore, SharesFound
<1>14. DriverShape'
  BY <1>1, <1>2 DEF DriverShape, Ended
<1>15. RecheckShape'
  BY <1>1, <1>2 DEF JobCore, RecheckShape
<1>16. NamesInOrder'
  BY <1>1 DEF JobCore, NamesInOrder
<1> QED
  BY <1>5, <1>7, <1>8, <1>9, <1>10, <1>11, <1>12, <1>13, <1>14, <1>15, <1>16
  DEF JobCore, TypeOK

-----------------------------------------------------------------------------
(* Every step together. *)

LEMMA InitHasCore == Init => JobCore
<1> SUFFICES ASSUME Init PROVE JobCore
  OBVIOUS
<1>1. ControlTypes
  BY DEF Init, ControlTypes, Core
<1>2. TaskTypes
  <2>1. name \in [Items -> [is : Names, tries : 0 .. NAME_ATTEMPTS]]
    <3>1. (\A i \in Items : PlannedName[i] \in Names) /\ 0 \in 0 .. NAME_ATTEMPTS
      BY PlanAssumption
    <3>2. name = [i \in Items |-> [is |-> PlannedName[i], tries |-> 0]]
      BY DEF Init
    <3> QED
      BY <3>1, <3>2
  <2>2. DOMAIN chunk = Files /\ \A f \in Files : chunk[f] \in [1 .. Chunks[f] -> Stages]
    BY DEF Init, Stages
  <2> QED
    BY <2>1, <2>2 DEF Init, TaskTypes, LockStages, HasLock
<1>3. ServerTypes
  BY DEF Init, ServerTypes
<1>4. \A i \in Items : at[i] \in {"planned", "ready"} /\ (at[i] = "ready" => i \in TopLevel)
  BY DEF Init
<1>5. \A i \in Items : i \in Holders
  BY DEF Holders
<1>6. TaskShape
  <2> SUFFICES ASSUME NEW i \in Items PROVE ShapeOf(i)
    BY DEF TaskShape
  <2>1. i \in Files => at[i] = "planned"
    BY PlanAssumption DEF Init
  <2>2. held[i] = "none" /\ (i \in Files => \A c \in 1 .. Chunks[i] : OpOut(chunk[i][c]))
    BY <1>5 DEF Init, OpOut
  <2> QED
    BY <1>4, <2>1, <2>2 DEF ShapeOf, Idle
<1>7. DriverShape
  BY <1>4 DEF Init, DriverShape, InFlight, Ended
<1>8. ReportShape
  BY <1>4 DEF Init, ReportShape, ReportOf
<1>9. CreatedTopDown
  BY <1>4, NothingAboveTop DEF Init, CreatedTopDown, Begun
<1>10. SharesFound
  BY DEF Init, SharesFound
<1>11. RecheckShape
  BY DEF Init, RecheckShape
<1>12. PausedIsQuiet
  BY DEF Init, PausedIsQuiet
<1>13. NamesInOrder
  <2>1. \A i \in Items : PlannedName[i] \in Nat /\ name[i].is = PlannedName[i] /\ name[i].tries = 0
    <3>1. \A i \in Items : PlannedName[i] \in Nat
      BY PlanAssumption DEF Names
    <3>2. \A i \in Items : name[i].is = PlannedName[i] /\ name[i].tries = 0
      BY DEF Init
    <3> QED
      BY <3>1, <3>2
  <2>2. NAME_ATTEMPTS \in Nat /\ NAME_ATTEMPTS > 0
    BY PlanAssumption
  <2> QED
    BY <2>1, <2>2 DEF NamesInOrder
<1> QED
  BY <1>1, <1>2, <1>3, <1>6, <1>7, <1>8, <1>9, <1>10, <1>11, <1>12, <1>13 DEF JobCore, TypeOK

LEMMA NextKeepsCore == ASSUME JobCore, [Next]_vars PROVE JobCore'
<1>1. CASE Controls \/ LeaseLost \/ ForeignTakes \/ ForeignLeaves \/ UserShares
  BY <1>1, ControlsKeepsCore, LeaseLostKeepsCore, ForeignTakesKeepsCore,
     ForeignLeavesKeepsCore, UserSharesKeepsCore
<1>2. CASE \E h \in Holders : OpFinished(h)
  BY <1>2, OpFinishedKeepsCore
<1>3. CASE \E i \in Items : ItemSteps(i) \/ ItemLockFails(i)
  BY <1>3, ItemWaitsKeeps, ItemStoppedKeeps, ItemPausedKeeps, ItemLockedKeeps,
     ItemChecksKeeps, ItemUnconfirmedKeeps, FileWritesKeepsCore, DirWritesKeepsCore,
     DirColorsKeeps, ItemPropagatesKeeps, ItemLockFailsKeeps
  DEF ItemSteps
<1>4. CASE \E f \in Files : FileSteps(f) \/ FileTransferFails(f)
  BY <1>4, FileStartsKeeps, FileVerifiesKeeps, FileStopsKeeps, FileCopiedKeeps,
     FileTransferFailsKeeps
  DEF FileSteps
<1>5. CASE \E f \in Files : \E c \in 1 .. Chunks[f] : ChunkSteps(f, c)
  BY <1>5, ReservesChunkKeeps, ChunkWaitsKeeps, ChunkMovesKeeps, ChunkOpFinishedKeeps
  DEF ChunkSteps
<1>6. CASE DriverSteps \/ DriverLockFails
  BY <1>6, DriverParksKeepsCore, DriverFetchesKeepsCore, DriverLoopsKeepsCore,
     DriverWakesKeepsCore, DriverWaitsKeepsCore, DriverLocksKeepsCore,
     DriverPropagatesKeepsCore, JobFinishesKeepsCore, DriverLockFailsKeepsCore,
     DriverCollectsKeepsCore
  DEF DriverSteps
<1>7. CASE UNCHANGED vars
  <2>1. /\ UNCHANGED <<ctl, core, phase, pc, fatal, at, held, stale, chunk, name>>
        /\ UNCHANGED <<told, targets, current, left, unshared, made, entry, shared, inShare, foreign>>
    BY <1>7 DEF vars, control, report, recheck, server
  <2>2. ControlTypes' /\ PausedIsQuiet'
    BY <2>1 DEF JobCore, TypeOK, ControlTypes, PausedIsQuiet
  <2>3. TaskTypes'
    BY <2>1 DEF JobCore, TypeOK, TaskTypes, HasLock
  <2>4. ServerTypes'
    BY <2>1 DEF JobCore, TypeOK, ServerTypes
  <2>5. DriverShape'
    BY <2>1 DEF JobCore, DriverShape, InFlight, Ended
  <2>6. RecheckShape'
    BY <2>1 DEF JobCore, RecheckShape, CreatedTops, Shared
  <2> QED
    BY <2>1, <2>2, <2>3, <2>4, <2>5, <2>6, DriverStaysKeeps
    DEF DriverStays, JobCore, TypeOK, SharesFound
<1> QED
  BY <1>1, <1>2, <1>3, <1>4, <1>5, <1>6, <1>7 DEF Next

(* What the job relies on holds whatever its names are: the driver and the   *)
(* tasks agree on what is in flight, nothing is begun below a directory that  *)
(* is not created, shares found are kept, a paused job is quiet              *)
(* (create_dirs, copy_files, recheck_targets, update_paused)                 *)
THEOREM CoreHolds == Spec => []JobCore
<1>1. JobCore /\ [Next]_vars => JobCore'
  BY NextKeepsCore
<1> QED
  BY <1>1, InitHasCore, PTL DEF Spec

LEMMA CoreIsReported == JobCore => CreatedIsReported
<1> SUFFICES ASSUME JobCore, Ended
             PROVE  /\ \A i \in Items : made[i] # "no" => told[i] # "none"
                    /\ \A i \in Items : told[i] = "done" => made[i] = "new"
                    /\ OpsInFlight(held, chunk) = 0
  BY DEF CreatedIsReported
<1>1. pc = "over" /\ InFlight = {} /\ held[Driver] = "none"
  BY DEF JobCore, DriverShape
<1>2. \A i \in Items : Idle(i)
  BY <1>1 DEF InFlight, Idle
<1>3. \A i \in Items : made[i] # "no" => told[i] # "none"
  BY <1>2 DEF Idle, JobCore, ReportShape, ReportOf
<1>4. \A i \in Items : told[i] = "done" => made[i] = "new"
  BY DEF JobCore, ReportShape, ReportOf
<1>5. \A h \in Holders : held[h] = "none"
  BY <1>1, <1>2 DEF Holders, JobCore, TaskShape, ShapeOf
<1>6. \A f \in Files : \A c \in 1 .. Chunks[f] : OpOut(chunk[f][c])
  BY <1>2 DEF Items, JobCore, TaskShape, ShapeOf
<1> QED
  BY <1>3, <1>4, <1>5, <1>6, NothingInFlight

(* When the job has ended, cancelled or stopped or not, whatever it made was  *)
(* reported, whatever it reported done is there, and nothing is in flight     *)
(* (finalize_new_file, create_dirs, copy_files)                               *)
THEOREM ReportHolds == Spec => []CreatedIsReported
  BY CoreHolds, CoreIsReported, PTL

LEMMA CoreKeepsShares == JobCore => SharesAreKept
<1> SUFFICES ASSUME JobCore, Ended, NEW i \in Items, told[i] = "done",
                    targets \/ (phase = "done" /\ current = "shared")
             PROVE  \/ i \in inShare \cup unshared
                    \/ ~targets /\ \E j \in unshared : i \in Below(j)
  BY DEF SharesAreKept
<1>1. CASE targets
  BY <1>1 DEF JobCore, SharesFound
<1>2. CASE ~targets
  <2>1. phase = "done" /\ current = "shared" /\ made[i] = "new"
    BY <1>2 DEF JobCore, ReportShape, ReportOf
  <2>2. PICK t \in CreatedTops : i \in {t} \cup Below(t)
    BY DEF JobCore, CreatedTopDown
  <2>3. t \in unshared \/ Shared(t)
    BY <1>2, <2>1 DEF JobCore, RecheckShape
  <2> QED
    BY <1>2, <2>1, <2>2, <2>3 DEF Shared
<1> QED
  BY <1>1, <1>2

(* What the job reports done in a shared destination is in the share or       *)
(* reported not to be, for shares found at the start and, if the job got to   *)
(* its end, for those found there (register, create_dir, recheck_targets)     *)
THEOREM SharesHold == Spec => []SharesAreKept
  BY CoreHolds, CoreKeepsShares, PTL

LEMMA CoreIsQuiet == JobCore => PausedHoldsNothing
<1> SUFFICES ASSUME JobCore, RunState(core) = "paused"
             PROVE  ~(\E h \in Holders : HasLock(h)) /\ MemoryInUse = 0
  BY DEF PausedHoldsNothing
<1>1. core.paused
  BY DEF RunState, JobCore, TypeOK, ControlTypes, Core
<1>2. ~(\E h \in Holders : HasLock(h))
  BY <1>1 DEF JobCore, PausedIsQuiet, HasLock
<1>3. ASSUME NEW x \in AllChunks PROVE ~HasMemory(chunk[x[1]][x[2]])
  <2>1. PICK f \in Files : x \in {f} \X (1 .. Chunks[f])
    BY DEF AllChunks
  <2>2. x[1] = f /\ x[2] \in 1 .. Chunks[f]
    BY <2>1
  <2> QED
    BY <1>1, <2>2 DEF JobCore, PausedIsQuiet, OpOut, HasMemory
<1>4. {x \in AllChunks : HasMemory(chunk[x[1]][x[2]])} = {}
  BY <1>3
<1> QED
  BY <1>2, <1>4, FS_EmptySet DEF MemoryInUse

(* A job reported paused holds no drive lock and no memory                    *)
(* (RunState::Paused, update_paused)                                          *)
THEOREM QuietHolds == Spec => []PausedHoldsNothing
  BY CoreHolds, CoreIsQuiet, PTL

-----------------------------------------------------------------------------
(* The names.  Keep-both names of a file and of another item of Dest are
   apart: of two copies that go for one name the server makes the second a
   version of the first. *)

NamesApart ==
    \A i \in Files \cap TopLevel, j \in TopLevel :
        i # j => \/ PlannedName[i] + NAME_ATTEMPTS <= PlannedName[j]
                 \/ PlannedName[j] + NAME_ATTEMPTS <= PlannedName[i]

LEMMA NamesDiffer ==
    ASSUME JobCore, NamesApart, NEW i \in Files \cap TopLevel, NEW j \in TopLevel, i # j
    PROVE  name[i].is # name[j].is
<1>1. /\ i \in Items /\ j \in Items /\ PlannedName[i] \in Nat /\ PlannedName[j] \in Nat
      /\ NAME_ATTEMPTS \in Nat
  BY PlanAssumption DEF TopLevel, Names
<1>2. /\ name[i].is = PlannedName[i] + name[i].tries /\ name[j].is = PlannedName[j] + name[j].tries
      /\ name[i].tries < NAME_ATTEMPTS /\ name[j].tries < NAME_ATTEMPTS
  BY <1>1 DEF JobCore, NamesInOrder
<1>3. name[i].tries \in Nat /\ name[j].tries \in Nat
  BY <1>1 DEF JobCore, TypeOK, TaskTypes
<1> QED
  BY <1>1, <1>2, <1>3 DEF NamesApart

(* A step that lands an item leaves the names of the others alone *)
LEMMA LandingKeepsNames ==
    ASSUME JobCore, NamesApart, NameIsFree, NEW i \in Items,
           \A h \in Holders : h # i => held'[h] = held[h] /\ (h \in stale <=> h \in stale'),
           held[i] = "good", (held'[i] = held[i] /\ UNCHANGED stale) \/ held'[i] = "leaving",
           UNCHANGED foreign, \A j \in Items : j # i => name'[j] = name[j] /\ at'[j] = at[j],
           i \in Files => at'[i] # "write",
           \A n \in Names : entry'[n] = entry[n] \/ (i \in TopLevel /\ n = name[i].is)
    PROVE  NameIsFree'
<1>1. foreign' = "now" => ~Covered'
  <2>1. \A h \in Holders : HasLock(h)' /\ h \notin stale' => HasLock(h) /\ h \notin stale
    BY DEF HasLock
  <2> QED
    BY <2>1 DEF NameIsFree, Covered
<1>2. ASSUME NEW f \in Files \cap TopLevel, at'[f] = "write"
      PROVE  held'[f] = "good" /\ (f \notin stale' => entry'[name'[f].is] = "free")
  <2>1. f \in Items /\ f \in Holders /\ f # i
    BY <1>2 DEF Items, Holders
  <2>2. at[f] = "write" /\ held'[f] = held[f] /\ name'[f] = name[f] /\ (f \in stale <=> f \in stale')
    BY <1>2, <2>1
  <2>3. name[f].is \in Names /\ (i \in TopLevel => name[f].is # name[i].is)
    BY <2>1, NamesDiffer DEF JobCore, TypeOK, TaskTypes
  <2> QED
    BY <2>2, <2>3 DEF NameIsFree
<1> QED
  BY <1>1, <1>2 DEF NameIsFree

LEMMA LandsOn ==
    ASSUME JobCore, NEW i \in Items, NEW as, Lands(i, as)
    PROVE  /\ \A n \in Names : entry'[n] = entry[n] \/ (i \in TopLevel /\ n = name[i].is)
           /\ \A j \in Items : j # i => made'[j] = made[j]
           /\ made'[i] = as /\ UNCHANGED foreign
  BY DEF Lands, JobCore, TypeOK, ServerTypes

(* The name was free under the lease the file is registered under: it is a    *)
(* new file                                                                   *)
LEMMA FileWritesKeepsNames ==
    ASSUME JobCore, NamesApart, NEW i \in Items, FileWrites(i) PROVE NamesKept
<1> SUFFICES ASSUME NameIsFree, NewFilesAreNew PROVE NameIsFree' /\ NewFilesAreNew'
  BY DEF NamesKept
<1>1. /\ i \in Holders /\ i \in Files /\ at[i] = "write" /\ held[i] = "good" /\ i \notin stale
      /\ UNCHANGED name
  BY DEF FileWrites, Holders
<1>2. ~Taken(i)
  BY <1>1 DEF NameIsFree, Taken
<1>3. Lands(i, "new") \/ UNCHANGED server
  BY <1>2 DEF FileWrites
<1>4. /\ \A n \in Names : entry'[n] = entry[n] \/ (i \in TopLevel /\ n = name[i].is)
      /\ \A j \in Items : j # i => made'[j] = made[j]
      /\ made'[i] \in {made[i], "new"} /\ UNCHANGED foreign
  BY <1>3, LandsOn DEF server
<1>5. Answered(i) \/ (Leave(i) /\ Fails(i))
  BY DEF FileWrites
<1>6. /\ at' = [at EXCEPT ![i] = at'[i]] /\ at'[i] # "write"
      /\ UNCHANGED <<held, stale>> \/ Leave(i)
  BY <1>5, AnsweredIs, FailsIs
<1>7. /\ \A h \in Holders : h # i => held'[h] = held[h] /\ (h \in stale <=> h \in stale')
      /\ (held'[i] = held[i] /\ UNCHANGED stale) \/ held'[i] = "leaving"
  BY <1>1, <1>6 DEF Leave, JobCore, TypeOK, TaskTypes
<1>8. \A j \in Items : j # i => name'[j] = name[j] /\ at'[j] = at[j]
  BY <1>1, <1>6 DEF JobCore, TypeOK, TaskTypes
<1>9. NameIsFree'
  BY <1>1, <1>4, <1>6, <1>7, <1>8, LandingKeepsNames
<1> QED
  BY <1>4, <1>9 DEF NewFilesAreNew, Items

LEMMA DirWritesKeepsNames ==
    ASSUME JobCore, NamesApart, NEW i \in Items, DirWrites(i) PROVE NamesKept
<1> SUFFICES ASSUME NameIsFree, NewFilesAreNew PROVE NameIsFree' /\ NewFilesAreNew'
  BY DEF NamesKept
<1>1. i \in Holders /\ i \in Dirs /\ i \notin Files /\ held[i] = "good"
  BY PlanAssumption DEF DirWrites, Holders
<1>2. Lands(i, "new") \/ UNCHANGED server
  BY DEF DirWrites
<1>3. /\ \A n \in Names : entry'[n] = entry[n] \/ (i \in TopLevel /\ n = name[i].is)
      /\ \A j \in Items : j # i => made'[j] = made[j]
      /\ UNCHANGED foreign
  BY <1>2, LandsOn DEF server
<1>4. \/ Answered(i) /\ UNCHANGED name
      \/ Leave(i) /\ Fails(i) /\ UNCHANGED name
      \/ i \in TopLevel /\ NextName(i, UnderLock(i))
  BY DEF DirWrites, Taken
<1>5. /\ \E a : at' = [at EXCEPT ![i] = a]
      /\ \A j \in Items : j # i => name'[j] = name[j]
      /\ UNCHANGED <<held, stale>> \/ Leave(i)
  BY <1>4, AnsweredIs, FailsIs, NextNameIs DEF Drops
<1>6. /\ \A h \in Holders : h # i => held'[h] = held[h] /\ (h \in stale <=> h \in stale')
      /\ (held'[i] = held[i] /\ UNCHANGED stale) \/ held'[i] = "leaving"
  BY <1>1, <1>5 DEF Leave, JobCore, TypeOK, TaskTypes
<1>7. \A j \in Items : j # i => name'[j] = name[j] /\ at'[j] = at[j]
  BY <1>5 DEF JobCore, TypeOK, TaskTypes
<1>8. NameIsFree'
  BY <1>1, <1>3, <1>6, <1>7, LandingKeepsNames
<1> QED
  BY <1>1, <1>3, <1>8 DEF NewFilesAreNew, Items

LEMMA NobodyMovesNames ==
    ASSUME TaskTypes, UNCHANGED <<held, name, entry, foreign, made, stale>>,
           \A f \in Files \cap TopLevel : at'[f] = "write" => at[f] = "write"
    PROVE  NamesKept
<1>1. held' = [held EXCEPT ![Driver] = held'[Driver]]
  BY DEF TaskTypes
<1> QED
  BY <1>1, DriverIs, HolderMoves

LEMMA DriverMovesNames ==
    ASSUME TaskTypes, held' = [held EXCEPT ![Driver] = held'[Driver]],
           UNCHANGED <<name, entry, foreign, made>>,
           UNCHANGED stale \/ (stale' = stale \ {Driver} /\ held'[Driver] = "leaving"),
           foreign = "now" /\ held'[Driver] \in {"got", "good"} => held[Driver] \in {"got", "good"},
           \A f \in Files \cap TopLevel : at'[f] = "write" => at[f] = "write"
    PROVE  NamesKept
<1>1. \A f \in Files : f # Driver
  BY PlanAssumption DEF Items
<1> QED
  BY <1>1, DriverIs, HolderMoves

LEMMA ControlsKeepsNames == ASSUME JobCore, Controls PROVE NamesKept
  BY NobodyMovesNames DEF JobCore, TypeOK, Controls, server, report, recheck

LEMMA UserSharesKeepsNames == ASSUME JobCore, UserShares PROVE NamesKept
  BY NobodyMovesNames DEF JobCore, TypeOK, UserShares, control, report, recheck, server

LEMMA DriverParksKeepsNames == ASSUME JobCore, DriverParks PROVE NamesKept
  BY NobodyMovesNames DEF JobCore, TypeOK, DriverParks, control, server, report, recheck

LEMMA DriverFetchesKeepsNames == ASSUME JobCore, DriverFetches PROVE NamesKept
  BY NobodyMovesNames DEF JobCore, TypeOK, DriverFetches, server, recheck

LEMMA DriverWakesKeepsNames == ASSUME JobCore, DriverWakes PROVE NamesKept
  BY NobodyMovesNames DEF JobCore, TypeOK, DriverWakes, control, server, report, recheck

LEMMA JobFinishesKeepsNames == ASSUME JobCore, JobFinishes PROVE NamesKept
  BY NobodyMovesNames DEF JobCore, TypeOK, JobFinishes, control, server, report, recheck

LEMMA LeaseLostKeepsNames == ASSUME JobCore, LeaseLost PROVE NamesKept
<1> SUFFICES ASSUME NameIsFree, NewFilesAreNew PROVE NameIsFree' /\ NewFilesAreNew'
  BY DEF NamesKept
<1>1. stale' = {h \in Holders : HasLock(h)} /\ UNCHANGED <<at, held, name, entry, made>>
  BY DEF LeaseLost
<1>2. ~Covered'
  BY <1>1 DEF Covered, HasLock
<1>3. \A f \in Files \cap TopLevel : at[f] = "write" => held[f] = "good" /\ f \in stale'
  BY <1>1 DEF NameIsFree, HasLock, Holders, Items
<1> QED
  BY <1>1, <1>2, <1>3 DEF NameIsFree, NewFilesAreNew

LEMMA ForeignTakesKeepsNames == ASSUME JobCore, ForeignTakes PROVE NamesKept
<1> SUFFICES ASSUME NameIsFree, NewFilesAreNew PROVE NameIsFree' /\ NewFilesAreNew'
  BY DEF NamesKept
<1>1. ~Covered /\ UNCHANGED <<at, held, stale, name, entry, made>>
  BY DEF ForeignTakes
<1>2. ~Covered'
  BY <1>1 DEF Covered, HasLock
<1> QED
  BY <1>1, <1>2 DEF NameIsFree, NewFilesAreNew

LEMMA ForeignLeavesKeepsNames == ASSUME JobCore, ForeignLeaves PROVE NamesKept
<1> SUFFICES ASSUME NameIsFree, NewFilesAreNew PROVE NameIsFree' /\ NewFilesAreNew'
  BY DEF NamesKept
<1>1. foreign = "now" /\ foreign' = "over" /\ UNCHANGED <<at, held, stale, name, made>>
  BY DEF ForeignLeaves
<1>2. \A f \in Files \cap TopLevel : at[f] = "write" => held[f] = "good" /\ f \in stale
  BY <1>1 DEF NameIsFree, Covered, HasLock, Holders, Items
<1> QED
  BY <1>1, <1>2 DEF NameIsFree, NewFilesAreNew

LEMMA OpFinishedKeepsNames == ASSUME JobCore, NEW h \in Holders, OpFinished(h) PROVE NamesKept
<1>1. /\ held' = [held EXCEPT ![h] = held'[h]] /\ held[h] = "leaving" /\ held'[h] = "none"
  BY DEF OpFinished, JobCore, TypeOK, TaskTypes
<1> QED
  BY <1>1, HolderMoves DEF OpFinished, server, JobCore, TypeOK

LEMMA DriverWaitsKeepsNames == ASSUME JobCore, DriverWaits PROVE NamesKept
<1>1. held' = [held EXCEPT ![Driver] = held'[Driver]] /\ held'[Driver] = "waiting"
  BY DriverIs DEF DriverWaits, StartWait, JobCore, TypeOK, TaskTypes
<1> QED
  BY <1>1, DriverIs, HolderMoves DEF DriverWaits, server, JobCore, TypeOK

LEMMA DriverPropagatesKeepsNames == ASSUME JobCore, DriverPropagates PROVE NamesKept
<1>1. UNCHANGED <<at, name, entry, foreign, made>>
  BY DEF DriverPropagates
<1>2. UNCHANGED <<held, stale>> \/ Leave(Driver)
  BY DEF DriverPropagates, Unconfirmed
<1>3. CASE UNCHANGED <<held, stale>>
  BY <1>1, <1>3, NobodyMovesNames DEF JobCore, TypeOK
<1>4. CASE Leave(Driver)
  <2>1. /\ held' = [held EXCEPT ![Driver] = held'[Driver]] /\ held'[Driver] = "leaving"
        /\ stale' = stale \ {Driver}
    BY <1>4, DriverIs, LeaveIs
  <2> QED
    BY <1>1, <2>1, DriverIs, DriverMovesNames DEF JobCore, TypeOK
<1> QED
  BY <1>2, <1>3, <1>4

LEMMA DriverLockFailsKeepsNames == ASSUME JobCore, DriverLockFails PROVE NamesKept
<1>1. UNCHANGED <<at, name, entry, foreign, made>> /\ Leave(Driver)
  BY DEF DriverLockFails, LockFails, server
<1>2. /\ held' = [held EXCEPT ![Driver] = held'[Driver]] /\ held'[Driver] = "leaving"
      /\ stale' = stale \ {Driver}
  BY <1>1, DriverIs, LeaveIs
<1> QED
  BY <1>1, <1>2, DriverIs, DriverMovesNames DEF JobCore, TypeOK

LEMMA DriverLocksKeepsNames == ASSUME JobCore, DriverLocks PROVE NamesKept
<1>1. UNCHANGED <<name, entry, foreign, made>>
  BY DEF DriverLocks, server
<1>2. \A f \in Files \cap TopLevel : at'[f] = "write" => at[f] = "write"
  <2>1. UNCHANGED at \/ (Spawns /\ phase \in {"dirs", "files"})
    BY <1>1 DEF DriverLocks, JobCore, DriverShape
  <2>2. \A f \in Files \cap TopLevel : f \in Items /\ f \notin Dirs
    BY PlanAssumption DEF Items
  <2> QED
    BY <2>1, <2>2, SpawnsIs
<1>3. Granted(Driver) \/ Keeps(Driver) \/ Leave(Driver)
  BY DEF DriverLocks, StopEndsWait, PauseEndsWait
<1>4. /\ held' = [held EXCEPT ![Driver] = held'[Driver]]
      /\ foreign = "now" /\ held'[Driver] \in {"got", "good"} => held[Driver] \in {"got", "good"}
  BY <1>3, DriverIs DEF Granted, Keeps, Leave, JobCore, TypeOK, TaskTypes
<1>5. UNCHANGED stale \/ (stale' = stale \ {Driver} /\ held'[Driver] = "leaving")
  BY DriverIs DEF DriverLocks, StopEndsWait, PauseEndsWait, Leave, JobCore, TypeOK, TaskTypes
<1> QED
  BY <1>1, <1>2, <1>4, <1>5, DriverIs, DriverMovesNames DEF JobCore, TypeOK

LEMMA DriverLoopsKeepsNames == ASSUME JobCore, DriverLoops PROVE NamesKept
<1>1. UNCHANGED <<name, entry, foreign, made>> /\ pc = "top"
  BY DEF DriverLoops, server
<1>2. \A f \in Files \cap TopLevel : at'[f] = "write" => at[f] = "write"
  <2>1. UNCHANGED at \/ (Spawns /\ phase \in {"dirs", "files"})
    BY <1>1 DEF DriverLoops, JobCore, DriverShape
  <2>2. \A f \in Files \cap TopLevel : f \in Items /\ f \notin Dirs
    BY PlanAssumption DEF Items
  <2> QED
    BY <2>1, <2>2, SpawnsIs
<1>3. UNCHANGED <<held, stale>> \/ Leave(Driver)
  BY DEF DriverLoops, DropsWarmLock
<1>4. CASE UNCHANGED <<held, stale>>
  BY <1>1, <1>2, <1>4, NobodyMovesNames DEF JobCore, TypeOK
<1>5. CASE Leave(Driver)
  <2>1. /\ held' = [held EXCEPT ![Driver] = held'[Driver]] /\ held'[Driver] = "leaving"
        /\ stale' = stale \ {Driver}
    BY <1>5, DriverIs, LeaveIs
  <2> QED
    BY <1>1, <1>2, <2>1, DriverIs, DriverMovesNames DEF JobCore, TypeOK
<1> QED
  BY <1>3, <1>4, <1>5

LEMMA DriverCollectsKeepsNames == ASSUME JobCore, NEW i \in Items, DriverCollects(i) PROVE NamesKept
<1>1. UNCHANGED <<held, stale, name, entry, foreign, made>> /\ at[i] # "write"
  BY DEF DriverCollects, Finished, server
<1>2. ASSUME NEW f \in Files \cap TopLevel, at'[f] = "write" PROVE at[f] = "write"
  <2>1. f \in Items
    BY DEF Items
  <2>2. at'[f] \in {at[f], "gone", "ready"}
    BY <2>1 DEF DriverCollects, Goes, JobCore, TypeOK, TaskTypes
  <2> QED
    BY <1>2, <2>2
<1> QED
  BY <1>1, <1>2, NobodyMovesNames DEF JobCore, TypeOK

LEMMA NextKeepsNames == ASSUME JobCore, NamesApart, [Next]_vars PROVE NamesKept
<1>1. CASE Controls \/ LeaseLost \/ ForeignTakes \/ ForeignLeaves \/ UserShares
  BY <1>1, ControlsKeepsNames, LeaseLostKeepsNames, ForeignTakesKeepsNames,
     ForeignLeavesKeepsNames, UserSharesKeepsNames
<1>2. CASE \E h \in Holders : OpFinished(h)
  BY <1>2, OpFinishedKeepsNames
<1>3. CASE \E i \in Items : ItemSteps(i) \/ ItemLockFails(i)
  BY <1>3, ItemWaitsKeeps, ItemStoppedKeeps, ItemPausedKeeps, ItemLockedKeeps,
     ItemChecksKeeps, ItemUnconfirmedKeeps, FileWritesKeepsNames, DirWritesKeepsNames,
     DirColorsKeeps, ItemPropagatesKeeps, ItemLockFailsKeeps
  DEF ItemSteps
<1>4. CASE \E f \in Files : FileSteps(f) \/ FileTransferFails(f)
  BY <1>4, FileStartsKeeps, FileVerifiesKeeps, FileStopsKeeps, FileCopiedKeeps,
     FileTransferFailsKeeps
  DEF FileSteps
<1>5. CASE \E f \in Files : \E c \in 1 .. Chunks[f] : ChunkSteps(f, c)
  BY <1>5, ReservesChunkKeeps, ChunkWaitsKeeps, ChunkMovesKeeps, ChunkOpFinishedKeeps
  DEF ChunkSteps
<1>6. CASE DriverSteps \/ DriverLockFails
  BY <1>6, DriverParksKeepsNames, DriverFetchesKeepsNames, DriverLoopsKeepsNames,
     DriverWakesKeepsNames, DriverWaitsKeepsNames, DriverLocksKeepsNames,
     DriverPropagatesKeepsNames, JobFinishesKeepsNames, DriverLockFailsKeepsNames,
     DriverCollectsKeepsNames
  DEF DriverSteps
<1>7. CASE UNCHANGED vars
  BY <1>7, NobodyMovesNames DEF vars, server, JobCore, TypeOK
<1> QED
  BY <1>1, <1>2, <1>3, <1>4, <1>5, <1>6, <1>7 DEF Next

(* The whole invariant of the job, if the names its items may take in the     *)
(* destination are apart: besides what it relies on, a name that was free     *)
(* under the lease is free when the file is registered, and a copied file is  *)
(* a new file, never a version of one another client put there (register,     *)
(* NameRetry)                                                                 *)
THEOREM InvariantHolds == NamesApart => (Spec => []JobInvariant)
<1> SUFFICES ASSUME NamesApart PROVE Spec => []JobInvariant
  OBVIOUS
<1> DEFINE I == JobCore /\ NameIsFree /\ NewFilesAreNew
<1>1. Init => I
  <2> SUFFICES ASSUME Init PROVE I
    OBVIOUS
  <2>1. NameIsFree
    BY DEF Init, NameIsFree, Items
  <2>2. NewFilesAreNew
    BY DEF Init, NewFilesAreNew, Items
  <2> QED
    BY <2>1, <2>2, InitHasCore
<1>2. I /\ [Next]_vars => I'
  BY NextKeepsCore, NextKeepsNames DEF NamesKept
<1>3. I => JobInvariant
  BY CoreIsQuiet DEF JobInvariant
<1> HIDE DEF I
<1> QED
  BY <1>1, <1>2, <1>3, PTL DEF Spec

=============================================================================
