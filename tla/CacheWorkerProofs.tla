-------------------------- MODULE CacheWorkerProofs --------------------------
(* Proofs about CacheWorker, for any roots, kinds of changes, calls and       *)
(* bounds.                                                                    *)
EXTENDS CacheWorker, WellFoundedInduction, TLAPS

USE BoundsAssumption DEF control

-----------------------------------------------------------------------------
(* Least and greatest ids. *)

Less == {s \in Nat \X Nat : s[1] < s[2]}

LEMMA LessIsWellFounded == IsWellFoundedOn(Less, Nat)
  BY NatLessThanWellFounded DEF OpToRel, Less

LEMMA MinIs ==
    ASSUME NEW S, S \subseteq Nat, S # {}
    PROVE  Min(S) \in S /\ \A y \in S : Min(S) <= y
<1>1. PICK m \in S : \A y \in S : ~(<<y, m>> \in Less)
  BY LessIsWellFounded, WFMin
<1>2. \A y \in S : ~(y < m)
  BY <1>1 DEF Less
<1>3. m \in Nat /\ \A y \in S : m <= y
  BY <1>2
<1> QED
  BY <1>3 DEF Min

LEMMA MaxIs ==
    ASSUME NEW n \in Nat, NEW S, S \subseteq {None} \cup 0..n, S # {}
    PROVE  Max(S) \in S /\ \A y \in S : y <= Max(S)
<1> DEFINE T == {n - x : x \in S}
<1>1. \A x \in S : x \in Int /\ x <= n /\ n - x \in Nat
  <2> TAKE x \in S
  <2>1. x = -1 \/ x \in 0..n
    BY DEF None
  <2> QED
    BY <2>1
<1>0. T \subseteq Nat /\ T # {}
  BY <1>1
<1>2. /\ Min(T) \in T
      /\ \A y \in T : Min(T) <= y
  BY <1>0, MinIs
<1>3. PICK x \in S : Min(T) = n - x
  BY <1>2
<1>4. \A y \in S : x >= y
  <2> TAKE y \in S
  <2>1. n - x <= n - y
    BY <1>2, <1>3
  <2> QED
    BY <2>1, <1>1
<1> HIDE DEF T
<1>5. Max(S) \in S /\ \A y \in S : Max(S) >= y
  BY <1>4 DEF Max
<1> QED
  BY <1>5, <1>1

LEMMA FollowIs ==
    ASSUME NEW n \in Nat, NEW c \in [frontier : {None} \cup 0..n, broken : BOOLEAN],
           NEW ids, ids \subseteq 1..n
    PROVE  /\ Follow(c, ids) \in [frontier : {None} \cup 0..n, broken : BOOLEAN]
           /\ c.frontier <= Follow(c, ids).frontier
           /\ c.frontier # None => (c.frontier + 1)..Follow(c, ids).frontier \subseteq ids
           /\ c.broken => Follow(c, ids).broken
           /\ \A id \in ids : id <= Follow(c, ids).frontier \/ Follow(c, ids).broken
<1> DEFINE start == IF c.frontier = None /\ ids # {} THEN Min(ids) ELSE c.frontier
           reach == {m \in ids \cup {start} : m >= start /\ (start + 1)..m \subseteq ids}
           f     == IF c.broken THEN c.frontier ELSE Max(reach)
<1>0. c.frontier \in {None} \cup 0..n /\ c.broken \in BOOLEAN
  OBVIOUS
<1>1. start \in {None} \cup 0..n /\ c.frontier <= start /\ (c.frontier # None => start = c.frontier)
  <2>1. CASE c.frontier = None /\ ids # {}
    <3>1. Min(ids) \in ids
      BY <2>1, MinIs, ids \subseteq Nat
    <3>2. Min(ids) \in 1..n /\ start = Min(ids)
      BY <2>1, <3>1
    <3> QED
      BY <2>1, <3>2 DEF None
  <2>2. CASE ~(c.frontier = None /\ ids # {})
    BY <2>2, <1>0 DEF None
  <2> QED
    BY <2>1, <2>2
<1> HIDE DEF start
<1>2. start \in reach /\ reach \subseteq {None} \cup 0..n
  <2>1. (start + 1)..start = {} /\ start >= start
    BY <1>1 DEF None
  <2>2. ids \subseteq 0..n
    OBVIOUS
  <2> QED
    BY <2>1, <2>2, <1>1
<1>3. /\ Max(reach) \in {None} \cup 0..n
      /\ start <= Max(reach) /\ (start + 1)..Max(reach) \subseteq ids
  <2>1. Max(reach) \in reach
    BY <1>2, MaxIs
  <2> QED
    BY <2>1, <1>2
<1> HIDE DEF reach
<1>4. /\ f \in {None} \cup 0..n /\ c.frontier <= f
      /\ c.frontier # None => (c.frontier + 1)..f \subseteq ids
  <2>1. CASE c.broken
    BY <2>1, <1>0 DEF None
  <2>2. CASE ~c.broken
    BY <2>2, <1>0, <1>1, <1>3 DEF None
  <2> QED
    BY <2>1, <2>2
<1> HIDE DEF f
<1>5. Follow(c, ids) = [frontier |-> f, broken |-> c.broken \/ \E id \in ids : id > f]
  BY DEF Follow, f, reach, start
<1>6. /\ Follow(c, ids).frontier = f
      /\ Follow(c, ids).broken = (c.broken \/ \E id \in ids : id > f)
  BY <1>5
<1>7. \A id \in ids : id <= f \/ \E x \in ids : x > f
  BY <1>4 DEF None
<1>8. (c.broken \/ \E id \in ids : id > f) \in BOOLEAN
  OBVIOUS
<1> QED
  BY <1>0, <1>4, <1>5, <1>6, <1>7, <1>8

-----------------------------------------------------------------------------
(* What holds whatever fails: the inductive part of ConsumedIsAccounted *)
CacheCore ==
    /\ ServerTypes /\ ChannelTypes /\ FlagTypes /\ DbTypes /\ WorkerTypes /\ DrainTypes
    /\ WorkerShape /\ SlowIsAccounted


LEMMA ElementsAre == ASSUME NEW S, NEW q \in Seq(S) PROVE \A i \in 1..Len(q) : q[i] \in S
  OBVIOUS

LEMMA LogIs ==
    ASSUME CacheCore
    PROVE  /\ Len(log) \in Nat /\ log \in Seq([root : Roots, kind : Kinds])
           /\ \A id \in 1..Len(log) : log[id] \in [root : Roots, kind : Kinds]
           /\ watermark \in Int /\ cursor.frontier \in Int /\ listing.at \in Int
<1>1. Len(log) \in Nat /\ log \in Seq([root : Roots, kind : Kinds])
  BY DEF CacheCore, ServerTypes
<1>2. watermark \in Marks /\ cursor.frontier \in Marks /\ listing.at \in 0..Len(log)
  BY DEF CacheCore, DbTypes, DrainTypes, Cursor, Listing
<1>3. \A id \in 1..Len(log) : log[id] \in [root : Roots, kind : Kinds]
  BY <1>1, ElementsAre
<1>4. watermark \in Int /\ cursor.frontier \in Int /\ listing.at \in Int
  BY <1>1, <1>2 DEF Marks, None
<1> QED
  BY <1>1, <1>3, <1>4

LEMMA LogGrows ==
    ASSUME CacheCore, NEW r \in Roots, NEW kind \in Kinds, Change(r, kind)
    PROVE  /\ log' \in Seq([root : Roots, kind : Kinds])
           /\ Len(log) \in Nat /\ Len(log') = Len(log) + 1 /\ Len(log') <= MAX_ID
           /\ \A id \in 1..Len(log) : log'[id] = log[id]
<1>1. [root |-> r, kind |-> kind] \in [root : Roots, kind : Kinds]
  OBVIOUS
<1>2. log \in Seq([root : Roots, kind : Kinds]) /\ Len(log) \in Nat
  BY LogIs
<1> QED
  BY <1>1, <1>2 DEF Change

(* A message the socket hands over is in the channel, or has been shed *)
LEMMA RoutedIsTyped ==
    ASSUME CacheCore, NEW m \in Message, m.id <= Len(log), RouteThreadEvent(m), UNCHANGED log
    PROVE  ChannelTypes' /\ shed' \in BOOLEAN /\ latching' \in BOOLEAN
<1>1. chan \in Seq(Message) /\ Len(chan) \in Nat /\ Len(chan) <= EVENT_SHED_CAP
  BY DEF CacheCore, ChannelTypes
<1>2. CASE Len(chan) < EVENT_SHED_CAP
  <2>1. chan' = Append(chan, m) /\ UNCHANGED <<shed, latching>>
    BY <1>2 DEF RouteThreadEvent
  <2>2. /\ Append(chan, m) \in Seq(Message) /\ Len(Append(chan, m)) = Len(chan) + 1
        /\ \A i \in DOMAIN Append(chan, m) :
             Append(chan, m)[i] = m \/ (i \in DOMAIN chan /\ Append(chan, m)[i] = chan[i])
    BY <1>1
  <2> QED
    BY <1>1, <1>2, <2>1, <2>2 DEF CacheCore, ChannelTypes, FlagTypes
<1>3. CASE ~(Len(chan) < EVENT_SHED_CAP)
  BY <1>3 DEF RouteThreadEvent, CacheCore, ChannelTypes, FlagTypes
<1> QED
  BY <1>2, <1>3

LEMMA MessagesAre ==
    /\ ResyncSignal \in Message /\ Connected \in Message
    /\ ResyncSignal.id = 0 /\ Connected.id = 0
    /\ \A id \in Ids : Drive(id) \in Message /\ Drive(id).id = id
    /\ \A m \in Message : m.kind = "drive" => m.id \in Ids
  BY DEF Message, ResyncSignal, Connected, Drive

(* The ids of the drive events in the channel *)
LEMMA BurstIds ==
    ASSUME CacheCore
    PROVE  {chan[i].id : i \in {j \in DOMAIN chan : chan[j].kind = "drive"}} \subseteq 1..Len(log)
<1> SUFFICES ASSUME NEW i \in DOMAIN chan, chan[i].kind = "drive"
             PROVE  chan[i].id \in 1..Len(log)
  OBVIOUS
<1>1. chan[i] \in Message /\ chan[i].id <= Len(log)
  BY DEF CacheCore, ChannelTypes
<1>2. chan[i].id \in 1..MAX_ID
  BY <1>1, MessagesAre DEF Ids
<1> QED
  BY <1>1, <1>2, LogIs

LEMMA GapCheckIs == \A g, burst : GapCheckAfter(g, burst) \in {"awaiting", "due", g}
  BY DEF GapCheckAfter

LEMMA ChangeKeepsCore ==
    ASSUME CacheCore, NEW r \in Roots, NEW kind \in Kinds, Change(r, kind) PROVE CacheCore'
<1>1. /\ log' \in Seq([root : Roots, kind : Kinds])
      /\ Len(log) \in Nat /\ Len(log') = Len(log) + 1 /\ Len(log') <= MAX_ID
  BY LogGrows
<1>2. ServerTypes'
  <2>1. Len(log) + 1 \in 1..Len(log') /\ 1..Len(log) \subseteq 1..Len(log')
    BY <1>1
  <2>2. lagging' \subseteq 1..Len(log')
    BY <2>1 DEF CacheCore, ServerTypes, Change
  <2> QED
    BY <1>1, <2>2 DEF CacheCore, ServerTypes, Change, socket
<1>3. ChannelTypes'
  <2>1. chan \in Seq(Message) /\ \A i \in DOMAIN chan : chan[i] \in Message /\ chan[i].id \in Int
    BY DEF CacheCore, ChannelTypes, Message, Ids, ResyncSignal, Connected
  <2> QED
    BY <1>1, <2>1 DEF CacheCore, ChannelTypes, Change, socket, channel, db, memory, drain
<1>4. DbTypes'
  BY <1>1
  DEF CacheCore, DbTypes, ServerTypes, Marks, Record, Change, socket, channel, db, memory,
      drain
<1>5. DrainTypes'
  BY <1>1
  DEF CacheCore, DrainTypes, ServerTypes, DbTypes, Marks, Cursor, Listing, Change, socket,
      channel, db, memory, drain
<1>6. FlagTypes' /\ WorkerTypes' /\ WorkerShape' /\ SlowIsAccounted'
  BY DEF CacheCore, FlagTypes, WorkerTypes, WorkerShape, Resyncing, SlowIsAccounted, Batch,
         Change, socket, channel, db, memory, drain
<1> QED
  BY <1>2, <1>3, <1>4, <1>5, <1>6 DEF CacheCore

LEMMA SettleKeepsCore == ASSUME CacheCore, NEW id \in Ids, Settle(id) PROVE CacheCore'
<1>1. ServerTypes'
  BY DEF CacheCore, ServerTypes, Settle, socket, channel, db, memory, drain
<1>2. /\ ChannelTypes' /\ FlagTypes' /\ DbTypes' /\ WorkerTypes'
      /\ DrainTypes' /\ WorkerShape' /\ SlowIsAccounted'
  <2>1. ChannelTypes' /\ FlagTypes' /\ WorkerTypes'
    BY DEF CacheCore, ChannelTypes, FlagTypes, WorkerTypes, Settle, socket, channel, db,
           memory, drain
  <2>2. DbTypes'
    BY DEF CacheCore, DbTypes, Marks, Record, Settle, socket, channel, db, memory, drain
  <2>3. DrainTypes'
    BY DEF CacheCore, DrainTypes, Cursor, Listing, Marks, Settle, socket, channel, db,
           memory, drain
  <2>4. WorkerShape'
    BY DEF CacheCore, WorkerShape, Resyncing, Settle, socket, channel, db, memory, drain
  <2>5. SlowIsAccounted'
    BY DEF CacheCore, SlowIsAccounted, Batch, Settle, socket, channel, db, memory, drain
  <2> QED
    BY <2>1, <2>2, <2>3, <2>4, <2>5
<1> QED
  BY <1>1, <1>2 DEF CacheCore

LEMMA SubscribeKeepsCore == ASSUME CacheCore, Subscribe PROVE CacheCore'
<1>1. Connected \in Message /\ Connected.id <= Len(log)
  BY LogIs, MessagesAre
<1>2. ChannelTypes' /\ shed' \in BOOLEAN /\ latching' \in BOOLEAN
  BY <1>1, RoutedIsTyped DEF Subscribe, server
<1>3. ServerTypes'
  BY LogIs DEF CacheCore, ServerTypes, Subscribe, RouteThreadEvent, server, db, memory, drain
<1>4. ChannelTypes'
  BY <1>2
<1>5. FlagTypes'
  BY <1>2 DEF CacheCore, FlagTypes, Subscribe, db, memory
<1>6. /\ DbTypes' /\ WorkerTypes' /\ DrainTypes' /\ WorkerShape'
      /\ SlowIsAccounted'
  <2>1. WorkerTypes'
    BY DEF CacheCore, WorkerTypes, Subscribe, server, db, memory, drain
  <2>2. DbTypes'
    BY DEF CacheCore, DbTypes, Marks, Record, Subscribe, server, db, memory, drain
  <2>3. DrainTypes'
    BY DEF CacheCore, DrainTypes, Cursor, Listing, Marks, Subscribe, server, db, memory,
           drain
  <2>4. WorkerShape'
    BY DEF CacheCore, WorkerShape, Resyncing, Subscribe, server, db, memory, drain
  <2>5. SlowIsAccounted'
    BY DEF CacheCore, SlowIsAccounted, Batch, Subscribe, server, db, memory, drain
  <2> QED
    BY <2>1, <2>2, <2>3, <2>4, <2>5
<1> QED
  BY <1>3, <1>4, <1>5, <1>6 DEF CacheCore

LEMMA DisconnectKeepsCore == ASSUME CacheCore, Disconnect PROVE CacheCore'
<1>1. ResyncSignal \in Message /\ ResyncSignal.id <= Len(log)
  BY LogIs, MessagesAre
<1>2. ChannelTypes' /\ shed' \in BOOLEAN /\ latching' \in BOOLEAN
  BY <1>1, RoutedIsTyped DEF Disconnect, server
<1>3. ServerTypes'
  BY LogIs DEF CacheCore, ServerTypes, Disconnect, RouteThreadEvent, server, db, memory, drain
<1>4. ChannelTypes'
  BY <1>2
<1>5. FlagTypes'
  BY <1>2 DEF CacheCore, FlagTypes, Disconnect, db, memory
<1>6. /\ DbTypes' /\ WorkerTypes' /\ DrainTypes' /\ WorkerShape'
      /\ SlowIsAccounted'
  <2>1. WorkerTypes'
    BY DEF CacheCore, WorkerTypes, Disconnect, server, db, memory, drain
  <2>2. DbTypes'
    BY DEF CacheCore, DbTypes, Marks, Record, Disconnect, server, db, memory, drain
  <2>3. DrainTypes'
    BY DEF CacheCore, DrainTypes, Cursor, Listing, Marks, Disconnect, server, db, memory,
           drain
  <2>4. WorkerShape'
    BY DEF CacheCore, WorkerShape, Resyncing, Disconnect, server, db, memory, drain
  <2>5. SlowIsAccounted'
    BY DEF CacheCore, SlowIsAccounted, Batch, Disconnect, server, db, memory, drain
  <2> QED
    BY <2>1, <2>2, <2>3, <2>4, <2>5
<1> QED
  BY <1>3, <1>4, <1>5, <1>6 DEF CacheCore

LEMMA DeliverKeepsCore == ASSUME CacheCore, Deliver PROVE CacheCore'
<1>1. Drive(sent + 1) \in Message /\ Drive(sent + 1).id <= Len(log)
  BY LogIs, MessagesAre DEF CacheCore, ServerTypes, Deliver, Ids
<1>2. ChannelTypes' /\ shed' \in BOOLEAN /\ latching' \in BOOLEAN
  BY <1>1, RoutedIsTyped DEF Deliver, server
<1>3. ServerTypes'
  BY LogIs DEF CacheCore, ServerTypes, Deliver, RouteThreadEvent, server, db, memory, drain
<1>4. ChannelTypes'
  BY <1>2
<1>5. FlagTypes'
  BY <1>2 DEF CacheCore, FlagTypes, Deliver, db, memory
<1>6. /\ DbTypes' /\ WorkerTypes' /\ DrainTypes' /\ WorkerShape'
      /\ SlowIsAccounted'
  <2>1. WorkerTypes'
    BY DEF CacheCore, WorkerTypes, Deliver, server, db, memory, drain
  <2>2. DbTypes'
    BY DEF CacheCore, DbTypes, Marks, Record, Deliver, server, db, memory, drain
  <2>3. DrainTypes'
    BY DEF CacheCore, DrainTypes, Cursor, Listing, Marks, Deliver, server, db, memory,
           drain
  <2>4. WorkerShape'
    BY DEF CacheCore, WorkerShape, Resyncing, Deliver, server, db, memory, drain
  <2>5. SlowIsAccounted'
    BY DEF CacheCore, SlowIsAccounted, Batch, Deliver, server, db, memory, drain
  <2> QED
    BY <2>1, <2>2, <2>3, <2>4, <2>5
<1> QED
  BY <1>3, <1>4, <1>5, <1>6 DEF CacheCore

LEMMA DropEventKeepsCore == ASSUME CacheCore, DropEvent PROVE CacheCore'
<1>1. ServerTypes'
  BY DEF CacheCore, ServerTypes, DropEvent, server, channel, db, memory, drain
<1>2. /\ ChannelTypes' /\ FlagTypes' /\ DbTypes' /\ WorkerTypes'
      /\ DrainTypes' /\ WorkerShape' /\ SlowIsAccounted'
  <2>1. ChannelTypes' /\ FlagTypes' /\ WorkerTypes'
    BY DEF CacheCore, ChannelTypes, FlagTypes, WorkerTypes, DropEvent, server, channel,
           db, memory, drain
  <2>2. DbTypes'
    BY DEF CacheCore, DbTypes, Marks, Record, DropEvent, server, channel, db, memory,
           drain
  <2>3. DrainTypes'
    BY DEF CacheCore, DrainTypes, Cursor, Listing, Marks, DropEvent, server, channel, db,
           memory, drain
  <2>4. WorkerShape'
    BY DEF CacheCore, WorkerShape, Resyncing, DropEvent, server, channel, db, memory,
           drain
  <2>5. SlowIsAccounted'
    BY DEF CacheCore, SlowIsAccounted, Batch, DropEvent, server, channel, db, memory,
           drain
  <2> QED
    BY <2>1, <2>2, <2>3, <2>4, <2>5
<1> QED
  BY <1>1, <1>2 DEF CacheCore

LEMMA LatchShedKeepsCore == ASSUME CacheCore, LatchShed PROVE CacheCore'
<1>1. FlagTypes'
  BY DEF CacheCore, FlagTypes, LatchShed, server, socket, db, memory, drain
<1>2. /\ ServerTypes' /\ ChannelTypes' /\ DbTypes' /\ WorkerTypes'
      /\ DrainTypes' /\ WorkerShape' /\ SlowIsAccounted'
  <2>1. ServerTypes' /\ ChannelTypes' /\ WorkerTypes'
    BY DEF CacheCore, ServerTypes, ChannelTypes, WorkerTypes, LatchShed, server, socket,
           db, memory, drain
  <2>2. DbTypes'
    BY DEF CacheCore, DbTypes, Marks, Record, LatchShed, server, socket, db, memory, drain
  <2>3. DrainTypes'
    BY DEF CacheCore, DrainTypes, Cursor, Listing, Marks, LatchShed, server, socket, db,
           memory, drain
  <2>4. WorkerShape'
    BY DEF CacheCore, WorkerShape, Resyncing, LatchShed, server, socket, db, memory, drain
  <2>5. SlowIsAccounted'
    BY DEF CacheCore, SlowIsAccounted, Batch, LatchShed, server, socket, db, memory, drain
  <2> QED
    BY <2>1, <2>2, <2>3, <2>4, <2>5
<1> QED
  BY <1>1, <1>2 DEF CacheCore

LEMMA ControlKeepsCore == ASSUME CacheCore, Control PROVE CacheCore'
<1>1. PICK m \in ControlMessage : ctl' = Append(ctl, m)
  BY DEF Control, ControlMessage
<1>2. ctl' \in Seq(ControlMessage) /\ Len(ctl') <= MAX_CONTROL
  BY <1>1 DEF CacheCore, WorkerTypes, Control
<1>3. WorkerTypes'
  BY <1>2 DEF CacheCore, WorkerTypes, Control, drain
<1>5. UNCHANGED <<server, socket, channel, db, registered, gapCheck, retry, short, fresh, lapses,
                  pc, drain, listing>>
  BY DEF Control
<1>4. /\ ServerTypes' /\ ChannelTypes' /\ FlagTypes' /\ DbTypes'
      /\ DrainTypes' /\ WorkerShape' /\ SlowIsAccounted'
  BY <1>5
  DEF CacheCore, ServerTypes, ChannelTypes, FlagTypes, DbTypes, Marks, Record, DrainTypes,
      Cursor, Listing, WorkerShape, Resyncing, SlowIsAccounted, Batch, server,
      socket, channel, db, drain
<1> QED
  BY <1>3, <1>4 DEF CacheCore

LEMMA BootKeepsCore == ASSUME CacheCore, Boot PROVE CacheCore'
<1>1. DbTypes'
  BY DEF CacheCore, DbTypes, ServerTypes, Marks, Record, Boot, server, socket, channel, memory
<1>2. WorkerTypes'
  BY DEF CacheCore, WorkerTypes, Boot, server, socket, channel, memory
<1>3. DrainTypes'
  BY DEF CacheCore, DrainTypes, ServerTypes, DbTypes, Marks, Cursor, Listing, Boot, server,
         socket, channel, memory
<1>4. WorkerShape'
  BY DEF CacheCore, WorkerShape, DbTypes, Resyncing, Boot, server, socket, channel, memory
<1>5. SlowIsAccounted'
  BY DEF CacheCore, SlowIsAccounted, DbTypes, Batch, Boot, server, socket, channel, memory
<1>6. ServerTypes' /\ ChannelTypes' /\ FlagTypes'
  BY DEF CacheCore, ServerTypes, ChannelTypes, FlagTypes, Boot, server, socket, channel, memory
<1> QED
  BY <1>1, <1>2, <1>3, <1>4, <1>5, <1>6 DEF CacheCore

LEMMA CrashKeepsCore == ASSUME CacheCore, Crash PROVE CacheCore'
<1>1. ServerTypes'
  BY DEF CacheCore, ServerTypes, Crash, LoseMemory, NoListing, NoCursor,
         ControlMessage, server, db
<1>2. ChannelTypes'
  BY DEF CacheCore, ChannelTypes, ServerTypes, Crash, LoseMemory, NoListing,
         NoCursor, ControlMessage, server, db
<1>3. FlagTypes'
  BY DEF CacheCore, FlagTypes, Crash, LoseMemory, NoListing, NoCursor,
         ControlMessage, server, db
<1>4. DbTypes'
  BY DEF CacheCore, DbTypes, ServerTypes, Marks, Record, Crash, LoseMemory, NoListing, NoCursor, ControlMessage, server, db
<1>5. WorkerTypes'
  BY DEF CacheCore, WorkerTypes, Crash, LoseMemory, NoListing, NoCursor,
         ControlMessage, server, db
<1>6. DrainTypes'
  BY DEF CacheCore, DrainTypes, ServerTypes, DbTypes, Marks, Cursor, Listing, Crash,
         LoseMemory, NoListing, NoCursor, ControlMessage, server, db
<1>7. WorkerShape'
  BY DEF CacheCore, WorkerShape, DbTypes, Resyncing, Crash, LoseMemory, NoListing,
         NoCursor, ControlMessage, server, db
<1>8. SlowIsAccounted'
  BY DEF CacheCore, SlowIsAccounted, DbTypes, Batch, Crash, LoseMemory, NoListing,
         NoCursor, ControlMessage, server, db
<1> QED
  BY <1>1, <1>2, <1>3, <1>4, <1>5, <1>6, <1>7, <1>8 DEF CacheCore

LEMMA ExitKeepsCore == ASSUME CacheCore, Exit PROVE CacheCore'
<1>1. ServerTypes'
  BY DEF CacheCore, ServerTypes, Exit, LoseMemory, NoListing, NoCursor,
         ControlMessage, server, db
<1>2. ChannelTypes'
  BY DEF CacheCore, ChannelTypes, ServerTypes, Exit, LoseMemory, NoListing,
         NoCursor, ControlMessage, server, db
<1>3. FlagTypes'
  BY DEF CacheCore, FlagTypes, Exit, LoseMemory, NoListing, NoCursor,
         ControlMessage, server, db
<1>4. DbTypes'
  BY DEF CacheCore, DbTypes, ServerTypes, Marks, Record, Exit, LoseMemory, NoListing, NoCursor, ControlMessage, server, db
<1>5. WorkerTypes'
  BY DEF CacheCore, WorkerTypes, Exit, LoseMemory, NoListing, NoCursor,
         ControlMessage, server, db
<1>6. DrainTypes'
  BY DEF CacheCore, DrainTypes, ServerTypes, DbTypes, Marks, Cursor, Listing, Exit, LoseMemory,
         NoListing, NoCursor, ControlMessage, server, db
<1>7. WorkerShape'
  BY DEF CacheCore, WorkerShape, DbTypes, Resyncing, Exit, LoseMemory, NoListing,
         NoCursor, ControlMessage, server, db
<1>8. SlowIsAccounted'
  BY DEF CacheCore, SlowIsAccounted, DbTypes, Batch, Exit, LoseMemory, NoListing,
         NoCursor, ControlMessage, server, db
<1> QED
  BY <1>1, <1>2, <1>3, <1>4, <1>5, <1>6, <1>7, <1>8 DEF CacheCore

LEMMA EventArmKeepsCore == ASSUME CacheCore, EventArm PROVE CacheCore'
<1>1. store \subseteq store' /\ store' \subseteq 1..Len(log)
  BY BurstIds DEF CacheCore, DbTypes, EventArm, DrainPending
<1>2. gapCheck' \in {"awaiting", "due", gapCheck}
  BY GapCheckIs DEF EventArm, DrainPending
<1>3. ServerTypes'
  BY DEF CacheCore, ServerTypes, EventArm, DrainPending, MarkNeedsResync, Selecting, server,
         socket
<1>4. ChannelTypes'
  BY DEF CacheCore, ChannelTypes, ServerTypes, EventArm, DrainPending, MarkNeedsResync,
         Selecting, server, socket
<1>5. FlagTypes'
  BY DEF CacheCore, FlagTypes, EventArm, DrainPending, MarkNeedsResync, Selecting, server,
         socket
<1>6. DbTypes'
  BY <1>1
  DEF CacheCore, DbTypes, ServerTypes, Marks, Record, EventArm, DrainPending, MarkNeedsResync,
      Selecting, server, socket
<1>7. WorkerTypes'
  BY <1>2
  DEF CacheCore, WorkerTypes, EventArm, DrainPending, MarkNeedsResync, Selecting, server,
      socket
<1>8. DrainTypes'
  BY <1>1
  DEF CacheCore, DrainTypes, ServerTypes, DbTypes, Marks, Cursor, Listing, EventArm,
      DrainPending, MarkNeedsResync, Selecting, server, socket
<1>9. WorkerShape'
  BY DEF CacheCore, WorkerShape, DbTypes, Resyncing, EventArm, DrainPending, MarkNeedsResync,
         Selecting, server, socket
<1>10. SlowIsAccounted'
  BY DEF CacheCore, SlowIsAccounted, DbTypes, Batch, EventArm, DrainPending, MarkNeedsResync,
         Selecting, server, socket
<1> QED
  BY <1>3, <1>4, <1>5, <1>6, <1>7, <1>8, <1>9, <1>10 DEF CacheCore

LEMMA ShutdownKeepsCore == ASSUME CacheCore, Shutdown PROVE CacheCore'
<1>1. store \subseteq store' /\ store' \subseteq 1..Len(log)
  BY BurstIds DEF CacheCore, DbTypes, Shutdown, DrainPending
<1>2. gapCheck' \in {"awaiting", "due", gapCheck}
  BY GapCheckIs DEF Shutdown, DrainPending
<1>3. ServerTypes'
  BY DEF CacheCore, ServerTypes, Shutdown, DrainPending, MarkNeedsResync, Serving, server,
         socket
<1>4. ChannelTypes'
  BY DEF CacheCore, ChannelTypes, ServerTypes, Shutdown, DrainPending, MarkNeedsResync,
         Serving, server, socket
<1>5. FlagTypes'
  BY DEF CacheCore, FlagTypes, Shutdown, DrainPending, MarkNeedsResync, Serving, server,
         socket
<1>6. DbTypes'
  BY <1>1
  DEF CacheCore, DbTypes, ServerTypes, Marks, Record, Shutdown, DrainPending, MarkNeedsResync,
      Serving, server, socket
<1>7. WorkerTypes'
  BY <1>2
  DEF CacheCore, WorkerTypes, Shutdown, DrainPending, MarkNeedsResync, Serving, server,
      socket
<1>8. DrainTypes'
  BY <1>1
  DEF CacheCore, DrainTypes, ServerTypes, DbTypes, Marks, Cursor, Listing, Shutdown,
      DrainPending, MarkNeedsResync, Serving, server, socket
<1>9. WorkerShape'
  BY DEF CacheCore, WorkerShape, DbTypes, Resyncing, Shutdown, DrainPending, MarkNeedsResync,
         Serving, server, socket
<1>10. SlowIsAccounted'
  BY DEF CacheCore, SlowIsAccounted, DbTypes, Batch, Shutdown, DrainPending, MarkNeedsResync,
         Serving, server, socket
<1> QED
  BY <1>3, <1>4, <1>5, <1>6, <1>7, <1>8, <1>9, <1>10 DEF CacheCore

LEMMA WaitDrainKeepsCore == ASSUME CacheCore, WaitDrain PROVE CacheCore'
<1>1. store \subseteq store' /\ store' \subseteq 1..Len(log)
  BY BurstIds DEF CacheCore, DbTypes, WaitDrain, DrainPending
<1>2. gapCheck' \in {"awaiting", "due", gapCheck}
  BY GapCheckIs DEF WaitDrain, DrainPending
<1>3. ServerTypes'
  BY DEF CacheCore, ServerTypes, WaitDrain, DrainPending, MarkNeedsResync, Selecting, server,
         socket
<1>4. ChannelTypes'
  BY DEF CacheCore, ChannelTypes, ServerTypes, WaitDrain, DrainPending, MarkNeedsResync,
         Selecting, server, socket
<1>5. FlagTypes'
  BY DEF CacheCore, FlagTypes, WaitDrain, DrainPending, MarkNeedsResync, Selecting, server,
         socket
<1>6. DbTypes'
  BY <1>1
  DEF CacheCore, DbTypes, ServerTypes, Marks, Record, WaitDrain, DrainPending, MarkNeedsResync,
      Selecting, server, socket
<1>7. WorkerTypes'
  BY <1>2
  DEF CacheCore, WorkerTypes, WaitDrain, DrainPending, MarkNeedsResync, Selecting, server,
      socket
<1>8. DrainTypes'
  BY <1>1
  DEF CacheCore, DrainTypes, ServerTypes, DbTypes, Marks, Cursor, Listing, WaitDrain,
      DrainPending, MarkNeedsResync, Selecting, server, socket
<1>9. WorkerShape'
  BY DEF CacheCore, WorkerShape, DbTypes, Resyncing, WaitDrain, DrainPending, MarkNeedsResync,
         Selecting, server, socket
<1>10. SlowIsAccounted'
  BY DEF CacheCore, SlowIsAccounted, DbTypes, Batch, WaitDrain, DrainPending, MarkNeedsResync,
         Selecting, server, socket
<1> QED
  BY <1>3, <1>4, <1>5, <1>6, <1>7, <1>8, <1>9, <1>10 DEF CacheCore

-----------------------------------------------------------------------------
(* What a drain writes. *)

LEMMA DrainWrites ==
    ASSUME CacheCore, NEW ids, ids \subseteq 1..Len(log)
    PROVE  /\ Applied(ids) \in [Roots -> SUBSET (1..Len(log))]
           /\ Shortened(ids) \subseteq registered /\ Shortened(ids) \subseteq Roots
           /\ Forgotten(ids) \in Record
           /\ Forgotten(ids).roots \subseteq listed.roots \ Shortened(ids)
           /\ Forgotten(ids).roots # {} => Forgotten(ids).stamp = listed.stamp
<1>1. Applied(ids) \in [Roots -> SUBSET (1..Len(log))]
  BY DEF CacheCore, DbTypes, Applied
<1>2. Shortened(ids) \subseteq registered /\ Shortened(ids) \subseteq Roots
  BY DEF CacheCore, WorkerTypes, Shortened
<1>3. NoRoots \in Record /\ NoRoots.roots = {}
  BY DEF NoRoots, Record
<1>4. listed \in Record
  BY DEF CacheCore, DbTypes
<1>5. /\ Without(listed, Shortened(ids)) \in Record
      /\ Without(listed, Shortened(ids)).roots \subseteq listed.roots \ Shortened(ids)
      /\ Without(listed, Shortened(ids)).roots # {} =>
           Without(listed, Shortened(ids)).stamp = listed.stamp
  BY <1>3, <1>4 DEF Without, Record
<1> QED
  BY <1>1, <1>2, <1>3, <1>5 DEF Forgotten

LEMMA CarriedIs ==
    ASSUME CacheCore, NEW l \in Record, NEW w \in Marks, watermark <= w
    PROVE  /\ Carried(l, w) \in Record /\ Carried(l, w).roots \subseteq l.roots
           /\ w # watermark /\ Carried(l, w).roots # {} =>
                l.stamp = watermark /\ Carried(l, w).roots \subseteq registered
<1>1. NoRoots \in Record /\ NoRoots.roots = {}
  BY DEF NoRoots, Record
<1>2. w # watermark => w \in 0..MAX_ID
  <2>1. Len(log) <= MAX_ID
    BY DEF CacheCore, ServerTypes
  <2>2. watermark = None \/ watermark \in 0..Len(log)
    BY DEF CacheCore, DbTypes, Marks
  <2>3. w = None \/ w \in 0..Len(log)
    BY DEF Marks
  <2> QED
    BY <2>1, <2>2, <2>3, LogIs DEF None
<1>3. w # watermark => [stamp |-> w, roots |-> l.roots \cap registered] \in Record
  BY <1>2 DEF Record
<1> QED
  BY <1>1, <1>3 DEF Carried

LEMMA BatchIs ==
    ASSUME CacheCore
    PROVE  /\ Batch \subseteq store /\ Batch \subseteq 1..Len(log)
           /\ \A S \in SUBSET Batch : Fresh(S) \subseteq S /\ \A id \in S \ Fresh(S) : id <= watermark
<1>1. Batch \subseteq store /\ Batch \subseteq 1..Len(log)
  BY DEF CacheCore, DbTypes, Batch
<1> QED
  BY <1>1, LogIs DEF Fresh

(* The frontier of a batch reaches no further than what the batch holds *)
LEMMA DrainBatchIs ==
    ASSUME CacheCore, DrainBatch
    PROVE  \E ids \in SUBSET Batch, c \in Cursor :
             /\ ids \subseteq 1..Len(log) /\ watermark <= c.frontier
             /\ watermark # None => (watermark + 1)..c.frontier \subseteq ids
             /\ \A id \in Batch : id <= c.frontier \/ c.broken
             /\ rows' = Applied(ids) /\ short' = short \cup Shortened(ids)
             /\ converged' = converged \ Shortened(ids) /\ stale' = stale \ Shortened(ids)
             /\ listed' = Carried(Forgotten(ids), c.frontier)
             /\ watermark' = c.frontier /\ needsResync' = (needsResync \/ c.broken)
             /\ store' = store \ Batch /\ cursor' = c
<1>1. PICK corrupt \in Corrupt :
        LET ids == Fresh(Batch \ corrupt)
            c   == Follow([cursor EXCEPT !.broken = @ \/ corrupt # {}], ids)
        IN  /\ rows' = Applied(ids)
            /\ short' = short \cup Shortened(ids)
            /\ converged' = converged \ Shortened(ids) /\ stale' = stale \ Shortened(ids)
            /\ listed' = Carried(Forgotten(ids), c.frontier)
            /\ watermark' = c.frontier
            /\ needsResync' = (needsResync \/ c.broken)
            /\ store' = store \ Batch
            /\ cursor' = c
  BY DEF DrainBatch
<1> DEFINE ids == Fresh(Batch \ corrupt)
           d   == [cursor EXCEPT !.broken = @ \/ corrupt # {}]
           c   == Follow(d, ids)
<1>2. ids \subseteq Batch /\ ids \subseteq 1..Len(log) /\ \A id \in Batch \ ids : id \in corrupt \/ id <= watermark
  BY BatchIs
<1> HIDE DEF ids
<1>3. cursor \in Cursor /\ cursor.frontier = watermark
  BY DEF CacheCore, DrainTypes, WorkerShape, DrainBatch
<1>4. /\ d \in [frontier : Marks, broken : BOOLEAN]
      /\ d.frontier = watermark /\ (corrupt # {} => d.broken)
  BY <1>3 DEF Cursor
<1> HIDE DEF d
<1>5. /\ c \in [frontier : Marks, broken : BOOLEAN]
      /\ watermark <= c.frontier
      /\ watermark # None => (watermark + 1)..c.frontier \subseteq ids
      /\ d.broken => c.broken
      /\ \A id \in ids : id <= c.frontier \/ c.broken
  BY <1>2, <1>4, LogIs, FollowIs DEF Marks
<1>6. c.frontier \in Int
  BY <1>5, LogIs DEF Marks, None
<1>7. \A id \in Batch : id <= c.frontier \/ c.broken
  BY <1>2, <1>4, <1>5, <1>6, BatchIs, LogIs
<1>8. c \in Cursor
  BY <1>5 DEF Cursor
<1>9. /\ rows' = Applied(ids) /\ short' = short \cup Shortened(ids)
      /\ converged' = converged \ Shortened(ids) /\ stale' = stale \ Shortened(ids)
      /\ listed' = Carried(Forgotten(ids), c.frontier)
      /\ watermark' = c.frontier /\ needsResync' = (needsResync \/ c.broken)
      /\ store' = store \ Batch /\ cursor' = c
  BY <1>1 DEF ids, d
<1> HIDE DEF c
<1> QED
  BY <1>2, <1>5, <1>7, <1>8, <1>9

LEMMA ApplyAloneIs ==
    ASSUME CacheCore, ApplyAlone
    PROVE  \E id \in slow, c \in Cursor :
             /\ id \in 1..Len(log) /\ cursor.frontier <= c.frontier
             /\ cursor.frontier # None => (cursor.frontier + 1)..c.frontier \subseteq {id}
             /\ cursor.broken => c.broken
             /\ id <= c.frontier \/ c.broken
             /\ rows' = Applied({id}) /\ short' = short \cup Shortened({id})
             /\ converged' = converged \ Shortened({id}) /\ stale' = stale \ Shortened({id})
             /\ listed' = Forgotten({id})
             /\ cursor' = c /\ slow' = slow \ {id}
<1> DEFINE id == Min(slow)
           c  == Follow(cursor, {id})
<1>1. slow \subseteq 1..Len(log) /\ slow # {}
  BY DEF CacheCore, DrainTypes, DbTypes, ApplyAlone
<1>2. id \in slow /\ id \in 1..Len(log)
  BY <1>1, LogIs, MinIs, slow \subseteq Nat
<1>3. /\ rows' = Applied({id}) /\ short' = short \cup Shortened({id})
      /\ converged' = converged \ Shortened({id}) /\ stale' = stale \ Shortened({id})
             /\ listed' = Forgotten({id})
      /\ cursor' = c /\ slow' = slow \ {id}
  BY DEF ApplyAlone
<1> HIDE DEF id
<1>4. cursor \in [frontier : {None} \cup 0..Len(log), broken : BOOLEAN]
  BY DEF CacheCore, DrainTypes, Cursor, Marks
<1>5. /\ c \in [frontier : {None} \cup 0..Len(log), broken : BOOLEAN]
      /\ cursor.frontier <= c.frontier
      /\ cursor.frontier # None => (cursor.frontier + 1)..c.frontier \subseteq {id}
      /\ cursor.broken => c.broken
      /\ \A x \in {id} : x <= c.frontier \/ c.broken
  <2>1. Len(log) \in Nat /\ {id} \subseteq 1..Len(log)
    BY <1>2, LogIs
  <2> QED
    BY <1>4, <2>1, FollowIs
<1> HIDE DEF c
<1>6. c \in Cursor
  BY <1>5 DEF Cursor, Marks
<1> QED
  BY <1>2, <1>3, <1>5, <1>6

LEMMA AbortsIs ==
    ASSUME CacheCore, DrainBatchAborts
    PROVE  /\ cursor' \in Cursor /\ cursor'.frontier = watermark
           /\ slow' \subseteq Batch
           /\ \A id \in Batch : id <= watermark \/ id \in slow' \/ cursor'.broken
           /\ short \subseteq short' /\ short' \subseteq short \cup registered
<1>0. PICK corrupt \in Corrupt : \E n \in Fresh(Batch \ corrupt) :
         /\ short' = short \cup Shortened({id \in Fresh(Batch \ corrupt) : id < n})
         /\ cursor' = [cursor EXCEPT !.broken = @ \/ corrupt # {}]
         /\ slow' = Fresh(Batch \ corrupt)
  BY DEF DrainBatchAborts
<1>1. PICK n \in Fresh(Batch \ corrupt) :
         /\ short' = short \cup Shortened({id \in Fresh(Batch \ corrupt) : id < n})
         /\ cursor' = [cursor EXCEPT !.broken = @ \/ corrupt # {}]
         /\ slow' = Fresh(Batch \ corrupt)
  BY <1>0
<1>2. cursor \in Cursor /\ cursor.frontier = watermark
  BY DEF CacheCore, DrainTypes, WorkerShape, DrainBatchAborts
<1>3. cursor' \in Cursor /\ cursor'.frontier = watermark /\ (corrupt # {} => cursor'.broken)
  BY <1>1, <1>2 DEF Cursor
<1>4. slow' \subseteq Batch /\ \A id \in Batch \ slow' : id \in corrupt \/ id <= watermark
  BY <1>1, BatchIs
<1>5. {id \in Fresh(Batch \ corrupt) : id < n} \subseteq 1..Len(log)
  BY BatchIs
<1>6. short \subseteq short' /\ short' \subseteq short \cup registered
  BY <1>1, <1>5, DrainWrites
<1> QED
  BY <1>3, <1>4, <1>6

LEMMA DrainBatchKeepsCore == ASSUME CacheCore, DrainBatch PROVE CacheCore'
<1>1. PICK ids \in SUBSET Batch, c \in Cursor :
             /\ ids \subseteq 1..Len(log) /\ watermark <= c.frontier
             /\ rows' = Applied(ids) /\ short' = short \cup Shortened(ids)
             /\ converged' = converged \ Shortened(ids) /\ stale' = stale \ Shortened(ids)
             /\ listed' = Carried(Forgotten(ids), c.frontier)
             /\ watermark' = c.frontier /\ store' = store \ Batch /\ cursor' = c
  BY DrainBatchIs
<1>2. /\ rows' \in [Roots -> SUBSET (1..Len(log))]
      /\ Shortened(ids) \subseteq registered /\ Forgotten(ids) \in Record
  BY <1>1, DrainWrites
<1>3. c.frontier \in Marks /\ listed' \in Record
  BY <1>1, <1>2, CarriedIs DEF Cursor
<1>4. pc = "drain" /\ slow = {}
  BY DEF CacheCore, WorkerShape, DrainBatch
<1>5. FlagTypes'
  BY DEF CacheCore, FlagTypes, DrainBatch, server, socket, channel
<1>6. DbTypes'
  BY <1>1, <1>2, <1>3
  DEF CacheCore, DbTypes, ServerTypes, Marks, Record, DrainBatch, server, socket, channel
<1>7. WorkerTypes'
  BY <1>1, <1>2 DEF CacheCore, WorkerTypes, DrainBatch, server, socket, channel
<1>8. DrainTypes'
  BY <1>1, <1>4
  DEF CacheCore, DrainTypes, ServerTypes, DbTypes, Marks, Cursor, Listing, DrainBatch, server,
      socket, channel
<1>9. WorkerShape'
  BY <1>1, <1>4, LogIs
  DEF CacheCore, WorkerShape, DbTypes, Resyncing, DrainBatch, server, socket, channel, Cursor,
      Marks, None
<1>10. SlowIsAccounted'
  BY <1>4 DEF CacheCore, SlowIsAccounted, DbTypes, Batch, DrainBatch, server, socket, channel
<1>11. ServerTypes' /\ ChannelTypes'
  BY DEF CacheCore, ServerTypes, ChannelTypes, DrainBatch, server, socket, channel
<1> QED
  BY <1>5, <1>6, <1>7, <1>8, <1>9, <1>10, <1>11 DEF CacheCore

LEMMA DrainBatchAbortsKeepsCore == ASSUME CacheCore, DrainBatchAborts PROVE CacheCore'
<1>1. /\ cursor' \in Cursor /\ cursor'.frontier = watermark
      /\ slow' \subseteq Batch
      /\ \A id \in Batch : id <= watermark \/ id \in slow' \/ cursor'.broken
      /\ short' \subseteq short \cup registered
  BY AbortsIs
<1>2. WorkerTypes'
  BY <1>1 DEF CacheCore, WorkerTypes, DrainBatchAborts, server, socket, channel, db
<1>3. DrainTypes'
  BY <1>1, BatchIs
  DEF CacheCore, DrainTypes, ServerTypes, DbTypes, Marks, Cursor, Listing, DrainBatchAborts,
      server, socket, channel, db
<1>4. WorkerShape'
  BY <1>1, LogIs
  DEF CacheCore, WorkerShape, DbTypes, Resyncing, DrainBatchAborts, server, socket, channel, db
<1>5. SlowIsAccounted'
  BY <1>1
  DEF CacheCore, SlowIsAccounted, DbTypes, Batch, DrainBatchAborts, server, socket, channel, db
<1>6. ServerTypes' /\ ChannelTypes' /\ FlagTypes' /\ DbTypes'
  BY DEF CacheCore, ServerTypes, ChannelTypes, FlagTypes, DbTypes, Marks, Record,
         DrainBatchAborts, server, socket, channel, db
<1> QED
  BY <1>2, <1>3, <1>4, <1>5, <1>6 DEF CacheCore

LEMMA ApplyAloneKeepsCore == ASSUME CacheCore, ApplyAlone PROVE CacheCore'
<1>1. PICK id \in slow, c \in Cursor :
             /\ id \in 1..Len(log) /\ cursor.frontier <= c.frontier
             /\ cursor.broken => c.broken
             /\ id <= c.frontier \/ c.broken
             /\ rows' = Applied({id}) /\ short' = short \cup Shortened({id})
             /\ converged' = converged \ Shortened({id}) /\ stale' = stale \ Shortened({id})
             /\ listed' = Forgotten({id})
             /\ cursor' = c /\ slow' = slow \ {id}
  BY ApplyAloneIs
<1>2. /\ rows' \in [Roots -> SUBSET (1..Len(log))]
      /\ Shortened({id}) \subseteq registered /\ listed' \in Record
  BY <1>1, DrainWrites, {id} \subseteq 1..Len(log)
<1>3. c.frontier \in Int /\ \A x \in Batch : x \in Int
  BY <1>1, BatchIs, LogIs DEF Cursor, Marks, None
<1>4. pc = "slow" /\ UNCHANGED <<pc, store, watermark, log>>
  BY DEF ApplyAlone, server
<1>5. DbTypes'
  BY <1>1, <1>2
  DEF CacheCore, DbTypes, ServerTypes, Marks, Record, ApplyAlone, server, socket, channel
<1>6. WorkerTypes'
  BY <1>1, <1>2 DEF CacheCore, WorkerTypes, ApplyAlone, server, socket, channel
<1>7. DrainTypes'
  BY <1>1, <1>4
  DEF CacheCore, DrainTypes, ServerTypes, DbTypes, Marks, Cursor, Listing, ApplyAlone, server,
      socket, channel
<1>8. WorkerShape'
  BY <1>1, <1>3, <1>4, LogIs
  DEF CacheCore, WorkerShape, DbTypes, Resyncing, ApplyAlone, server, socket, channel
<1>9. SlowIsAccounted'
  <2>1. /\ pc' = "slow" /\ Batch' = Batch /\ slow' = slow \ {id} /\ cursor' = c
    BY <1>1, <1>4 DEF Batch
  <2>2. /\ cursor.frontier \in Int /\ \A x \in slow : x \in Int
        /\ id \in Int
    BY <1>1, LogIs DEF CacheCore, DrainTypes, DbTypes, Cursor, Marks, None
  <2> QED
    BY <1>1, <1>3, <1>4, <2>1, <2>2 DEF CacheCore, SlowIsAccounted
<1>10. ServerTypes' /\ ChannelTypes' /\ FlagTypes'
  BY DEF CacheCore, ServerTypes, ChannelTypes, FlagTypes, ApplyAlone, server, socket, channel
<1> QED
  BY <1>5, <1>6, <1>7, <1>8, <1>9, <1>10 DEF CacheCore

LEMMA QuarantineKeepsCore == ASSUME CacheCore, Quarantine PROVE CacheCore'
<1>1. DrainTypes'
  BY DEF CacheCore, DrainTypes, ServerTypes, DbTypes, Marks, Cursor, Listing, Quarantine,
         server, socket, channel, db, memory
<1>2. WorkerShape'
  BY DEF CacheCore, WorkerShape, DbTypes, Resyncing, Quarantine, server, socket, channel, db,
         memory
<1>3. SlowIsAccounted'
  BY DEF CacheCore, SlowIsAccounted, DbTypes, Batch, Quarantine, server, socket, channel, db,
         memory
<1>4. /\ ServerTypes' /\ ChannelTypes' /\ FlagTypes' /\ DbTypes'
      /\ WorkerTypes'
  BY DEF CacheCore, ServerTypes, ChannelTypes, FlagTypes, DbTypes, Marks, Record, WorkerTypes,
         Quarantine, server, socket, channel, db, memory
<1> QED
  BY <1>1, <1>2, <1>3, <1>4 DEF CacheCore

LEMMA CommitDrainBatchKeepsCore == ASSUME CacheCore, CommitDrainBatch PROVE CacheCore'
<1>1. cursor.frontier \in Marks /\ watermark <= cursor.frontier /\ listed \in Record
  BY DEF CacheCore, DbTypes, DrainTypes, Cursor, WorkerShape, CommitDrainBatch
<1>2. listed' \in Record
  BY <1>1, CarriedIs DEF CommitDrainBatch
<1>3. FlagTypes'
  BY DEF CacheCore, FlagTypes, CommitDrainBatch, server, socket, channel, memory
<1>4. DbTypes'
  BY <1>1, <1>2
  DEF CacheCore, DbTypes, ServerTypes, Marks, Record, CommitDrainBatch, server, socket,
      channel, memory
<1>5. WorkerTypes'
  BY DEF CacheCore, WorkerTypes, CommitDrainBatch, server, socket, channel, memory
<1>6. DrainTypes'
  BY DEF CacheCore, DrainTypes, ServerTypes, DbTypes, Marks, Cursor, Listing, CommitDrainBatch,
         server, socket, channel, memory
<1>7. WorkerShape'
  BY <1>1, LogIs
  DEF CacheCore, WorkerShape, DbTypes, Resyncing, CommitDrainBatch, server, socket, channel,
      memory, Marks, None
<1>8. SlowIsAccounted'
  BY DEF CacheCore, SlowIsAccounted, DbTypes, Batch, CommitDrainBatch, server, socket, channel,
         memory
<1>9. ServerTypes' /\ ChannelTypes'
  BY DEF CacheCore, ServerTypes, ChannelTypes, CommitDrainBatch, server, socket, channel,
         memory
<1> QED
  BY <1>3, <1>4, <1>5, <1>6, <1>7, <1>8, <1>9 DEF CacheCore

LEMMA DrainPendingEndsKeepsCore == ASSUME CacheCore, DrainPendingEnds PROVE CacheCore'
<1>1. FlagTypes'
  BY DEF CacheCore, FlagTypes, DrainPendingEnds, DrainDone, MaybeRunResync, NoCursor, server,
         socket, memory
<1>2. WorkerTypes'
  BY DEF CacheCore, WorkerTypes, DrainPendingEnds, DrainDone, MaybeRunResync, NoCursor, server,
         socket, memory
<1>3. DrainTypes'
  BY DEF CacheCore, DrainTypes, ServerTypes, DbTypes, Marks, Cursor, Listing, DrainPendingEnds,
         DrainDone, MaybeRunResync, NoCursor, server, socket, memory
<1>4. WorkerShape'
  BY DEF CacheCore, WorkerShape, DbTypes, Resyncing, DrainPendingEnds, DrainDone,
         MaybeRunResync, NoCursor, server, socket, memory, WorkerTypes
<1>5. SlowIsAccounted'
  BY DEF CacheCore, SlowIsAccounted, DbTypes, Batch, DrainPendingEnds, DrainDone,
         MaybeRunResync, NoCursor, server, socket, memory, WorkerTypes
<1>6. ServerTypes' /\ ChannelTypes' /\ DbTypes'
  BY DEF CacheCore, ServerTypes, ChannelTypes, DbTypes, Marks, Record, DrainPendingEnds,
         server, socket, memory
<1> QED
  BY <1>1, <1>2, <1>3, <1>4, <1>5, <1>6 DEF CacheCore

LEMMA ResyncDrainEndsKeepsCore == ASSUME CacheCore, ResyncDrainEnds PROVE CacheCore'
<1>1. FlagTypes'
  BY DEF CacheCore, FlagTypes, ResyncDrainEnds, DrainDone, NoCursor, server, socket, channel,
         db
<1>2. WorkerTypes'
  BY DEF CacheCore, WorkerTypes, ResyncDrainEnds, DrainDone, NoCursor, server, socket, channel,
         db
<1>3. DrainTypes'
  BY DEF CacheCore, DrainTypes, ServerTypes, DbTypes, Marks, Cursor, Listing, ResyncDrainEnds,
         DrainDone, NoCursor, server, socket, channel, db
<1>4. WorkerShape'
  BY DEF CacheCore, WorkerShape, DbTypes, Resyncing, ResyncDrainEnds, DrainDone, NoCursor,
         server, socket, channel, db
<1>5. SlowIsAccounted'
  BY DEF CacheCore, SlowIsAccounted, DbTypes, Batch, ResyncDrainEnds, DrainDone, NoCursor,
         server, socket, channel, db
<1>6. ServerTypes' /\ ChannelTypes' /\ DbTypes'
  BY DEF CacheCore, ServerTypes, ChannelTypes, DbTypes, Marks, Record, ResyncDrainEnds, server,
         socket, channel, db
<1> QED
  BY <1>1, <1>2, <1>3, <1>4, <1>5, <1>6 DEF CacheCore

LEMMA GapCheckDueKeepsCore == ASSUME CacheCore, GapCheckDue PROVE CacheCore'
<1>1. WorkerTypes'
  BY DEF CacheCore, WorkerTypes, GapCheckDue, RunGapCheck, MaybeRunResync, server, socket,
         channel, db, drain
<1>2. WorkerShape'
  BY DEF CacheCore, WorkerShape, DbTypes, Resyncing, GapCheckDue, RunGapCheck, MaybeRunResync,
         server, socket, channel, db, drain
<1>3. SlowIsAccounted'
  BY DEF CacheCore, SlowIsAccounted, DbTypes, Batch, GapCheckDue, RunGapCheck, MaybeRunResync,
         server, socket, channel, db, drain
<1>4. /\ ServerTypes' /\ ChannelTypes' /\ FlagTypes' /\ DbTypes'
      /\ DrainTypes'
  BY DEF CacheCore, ServerTypes, ChannelTypes, FlagTypes, DbTypes, Marks, Record, DrainTypes,
         Cursor, Listing, GapCheckDue, RunGapCheck, server, socket, channel, db, drain
<1> QED
  BY <1>1, <1>2, <1>3, <1>4 DEF CacheCore

LEMMA CatchUpKeepsCore == ASSUME CacheCore, CatchUp PROVE CacheCore'
<1>1. WorkerTypes'
  BY DEF CacheCore, WorkerTypes, CatchUp, RunGapCheck, MaybeRunResync, Quiet, Selecting,
         server, socket, channel, db, drain
<1>2. WorkerShape'
  BY DEF CacheCore, WorkerShape, DbTypes, Resyncing, CatchUp, RunGapCheck, MaybeRunResync,
         Quiet, Selecting, server, socket, channel, db, drain
<1>3. SlowIsAccounted'
  BY DEF CacheCore, SlowIsAccounted, DbTypes, Batch, CatchUp, RunGapCheck, MaybeRunResync,
         Quiet, Selecting, server, socket, channel, db, drain
<1>4. /\ ServerTypes' /\ ChannelTypes' /\ FlagTypes' /\ DbTypes'
      /\ DrainTypes'
  BY DEF CacheCore, ServerTypes, ChannelTypes, FlagTypes, DbTypes, Marks, Record, DrainTypes,
         Cursor, Listing, CatchUp, RunGapCheck, server, socket, channel, db, drain
<1> QED
  BY <1>1, <1>2, <1>3, <1>4 DEF CacheCore

LEMMA ResyncRetryKeepsCore == ASSUME CacheCore, ResyncRetry PROVE CacheCore'
<1>1. FlagTypes'
  BY DEF CacheCore, FlagTypes, ResyncRetry, MaybeRunResync, Quiet, Selecting, server, socket,
         channel, db, drain
<1>2. WorkerTypes'
  BY DEF CacheCore, WorkerTypes, ResyncRetry, MaybeRunResync, Quiet, Selecting, server, socket,
         channel, db, drain
<1>3. WorkerShape'
  BY DEF CacheCore, WorkerShape, DbTypes, Resyncing, ResyncRetry, MaybeRunResync, Quiet,
         Selecting, server, socket, channel, db, drain
<1>4. SlowIsAccounted'
  BY DEF CacheCore, SlowIsAccounted, DbTypes, Batch, ResyncRetry, MaybeRunResync, Quiet,
         Selecting, server, socket, channel, db, drain
<1>5. ServerTypes' /\ ChannelTypes' /\ DbTypes' /\ DrainTypes'
  BY DEF CacheCore, ServerTypes, ChannelTypes, DbTypes, Marks, Record, DrainTypes, Cursor,
         Listing, ResyncRetry, server, socket, channel, db, drain
<1> QED
  BY <1>1, <1>2, <1>3, <1>4, <1>5 DEF CacheCore

LEMMA RelistShortRootsKeepsCore == ASSUME CacheCore, RelistShortRoots PROVE CacheCore'
<1>1. FlagTypes'
  BY DEF CacheCore, FlagTypes, RelistShortRoots, MaybeRunResync, MarkNeedsResync, Quiet,
         Selecting, server, socket, channel, drain
<1>2. WorkerTypes'
  BY DEF CacheCore, WorkerTypes, RelistShortRoots, MaybeRunResync, MarkNeedsResync, Quiet,
         Selecting, server, socket, channel, drain
<1>3. WorkerShape'
  BY DEF CacheCore, WorkerShape, DbTypes, Resyncing, RelistShortRoots, MaybeRunResync,
         MarkNeedsResync, Quiet, Selecting, server, socket, channel, drain
<1>4. SlowIsAccounted'
  BY DEF CacheCore, SlowIsAccounted, DbTypes, Batch, RelistShortRoots, MaybeRunResync,
         MarkNeedsResync, Quiet, Selecting, server, socket, channel, drain
<1>5. ServerTypes' /\ ChannelTypes' /\ DbTypes' /\ DrainTypes'
  BY DEF CacheCore, ServerTypes, ChannelTypes, DbTypes, Marks, Record, DrainTypes, Cursor,
         Listing, RelistShortRoots, server, socket, channel, drain
<1> QED
  BY <1>1, <1>2, <1>3, <1>4, <1>5 DEF CacheCore

-----------------------------------------------------------------------------
(* Control messages, records and listings. *)

(* The message at the head of the control channel, and the rest *)
LEMMA ControlIs ==
    ASSUME CacheCore, NEW ops \in SUBSET {"add", "remove", "evict"}, Serving(ops)
    PROVE  Head(ctl).root \in Roots /\ Tail(ctl) \in Seq(ControlMessage) /\ Len(Tail(ctl)) <= MAX_CONTROL
<1>1. ctl \in Seq(ControlMessage) /\ Len(ctl) <= MAX_CONTROL /\ ctl # <<>>
  BY DEF CacheCore, WorkerTypes, Serving
<1>2. /\ Head(ctl) \in ControlMessage /\ Tail(ctl) \in Seq(ControlMessage)
      /\ Len(Tail(ctl)) <= MAX_CONTROL
  BY <1>1
<1>3. Head(ctl).op \in {"add", "remove", "evict"}
  BY DEF Serving
<1> QED
  BY <1>2, <1>3 DEF ControlMessage

LEMMA NoRecord == NoRoots \in Record /\ NoRoots.roots = {}
  BY DEF NoRoots, Record

(* A root is held whole below a watermark only *)
LEMMA HeldIs == ASSUME CacheCore, HeldWhole # {} PROVE watermark # None /\ HeldWhole = listed.roots
<1>1. listed.stamp = watermark /\ listed.stamp \in 0..MAX_ID /\ HeldWhole = listed.roots
  BY DEF CacheCore, DbTypes, Record, HeldWhole
<1> QED
  BY <1>1 DEF None

LEMMA AddSyncRootKeepsCore == ASSUME CacheCore, AddSyncRoot PROVE CacheCore'
<1>0. /\ Head(ctl).root \in Roots /\ ctl' = Tail(ctl) /\ pc' = "burst" /\ pc \in {"loop", "burst"}
      /\ Tail(ctl) \in Seq(ControlMessage) /\ Len(Tail(ctl)) <= MAX_CONTROL
  BY ControlIs, {"add"} \in SUBSET {"add", "remove", "evict"} DEF AddSyncRoot, Served, Serving
<1>1. DbTypes'
  BY <1>0 DEF CacheCore, DbTypes, Marks, Record, AddSyncRoot, server
<1>2. WorkerTypes'
  BY <1>0 DEF CacheCore, WorkerTypes, AddSyncRoot, drain
<1>3. WorkerShape' /\ SlowIsAccounted'
  BY <1>0 DEF CacheCore, WorkerShape, Resyncing, SlowIsAccounted, AddSyncRoot, drain
<1>4. ServerTypes' /\ ChannelTypes' /\ FlagTypes' /\ DrainTypes'
  BY DEF CacheCore, ServerTypes, ChannelTypes, FlagTypes, DrainTypes, Marks, Cursor, Listing,
         AddSyncRoot, server, socket, channel, drain
<1> QED
  BY <1>1, <1>2, <1>3, <1>4 DEF CacheCore

LEMMA RejectSyncRootKeepsCore == ASSUME CacheCore, RejectSyncRoot PROVE CacheCore'
<1>0. /\ ctl' = Tail(ctl) /\ pc' = "burst" /\ pc \in {"loop", "burst"}
      /\ Tail(ctl) \in Seq(ControlMessage) /\ Len(Tail(ctl)) <= MAX_CONTROL
  BY ControlIs, {"add"} \in SUBSET {"add", "remove", "evict"} DEF RejectSyncRoot, Served, Serving
<1>1. WorkerTypes'
  BY <1>0 DEF CacheCore, WorkerTypes, RejectSyncRoot, drain
<1>2. ServerTypes' /\ ChannelTypes' /\ FlagTypes'
  BY DEF CacheCore, ServerTypes, ChannelTypes, FlagTypes, RejectSyncRoot, server, socket,
         channel, db, drain
<1>3. DbTypes' /\ DrainTypes'
  BY DEF CacheCore, DbTypes, Marks, Record, DrainTypes, Cursor, Listing, RejectSyncRoot,
         server, socket, channel, db, drain
<1>4. WorkerShape' /\ SlowIsAccounted'
  BY <1>0 DEF CacheCore, WorkerShape, Resyncing, SlowIsAccounted, RejectSyncRoot, db, drain
<1> QED
  BY <1>1, <1>2, <1>3, <1>4 DEF CacheCore

LEMMA RemoveRegistrationKeepsCore == ASSUME CacheCore, RemoveRegistration PROVE CacheCore'
<1>0. /\ Head(ctl).root \in Roots /\ ctl' = Tail(ctl) /\ pc' = "burst" /\ pc \in {"loop", "burst"}
      /\ Tail(ctl) \in Seq(ControlMessage) /\ Len(Tail(ctl)) <= MAX_CONTROL
  BY ControlIs, {"remove", "evict"} \in SUBSET {"add", "remove", "evict"}
  DEF RemoveRegistration, Served, Serving
<1>1. /\ rows' \in [Roots -> SUBSET (1..Len(log))] /\ listed' \in Record
      /\ converged' \subseteq converged /\ stale' \subseteq converged'
  BY <1>0, NoRecord DEF CacheCore, DbTypes, RemoveRegistration
<1>2. DbTypes'
  BY <1>1 DEF CacheCore, DbTypes, Marks, Record, RemoveRegistration, server
<1>3. WorkerTypes'
  BY <1>0 DEF CacheCore, WorkerTypes, RemoveRegistration, drain
<1>4. WorkerShape' /\ SlowIsAccounted'
  BY <1>0, <1>1 DEF CacheCore, WorkerShape, Resyncing, SlowIsAccounted, RemoveRegistration, drain
<1>5. ServerTypes' /\ ChannelTypes' /\ FlagTypes' /\ DrainTypes'
  BY DEF CacheCore, ServerTypes, ChannelTypes, FlagTypes, DrainTypes, Marks, Cursor, Listing,
         RemoveRegistration, server, socket, channel, drain
<1> QED
  BY <1>2, <1>3, <1>4, <1>5 DEF CacheCore

LEMMA ConvergeNewRootsKeepsCore == ASSUME CacheCore, ConvergeNewRoots PROVE CacheCore'
<1>1. /\ pc = "burst" /\ pc' \in {"loop", "resync"} /\ fresh' = {} /\ fresh \subseteq Roots
      /\ UNCHANGED <<log, watermark, registered, cursor, slow, listing, listed, store>>
      /\ UNCHANGED <<server, socket, channel, gapCheck, retry, short, ctl, then, rows>>
  BY DEF CacheCore, WorkerTypes, ConvergeNewRoots, server, drain
<1>2. /\ stale' \subseteq converged' /\ converged' \subseteq converged \cup fresh
      /\ converged' \subseteq converged \/ fresh \subseteq HeldWhole
  BY DEF CacheCore, DbTypes, ConvergeNewRoots
<1>3. watermark = None => converged' = {}
  BY <1>2, HeldIs DEF CacheCore, WorkerShape
<1>4. DbTypes'
  BY <1>1, <1>2 DEF CacheCore, DbTypes, Marks, Record
<1>5. WorkerTypes'
  BY <1>1 DEF CacheCore, WorkerTypes, ConvergeNewRoots, MarkNeedsResync
<1>6. WorkerShape' /\ SlowIsAccounted'
  BY <1>1, <1>3 DEF CacheCore, WorkerShape, Resyncing, SlowIsAccounted
<1>7. ServerTypes' /\ ChannelTypes' /\ FlagTypes' /\ DrainTypes'
  BY <1>1 DEF CacheCore, ServerTypes, ChannelTypes, FlagTypes, DrainTypes, Marks, Cursor, Listing,
              ConvergeNewRoots, MarkNeedsResync, server, socket, channel
<1> QED
  BY <1>4, <1>5, <1>6, <1>7 DEF CacheCore

LEMMA StartResyncKeepsCore == ASSUME CacheCore, StartResync PROVE CacheCore'
<1>1. DbTypes'
  BY DEF CacheCore, DbTypes, ServerTypes, Marks, Record, StartResync, server, socket, channel,
         memory, drain
<1>2. WorkerTypes'
  BY DEF CacheCore, WorkerTypes, StartResync, server, socket, channel, memory, drain
<1>3. WorkerShape'
  BY DEF CacheCore, WorkerShape, DbTypes, Resyncing, StartResync, server, socket, channel,
         memory, drain
<1>4. SlowIsAccounted'
  BY DEF CacheCore, SlowIsAccounted, DbTypes, Batch, StartResync, server, socket, channel,
         memory, drain
<1>5. ServerTypes' /\ ChannelTypes' /\ FlagTypes' /\ DrainTypes'
  BY DEF CacheCore, ServerTypes, ChannelTypes, FlagTypes, DrainTypes, Marks, Cursor, Listing,
         StartResync, server, socket, channel, memory, drain
<1> QED
  BY <1>1, <1>2, <1>3, <1>4, <1>5 DEF CacheCore

LEMMA StartFailsKeepsCore == ASSUME CacheCore, StartFails PROVE CacheCore'
<1>1. WorkerTypes'
  BY DEF CacheCore, WorkerTypes, StartFails, server, socket, channel, db, memory, drain
<1>2. WorkerShape'
  BY DEF CacheCore, WorkerShape, DbTypes, Resyncing, StartFails, server, socket, channel, db,
         memory, drain
<1>3. SlowIsAccounted'
  BY DEF CacheCore, SlowIsAccounted, DbTypes, Batch, StartFails, server, socket, channel, db,
         memory, drain
<1>4. /\ ServerTypes' /\ ChannelTypes' /\ FlagTypes' /\ DbTypes'
      /\ DrainTypes'
  BY DEF CacheCore, ServerTypes, ChannelTypes, FlagTypes, DbTypes, Marks, Record, DrainTypes,
         Cursor, Listing, StartFails, server, socket, channel, db, memory, drain
<1> QED
  BY <1>1, <1>2, <1>3, <1>4 DEF CacheCore

LEMMA JumpWatermarkKeepsCore == ASSUME CacheCore, JumpWatermark PROVE CacheCore'
<1>1. listed' \in {listed, NoRoots} /\ watermark' \in {watermark, Len(log)} /\ Len(log) \in Marks
  BY LogIs DEF JumpWatermark, Marks
<1>2. FlagTypes'
  BY DEF CacheCore, FlagTypes, JumpWatermark, MarkNeedsResync, server, socket, channel, drain
<1>3. DbTypes'
  BY <1>1, NoRecord DEF CacheCore, DbTypes, Marks, Record, JumpWatermark, server
<1>4. WorkerTypes'
  BY DEF CacheCore, WorkerTypes, JumpWatermark, MarkNeedsResync, server, socket, channel, drain
<1>5. WorkerShape'
  BY DEF CacheCore, WorkerShape, DbTypes, Resyncing, JumpWatermark, MarkNeedsResync, server,
         socket, channel, drain
<1>6. SlowIsAccounted'
  BY DEF CacheCore, SlowIsAccounted, DbTypes, Batch, JumpWatermark, MarkNeedsResync, server,
         socket, channel, drain
<1>7. ServerTypes' /\ ChannelTypes' /\ DrainTypes'
  BY DEF CacheCore, ServerTypes, ChannelTypes, DrainTypes, Marks, Cursor, Listing,
         JumpWatermark, server, socket, channel, drain
<1> QED
  BY <1>2, <1>3, <1>4, <1>5, <1>6, <1>7 DEF CacheCore

LEMMA WaitAbortsKeepsCore == ASSUME CacheCore, WaitAborts PROVE CacheCore'
<1>1. FlagTypes'
  BY DEF CacheCore, FlagTypes, WaitAborts, Abort, MarkNeedsResync, NoListing, server, socket,
         channel, drain
<1>2. WorkerTypes'
  BY DEF CacheCore, WorkerTypes, WaitAborts, Abort, MarkNeedsResync, NoListing, server, socket,
         channel, drain
<1>3. DrainTypes'
  BY DEF CacheCore, DrainTypes, ServerTypes, DbTypes, Marks, Cursor, Listing, WaitAborts,
         Abort, MarkNeedsResync, NoListing, server, socket, channel, drain
<1>4. WorkerShape'
  BY DEF CacheCore, WorkerShape, DbTypes, Resyncing, WaitAborts, Abort, MarkNeedsResync,
         NoListing, server, socket, channel, drain
<1>5. SlowIsAccounted'
  BY DEF CacheCore, SlowIsAccounted, DbTypes, Batch, WaitAborts, Abort, MarkNeedsResync,
         NoListing, server, socket, channel, drain
<1>6. ServerTypes' /\ ChannelTypes' /\ DbTypes'
  BY DEF CacheCore, ServerTypes, ChannelTypes, DbTypes, Marks, Record, WaitAborts, Abort,
         server, socket, channel, drain
<1> QED
  BY <1>1, <1>2, <1>3, <1>4, <1>5, <1>6 DEF CacheCore

LEMMA LockAcquiredKeepsCore == ASSUME CacheCore, LockAcquired PROVE CacheCore'
<1>0. Len(log) \in 0..Len(log) /\ listing \in Listing
  BY LogIs DEF CacheCore, DrainTypes
<1>1. listing' \in Listing /\ listing'.at = Len(log)
  BY <1>0 DEF LockAcquired, Listing
<1>2. watermark <= Len(log)
  BY LogIs DEF CacheCore, DbTypes, Marks, None
<1>3. WorkerTypes'
  BY DEF CacheCore, WorkerTypes, LockAcquired, server, socket, channel, db, memory, drain
<1>4. DrainTypes'
  BY <1>1
  DEF CacheCore, DrainTypes, ServerTypes, DbTypes, Marks, Cursor, Listing, LockAcquired,
      server, socket, channel, db, memory, drain
<1>5. WorkerShape'
  BY <1>1, <1>2
  DEF CacheCore, WorkerShape, DbTypes, Resyncing, LockAcquired, server, socket, channel, db,
      memory, drain
<1>6. SlowIsAccounted'
  BY DEF CacheCore, SlowIsAccounted, DbTypes, Batch, LockAcquired, server, socket, channel, db,
         memory, drain
<1>7. ServerTypes' /\ ChannelTypes' /\ FlagTypes' /\ DbTypes'
  BY DEF CacheCore, ServerTypes, ChannelTypes, FlagTypes, DbTypes, Marks, Record, LockAcquired,
         server, socket, channel, db, memory, drain
<1> QED
  BY <1>3, <1>4, <1>5, <1>6, <1>7 DEF CacheCore

LEMMA ReadSnapshotFailsKeepsCore == ASSUME CacheCore, ReadSnapshotFails PROVE CacheCore'
<1>1. FlagTypes'
  BY DEF CacheCore, FlagTypes, ReadSnapshotFails, Abort, MarkNeedsResync, NoListing, server,
         socket, channel, drain
<1>2. WorkerTypes'
  BY DEF CacheCore, WorkerTypes, ReadSnapshotFails, Abort, MarkNeedsResync, NoListing, server,
         socket, channel, drain
<1>3. DrainTypes'
  BY DEF CacheCore, DrainTypes, ServerTypes, DbTypes, Marks, Cursor, Listing,
         ReadSnapshotFails, Abort, MarkNeedsResync, NoListing, server, socket, channel, drain
<1>4. WorkerShape'
  BY DEF CacheCore, WorkerShape, DbTypes, Resyncing, ReadSnapshotFails, Abort, MarkNeedsResync,
         NoListing, server, socket, channel, drain
<1>5. SlowIsAccounted'
  BY DEF CacheCore, SlowIsAccounted, DbTypes, Batch, ReadSnapshotFails, Abort, MarkNeedsResync,
         NoListing, server, socket, channel, drain
<1>6. ServerTypes' /\ ChannelTypes' /\ DbTypes'
  BY DEF CacheCore, ServerTypes, ChannelTypes, DbTypes, Marks, Record, ReadSnapshotFails,
         Abort, server, socket, channel, drain
<1> QED
  BY <1>1, <1>2, <1>3, <1>4, <1>5, <1>6 DEF CacheCore

LEMMA ListRootsKeepsCore == ASSUME CacheCore, ListRoots PROVE CacheCore'
<1>1. PICK ok \in (IF "listing" \in Faults THEN SUBSET registered ELSE {registered}) \ {{}} :
        listing' = [listing EXCEPT
                       !.of = [r \in Roots |-> IF r \in ok
                                               THEN Changes(r, Len(log)) \ lagging ELSE {}],
                       !.todo = ok, !.transient = ok # registered]
  BY DEF ListRoots
<1>5. ok \subseteq registered
  BY <1>1
<1>2. [r \in Roots |-> IF r \in ok THEN Changes(r, Len(log)) \ lagging ELSE {}]
        \in [Roots -> SUBSET (1..Len(log))]
  BY DEF Changes
<1>3. (ok # registered) \in BOOLEAN
  OBVIOUS
<1>4. listing' \in Listing /\ listing'.at = listing.at /\ listing'.todo = ok
  BY <1>1, <1>2, <1>3, <1>5 DEF CacheCore, DrainTypes, WorkerTypes, Listing
<1>6. DbTypes'
  BY NoRecord
  DEF CacheCore, DbTypes, ServerTypes, Marks, Record, ListRoots, server, socket, channel,
      memory, drain
<1>7. WorkerTypes'
  BY DEF CacheCore, WorkerTypes, ListRoots, server, socket, channel, memory, drain
<1>8. DrainTypes'
  <2>1. Listing' = Listing
    BY DEF Listing, ListRoots, server
  <2> QED
    BY <1>4, <2>1
    DEF CacheCore, DrainTypes, Cursor, Marks, ListRoots, server, socket, channel, memory, drain
<1>9. WorkerShape'
  BY <1>4, <1>5, NoRecord
  DEF CacheCore, WorkerShape, DbTypes, Resyncing, ListRoots, server, socket, channel, memory,
      drain
<1>10. SlowIsAccounted'
  BY DEF CacheCore, SlowIsAccounted, DbTypes, Batch, ListRoots, server, socket, channel,
         memory, drain
<1>11. ServerTypes' /\ ChannelTypes' /\ FlagTypes'
  BY DEF CacheCore, ServerTypes, ChannelTypes, FlagTypes, ListRoots, server, socket, channel,
         memory, drain
<1> QED
  BY <1>6, <1>7, <1>8, <1>9, <1>10, <1>11 DEF CacheCore

LEMMA ListNothingKeepsCore == ASSUME CacheCore, ListNothing PROVE CacheCore'
<1>1. FlagTypes'
  BY DEF CacheCore, FlagTypes, ListNothing, NoListing, NoRoots, server, socket, channel, drain
<1>2. DbTypes'
  BY DEF CacheCore, DbTypes, ServerTypes, Marks, Record, ListNothing, NoListing, NoRoots,
         server, socket, channel, drain
<1>3. WorkerTypes'
  BY DEF CacheCore, WorkerTypes, ListNothing, NoListing, NoRoots, server, socket, channel,
         drain
<1>4. DrainTypes'
  BY DEF CacheCore, DrainTypes, ServerTypes, DbTypes, Marks, Cursor, Listing, ListNothing,
         NoListing, NoRoots, server, socket, channel, drain
<1>5. WorkerShape'
  BY DEF CacheCore, WorkerShape, DbTypes, Resyncing, ListNothing, NoListing, NoRoots, server,
         socket, channel, drain
<1>6. SlowIsAccounted'
  BY DEF CacheCore, SlowIsAccounted, DbTypes, Batch, ListNothing, NoListing, NoRoots, server,
         socket, channel, drain
<1>7. ServerTypes' /\ ChannelTypes'
  BY DEF CacheCore, ServerTypes, ChannelTypes, ListNothing, server, socket, channel, drain
<1> QED
  BY <1>1, <1>2, <1>3, <1>4, <1>5, <1>6, <1>7 DEF CacheCore

LEMMA StopListingKeepsCore == ASSUME CacheCore, StopListing PROVE CacheCore'
<1>1. FlagTypes'
  BY DEF CacheCore, FlagTypes, StopListing, Abort, MarkNeedsResync, NoListing, server, socket,
         channel, drain
<1>2. WorkerTypes'
  BY DEF CacheCore, WorkerTypes, StopListing, Abort, MarkNeedsResync, NoListing, server,
         socket, channel, drain
<1>3. DrainTypes'
  BY DEF CacheCore, DrainTypes, ServerTypes, DbTypes, Marks, Cursor, Listing, StopListing,
         Abort, MarkNeedsResync, NoListing, server, socket, channel, drain
<1>4. WorkerShape'
  BY DEF CacheCore, WorkerShape, DbTypes, Resyncing, StopListing, Abort, MarkNeedsResync,
         NoListing, server, socket, channel, drain
<1>5. SlowIsAccounted'
  BY DEF CacheCore, SlowIsAccounted, DbTypes, Batch, StopListing, Abort, MarkNeedsResync,
         NoListing, server, socket, channel, drain
<1>6. ServerTypes' /\ ChannelTypes' /\ DbTypes'
  BY DEF CacheCore, ServerTypes, ChannelTypes, DbTypes, Marks, Record, StopListing, Abort,
         server, socket, channel, drain
<1> QED
  BY <1>1, <1>2, <1>3, <1>4, <1>5, <1>6 DEF CacheCore

LEMMA ApplySyntheticsKeepsCore ==
    ASSUME CacheCore, NEW r \in Roots, ApplySynthetics(r) PROVE CacheCore'
<1>1. PICK id \in Diff(r) :
        rows' = [rows EXCEPT ![r] = IF id \in @ THEN @ \ {id} ELSE @ \cup {id}]
  BY DEF ApplySynthetics
<1>2. rows \in [Roots -> SUBSET (1..Len(log))] /\ id \in 1..Len(log)
  BY DEF CacheCore, DbTypes, DrainTypes, Listing, Diff
<1>3. rows' \in [Roots -> SUBSET (1..Len(log))]
  BY <1>1, <1>2
<1>4. DbTypes'
  BY <1>3
  DEF CacheCore, DbTypes, ServerTypes, Marks, Record, ApplySynthetics, server, socket, channel,
      memory, drain
<1>5. /\ ServerTypes' /\ ChannelTypes' /\ FlagTypes' /\ WorkerTypes'
      /\ DrainTypes' /\ WorkerShape' /\ SlowIsAccounted'
  BY DEF CacheCore, ServerTypes, ChannelTypes, FlagTypes, WorkerTypes, DrainTypes, Marks,
         Cursor, Listing, WorkerShape, Resyncing, SlowIsAccounted, Batch, ApplySynthetics,
         server, socket, channel, memory, drain
<1> QED
  BY <1>4, <1>5 DEF CacheCore

LEMMA ApplyFailsKeepsCore == ASSUME CacheCore, ApplyFails PROVE CacheCore'
<1>1. FlagTypes'
  BY DEF CacheCore, FlagTypes, ApplyFails, MarkNeedsResync, NoListing, server, socket, channel,
         drain
<1>2. WorkerTypes'
  BY DEF CacheCore, WorkerTypes, ApplyFails, MarkNeedsResync, NoListing, server, socket,
         channel, drain
<1>3. DrainTypes'
  BY DEF CacheCore, DrainTypes, ServerTypes, DbTypes, Marks, Cursor, Listing, ApplyFails,
         MarkNeedsResync, NoListing, server, socket, channel, drain
<1>4. WorkerShape'
  BY DEF CacheCore, WorkerShape, DbTypes, Resyncing, ApplyFails, MarkNeedsResync, NoListing,
         server, socket, channel, drain
<1>5. SlowIsAccounted'
  BY DEF CacheCore, SlowIsAccounted, DbTypes, Batch, ApplyFails, MarkNeedsResync, NoListing,
         server, socket, channel, drain
<1>6. ServerTypes' /\ ChannelTypes' /\ DbTypes'
  BY DEF CacheCore, ServerTypes, ChannelTypes, DbTypes, Marks, Record, ApplyFails, server,
         socket, channel, drain
<1> QED
  BY <1>1, <1>2, <1>3, <1>4, <1>5, <1>6 DEF CacheCore

LEMMA CommitResyncKeepsCore == ASSUME CacheCore, CommitResync PROVE CacheCore'
<1>1. /\ listing.at \in 0..Len(log) /\ listing.todo \subseteq Roots /\ listing.transient \in BOOLEAN
      /\ Len(log) \in Nat /\ Len(log) <= MAX_ID
  BY DEF CacheCore, ServerTypes, DrainTypes, Listing
<1>2. watermark' = listing.at /\ listing.at \in Marks /\ watermark' # None
  BY <1>1 DEF CommitResync, Marks, None
<1>3. listed' \in Record
  BY <1>1, NoRecord DEF CommitResync, Record
<1>4. needsResync' = listing.transient /\ UNCHANGED <<live, shed, latching, retry>>
  BY DEF CommitResync, socket, channel, memory
<1>5. FlagTypes'
  BY <1>1, <1>4 DEF CacheCore, FlagTypes
<1>6. DbTypes'
  BY <1>1, <1>2, <1>3
  DEF CacheCore, DbTypes, ServerTypes, Marks, Record, CommitResync, NoListing, server, socket,
      channel, memory
<1>7. WorkerTypes'
  BY DEF CacheCore, WorkerTypes, CommitResync, NoListing, server, socket, channel, memory
<1>8. DrainTypes'
  BY <1>1
  DEF CacheCore, DrainTypes, ServerTypes, DbTypes, Marks, Cursor, Listing, CommitResync,
      NoListing, server, socket, channel, memory
<1>9. WorkerShape'
  BY <1>2
  DEF CacheCore, WorkerShape, DbTypes, Resyncing, CommitResync, NoListing, server, socket,
      channel, memory
<1>10. SlowIsAccounted'
  BY DEF CacheCore, SlowIsAccounted, DbTypes, Batch, CommitResync, NoListing, server, socket,
         channel, memory
<1>11. ServerTypes' /\ ChannelTypes'
  BY DEF CacheCore, ServerTypes, ChannelTypes, CommitResync, server, socket, channel, memory
<1> QED
  BY <1>5, <1>6, <1>7, <1>8, <1>9, <1>10, <1>11 DEF CacheCore

-----------------------------------------------------------------------------
LEMMA CoreIsInductive == ASSUME CacheCore, [Next]_vars PROVE CacheCore'
<1>1. CASE \E r \in Roots, kind \in Kinds : Change(r, kind)
  BY <1>1, ChangeKeepsCore
<1>2. CASE \E id \in Ids : Settle(id)
  BY <1>2, SettleKeepsCore
<1>3. CASE Subscribe
  BY <1>3, SubscribeKeepsCore
<1>4. CASE Disconnect
  BY <1>4, DisconnectKeepsCore
<1>5. CASE Deliver
  BY <1>5, DeliverKeepsCore
<1>6. CASE DropEvent
  BY <1>6, DropEventKeepsCore
<1>7. CASE LatchShed
  BY <1>7, LatchShedKeepsCore
<1>8. CASE Control
  BY <1>8, ControlKeepsCore
<1>9. CASE Boot
  BY <1>9, BootKeepsCore
<1>10. CASE Crash
  BY <1>10, CrashKeepsCore
<1>11. CASE Exit
  BY <1>11, ExitKeepsCore
<1>12. CASE EventArm
  BY <1>12, EventArmKeepsCore
<1>13. CASE Shutdown
  BY <1>13, ShutdownKeepsCore
<1>14. CASE WaitDrain
  BY <1>14, WaitDrainKeepsCore
<1>15. CASE DrainBatch
  BY <1>15, DrainBatchKeepsCore
<1>16. CASE DrainBatchAborts
  BY <1>16, DrainBatchAbortsKeepsCore
<1>17. CASE ApplyAlone
  BY <1>17, ApplyAloneKeepsCore
<1>18. CASE Quarantine
  BY <1>18, QuarantineKeepsCore
<1>19. CASE CommitDrainBatch
  BY <1>19, CommitDrainBatchKeepsCore
<1>20. CASE DrainPendingEnds
  BY <1>20, DrainPendingEndsKeepsCore
<1>21. CASE ResyncDrainEnds
  BY <1>21, ResyncDrainEndsKeepsCore
<1>22. CASE GapCheckDue
  BY <1>22, GapCheckDueKeepsCore
<1>23. CASE CatchUp
  BY <1>23, CatchUpKeepsCore
<1>24. CASE ResyncRetry
  BY <1>24, ResyncRetryKeepsCore
<1>25. CASE RelistShortRoots
  BY <1>25, RelistShortRootsKeepsCore
<1>26. CASE AddSyncRoot
  BY <1>26, AddSyncRootKeepsCore
<1>27. CASE RejectSyncRoot
  BY <1>27, RejectSyncRootKeepsCore
<1>28. CASE RemoveRegistration
  BY <1>28, RemoveRegistrationKeepsCore
<1>29. CASE StartResync
  BY <1>29, StartResyncKeepsCore
<1>30. CASE StartFails
  BY <1>30, StartFailsKeepsCore
<1>31. CASE JumpWatermark
  BY <1>31, JumpWatermarkKeepsCore
<1>32. CASE WaitAborts
  BY <1>32, WaitAbortsKeepsCore
<1>33. CASE LockAcquired
  BY <1>33, LockAcquiredKeepsCore
<1>34. CASE ReadSnapshotFails
  BY <1>34, ReadSnapshotFailsKeepsCore
<1>35. CASE ListRoots
  BY <1>35, ListRootsKeepsCore
<1>36. CASE ListNothing
  BY <1>36, ListNothingKeepsCore
<1>37. CASE StopListing
  BY <1>37, StopListingKeepsCore
<1>38. CASE \E r \in Roots : ApplySynthetics(r)
  BY <1>38, ApplySyntheticsKeepsCore
<1>39. CASE ApplyFails
  BY <1>39, ApplyFailsKeepsCore
<1>40. CASE CommitResync
  BY <1>40, CommitResyncKeepsCore
<1>42. CASE ConvergeNewRoots
  BY <1>42, ConvergeNewRootsKeepsCore
<1>41. CASE UNCHANGED vars
  <2>1. ServerTypes' /\ ChannelTypes' /\ FlagTypes' /\ DbTypes'
    BY <1>41
    DEF vars, CacheCore, ServerTypes, ChannelTypes, FlagTypes, DbTypes, Marks, Record,
        server, socket, channel, db, memory, drain
  <2>2. WorkerTypes' /\ DrainTypes' /\ WorkerShape' /\ SlowIsAccounted'
    BY <1>41
    DEF vars, CacheCore, WorkerTypes, DrainTypes, Marks, Cursor, Listing, WorkerShape,
        Resyncing, SlowIsAccounted, Batch, server, socket, channel, db, memory, drain
  <2> QED
    BY <2>1, <2>2 DEF CacheCore
<1> QED
  BY <1>1, <1>2, <1>3, <1>4, <1>5, <1>6, <1>7, <1>8, <1>9, <1>10, <1>11, <1>12, <1>13, <1>14,
     <1>15, <1>16, <1>17, <1>18, <1>19, <1>20, <1>21, <1>22, <1>23, <1>24, <1>25, <1>26,
     <1>27, <1>28, <1>29, <1>30, <1>31, <1>32, <1>33, <1>34, <1>35, <1>36, <1>37, <1>38,
     <1>39, <1>40, <1>41, <1>42
  DEF Next, Environment, Worker

LEMMA CoreInit == ASSUME Init PROVE CacheCore
<1>1. FlagTypes /\ WorkerTypes
  <2>1. ctl \in Seq(ControlMessage) /\ Len(ctl) = 0
    BY DEF Init, MemoryInit
  <2>2. FlagTypes
    BY DEF Init, MemoryInit, FlagTypes
  <2>3. WorkerTypes
    BY <2>1 DEF Init, MemoryInit, WorkerTypes
  <2> QED
    BY <2>2, <2>3
<1>3. ServerTypes
  BY DEF Init, MemoryInit, ServerTypes
<1>4. WorkerShape /\ SlowIsAccounted
  BY DEF Init, MemoryInit, WorkerShape, Resyncing, SlowIsAccounted
<1>2. ChannelTypes /\ DbTypes /\ DrainTypes
  BY DEF Init, MemoryInit, ChannelTypes, DbTypes, DrainTypes, Marks, Record, Cursor, Listing,
         NoRoots, NoCursor, NoListing
<1> QED
  BY <1>1, <1>2, <1>3, <1>4 DEF CacheCore

LEMMA CoreHolds == Spec => []CacheCore
<1>1. Init => CacheCore
  BY CoreInit
<1>2. CacheCore /\ [Next]_vars => CacheCore'
  BY CoreIsInductive
<1> QED
  BY <1>1, <1>2, PTL DEF Spec

-----------------------------------------------------------------------------
(* What leaves the store. *)

LEMMA StoreIsKept ==
    ASSUME CacheCore, [Next]_vars,
           ~DrainBatch, ~CommitDrainBatch, ~JumpWatermark, ~CommitResync
    PROVE  store \subseteq store' /\ UNCHANGED watermark
<1>1. ASSUME (\E r \in Roots, kind \in Kinds : Change(r, kind)) \/ (\E id \in Ids : Settle(id)) \/ Subscribe
      PROVE  store \subseteq store' /\ UNCHANGED watermark
  BY <1>1 DEF Change, Settle, Subscribe, socket, channel, db, memory, drain, server
<1>2. ASSUME Disconnect \/ Deliver \/ DropEvent \/ LatchShed
      PROVE  store \subseteq store' /\ UNCHANGED watermark
  BY <1>2
  DEF Disconnect, Deliver, DropEvent, LatchShed, server, db, memory, drain, channel, socket
<1>3. ASSUME Control \/ Boot \/ Crash
      PROVE  store \subseteq store' /\ UNCHANGED watermark
  BY <1>3 DEF Control, Boot, Crash, LoseMemory, server, socket, channel, db, drain, memory
<1>4. ASSUME EventArm \/ Shutdown \/ WaitDrain
      PROVE  store \subseteq store' /\ UNCHANGED watermark
  BY <1>4 DEF EventArm, DrainPending, Shutdown, WaitDrain, server, socket
<1>5. ASSUME DrainBatchAborts \/ ApplyAlone \/ Quarantine
      PROVE  store \subseteq store' /\ UNCHANGED watermark
  BY <1>5 DEF DrainBatchAborts, ApplyAlone, Quarantine, server, socket, channel, db, memory
<1>6. ASSUME DrainPendingEnds \/ ResyncDrainEnds \/ GapCheckDue \/ CatchUp
      PROVE  store \subseteq store' /\ UNCHANGED watermark
  BY <1>6
  DEF DrainPendingEnds, ResyncDrainEnds, GapCheckDue, RunGapCheck, CatchUp, server, socket,
      memory, channel, db, drain
<1>7. ASSUME ResyncRetry \/ RelistShortRoots \/ AddSyncRoot \/ RejectSyncRoot
      PROVE  store \subseteq store' /\ UNCHANGED watermark
  BY <1>7
  DEF ResyncRetry, RelistShortRoots, AddSyncRoot, RejectSyncRoot, server, socket, channel, db,
      drain
<1>8. ASSUME RemoveRegistration \/ ConvergeNewRoots \/ Exit \/ StartResync \/ StartFails
      PROVE  store \subseteq store' /\ UNCHANGED watermark
  BY <1>8
  DEF RemoveRegistration, ConvergeNewRoots, Exit, LoseMemory, StartResync, StartFails, server, socket, channel,
      drain, db, memory
<1>9. ASSUME WaitAborts \/ LockAcquired \/ ReadSnapshotFails \/ StopListing
      PROVE  store \subseteq store' /\ UNCHANGED watermark
  BY <1>9
  DEF WaitAborts, Abort, LockAcquired, ReadSnapshotFails, StopListing, server, socket, channel,
      drain, db, memory
<1>10. ASSUME ListRoots \/ ListNothing \/ (\E r \in Roots : ApplySynthetics(r)) \/ ApplyFails
      PROVE  store \subseteq store' /\ UNCHANGED watermark
  BY <1>10
  DEF ListRoots, ListNothing, ApplySynthetics, ApplyFails, server, socket, channel, memory,
      drain
<1>11. CASE UNCHANGED vars
  BY <1>11 DEF vars, db
<1> QED
  BY <1>1, <1>2, <1>3, <1>4, <1>5, <1>6, <1>7, <1>8, <1>9, <1>10, <1>11
  DEF Next, Environment, Worker

LEMMA ConsumedStep ==
    ASSUME CacheCore, [Next]_vars
    PROVE  /\ \A id \in store \ store' : id <= watermark' \/ needsResync'
           /\ watermark' >= watermark
<1>1. CASE DrainBatch
  <2>1. PICK ids \in SUBSET Batch, c \in Cursor :
          /\ watermark <= c.frontier
          /\ \A id \in Batch : id <= c.frontier \/ c.broken
          /\ watermark' = c.frontier /\ needsResync' = (needsResync \/ c.broken)
          /\ store' = store \ Batch
    BY <1>1, DrainBatchIs
  <2>2. c.frontier \in Int
    BY LogIs DEF Cursor, Marks, None
  <2> QED
    BY <2>1, <2>2, LogIs
<1>2. CASE CommitDrainBatch
  <2>1. /\ \A id \in Batch : id <= cursor.frontier \/ cursor.broken
        /\ watermark <= cursor.frontier
    BY <1>2 DEF CacheCore, WorkerShape, SlowIsAccounted, CommitDrainBatch
  <2>2. /\ watermark' = cursor.frontier /\ needsResync' = (needsResync \/ cursor.broken)
        /\ store' = store \ Batch
    BY <1>2 DEF CommitDrainBatch
  <2> QED
    BY <2>1, <2>2, LogIs
<1>3. CASE JumpWatermark
  <2>1. store' = store /\ watermark' \in {watermark, Len(log)}
    BY <1>3 DEF JumpWatermark
  <2>2. watermark <= Len(log)
    BY LogIs DEF CacheCore, DbTypes, Marks, None
  <2> QED
    BY <2>1, <2>2, LogIs
<1>4. CASE CommitResync
  <2>1. store' = store /\ watermark' = listing.at /\ watermark <= listing.at
    BY <1>4 DEF CacheCore, WorkerShape, CommitResync
  <2> QED
    BY <2>1, LogIs
<1>5. CASE ~DrainBatch /\ ~CommitDrainBatch /\ ~JumpWatermark /\ ~CommitResync
  BY <1>5, StoreIsKept, LogIs
<1> QED
  BY <1>1, <1>2, <1>3, <1>4, <1>5

(* ConsumedIsAccounted, whatever fails: a persisted event is deleted with  *)
(* the watermark at it or past it, or with a resync recorded in the same   *)
(* transaction, and the watermark never goes back (commit_drain_batch,     *)
(* run_resync).                                                            *)
THEOREM EventsAreAccountedFor == Spec => ConsumedIsAccounted
<1>1. CacheCore /\ [Next]_vars =>
        [/\ \A id \in store \ store' : id <= watermark' \/ needsResync'
         /\ watermark' >= watermark]_vars
  BY ConsumedStep
<1> QED
  BY <1>1, CoreHolds, PTL DEF Spec, ConsumedIsAccounted

-----------------------------------------------------------------------------
(* What the records claim.                                                 *)

(* Only restores are listed late, where anything is *)
LagIsRestored == \A id \in lagging : "lag" \in Faults /\ log[id].kind = "restore"

RecordsWhole ==
    LagIsRestored /\ SlowIsWhole /\ ListingIsWhole /\ ConvergedIsWhole /\ HeldIsWhole

(* A drain that moves from f to g along the events it applies leaves the   *)
(* roots whole that it does not leave short                                *)
LEMMA DrainFills ==
    ASSUME CacheCore, NEW ids, ids \subseteq 1..Len(log), NEW f \in Marks, NEW g \in Marks,
           f # None, (f + 1)..g \subseteq ids,
           NEW r \in registered, r \notin Shortened(ids), Promised(r, f) \subseteq rows[r]
    PROVE  Promised(r, g) \subseteq Applied(ids)[r]
<1>1. r \in Roots /\ Applied(ids)[r] = rows[r] \cup {id \in ids : log[id] = [root |-> r, kind |-> "plain"]}
  BY DEF CacheCore, WorkerTypes, Applied
<1> SUFFICES ASSUME NEW id \in 1..g, log[id].root = r,
                    log[id].kind = "restore" => "lag" \notin Faults
             PROVE id \in Applied(ids)[r]
  BY DEF Promised, Changes
<1>2. f \in Int /\ g \in Int /\ 0 <= f /\ g <= Len(log) /\ id \in 1..Len(log)
  BY LogIs DEF Marks, None
<1>3. CASE id <= f
  BY <1>1, <1>2, <1>3 DEF Promised, Changes
<1>4. CASE ~(id <= f)
  <2>1. id \in (f + 1)..g
    BY <1>2, <1>4
  <2>2. id \in ids
    BY <2>1
  <2>3. log[id] \in [root : Roots, kind : Kinds] /\ log[id] = [root |-> r, kind |-> log[id].kind]
    BY <1>2, LogIs
  <2>4. log[id].kind # "noop" /\ log[id].kind # "restore"
    BY <2>2, <2>3 DEF Shortened
  <2>5. log[id].kind = "plain"
    BY <2>3, <2>4, KindsAssumption
  <2> QED
    BY <1>1, <2>2, <2>3, <2>5
<1> QED
  BY <1>3, <1>4

LEMMA DrainKeepsRows ==
    ASSUME CacheCore, NEW ids, NEW r \in Roots PROVE rows[r] \subseteq Applied(ids)[r]
  BY DEF Applied

(* The registered roots a sync pass may plan against *)
Recorded == (converged \cap registered) \ stale

(* Roots leave the records, and no drain or listing starts: what is left   *)
(* is whole                                                                *)
LEMMA FewerRecords ==
    ASSUME CacheCore, RecordsWhole,
           UNCHANGED <<log, rows, watermark>>, lagging' \subseteq lagging,
           Recorded' \subseteq Recorded, HeldWhole' \subseteq HeldWhole,
           pc' = "slow" => pc = "slow" /\ cursor'.frontier = cursor.frontier /\ registered' = registered,
           pc' = "apply" => pc = "apply" /\ listing' = listing
    PROVE  RecordsWhole'
<1>1. SlowIsWhole'
  BY DEF RecordsWhole, SlowIsWhole, Recorded, Promised, Changes
<1>2. ListingIsWhole'
  BY DEF RecordsWhole, ListingIsWhole, Promised, Changes
<1>4. ConvergedIsWhole'
  BY DEF RecordsWhole, ConvergedIsWhole, Recorded, Promised, Changes
<1>5. HeldIsWhole'
  BY DEF RecordsWhole, HeldIsWhole, Promised, Changes
<1>6. LagIsRestored'
  BY DEF RecordsWhole, LagIsRestored
<1> QED
  BY <1>1, <1>2, <1>4, <1>5, <1>6 DEF RecordsWhole

LEMMA SubscribeKeepsRecords ==
    ASSUME CacheCore, RecordsWhole, Subscribe PROVE RecordsWhole'
  BY FewerRecords
  DEF Recorded, HeldWhole, Subscribe, server, db, memory, drain

LEMMA DisconnectKeepsRecords ==
    ASSUME CacheCore, RecordsWhole, Disconnect PROVE RecordsWhole'
  BY FewerRecords
  DEF Recorded, HeldWhole, Disconnect, server, db, memory, drain

LEMMA DeliverKeepsRecords ==
    ASSUME CacheCore, RecordsWhole, Deliver PROVE RecordsWhole'
  BY FewerRecords
  DEF Recorded, HeldWhole, Deliver, server, db, memory, drain

LEMMA DropEventKeepsRecords ==
    ASSUME CacheCore, RecordsWhole, DropEvent PROVE RecordsWhole'
  BY FewerRecords
  DEF Recorded, HeldWhole, DropEvent, server, channel, db, memory,
      drain

LEMMA LatchShedKeepsRecords ==
    ASSUME CacheCore, RecordsWhole, LatchShed PROVE RecordsWhole'
  BY FewerRecords
  DEF Recorded, HeldWhole, LatchShed, server, socket, db, memory,
      drain

LEMMA ControlKeepsRecords ==
    ASSUME CacheCore, RecordsWhole, Control PROVE RecordsWhole'
  BY FewerRecords
  DEF Recorded, HeldWhole, Control, server, socket, channel, db,
      drain

LEMMA SettleKeepsRecords ==
    ASSUME CacheCore, RecordsWhole, NEW id \in Ids, Settle(id) PROVE RecordsWhole'
  BY FewerRecords
  DEF Recorded, HeldWhole, Settle, socket, channel, db, memory,
      drain

LEMMA BootKeepsRecords ==
    ASSUME CacheCore, RecordsWhole, Boot PROVE RecordsWhole'
  BY FewerRecords
  DEF Recorded, HeldWhole, Boot, server, socket, channel, memory

LEMMA CrashKeepsRecords ==
    ASSUME CacheCore, RecordsWhole, Crash PROVE RecordsWhole'
  BY FewerRecords
  DEF Recorded, HeldWhole, Crash, LoseMemory, server, db

LEMMA ExitKeepsRecords ==
    ASSUME CacheCore, RecordsWhole, Exit PROVE RecordsWhole'
  BY FewerRecords
  DEF Recorded, HeldWhole, Exit, LoseMemory, server, db

LEMMA EventArmKeepsRecords ==
    ASSUME CacheCore, RecordsWhole, EventArm PROVE RecordsWhole'
  BY FewerRecords
  DEF Recorded, HeldWhole, EventArm, DrainPending, Selecting,
      server, socket

LEMMA ShutdownKeepsRecords ==
    ASSUME CacheCore, RecordsWhole, Shutdown PROVE RecordsWhole'
  BY FewerRecords
  DEF Recorded, HeldWhole, Shutdown, DrainPending, Selecting,
      server, socket

LEMMA WaitDrainKeepsRecords ==
    ASSUME CacheCore, RecordsWhole, WaitDrain PROVE RecordsWhole'
  BY FewerRecords
  DEF Recorded, HeldWhole, WaitDrain, DrainPending, Selecting,
      server, socket

LEMMA QuarantineKeepsRecords ==
    ASSUME CacheCore, RecordsWhole, Quarantine PROVE RecordsWhole'
  BY FewerRecords
  DEF Recorded, HeldWhole, Quarantine, server, socket, channel, db,
      memory

LEMMA DrainPendingEndsKeepsRecords ==
    ASSUME CacheCore, RecordsWhole, DrainPendingEnds PROVE RecordsWhole'
  BY FewerRecords
  DEF Recorded, HeldWhole, DrainPendingEnds, DrainDone,
      MaybeRunResync, server, socket, memory, CacheCore, WorkerTypes

LEMMA ResyncDrainEndsKeepsRecords ==
    ASSUME CacheCore, RecordsWhole, ResyncDrainEnds PROVE RecordsWhole'
  BY FewerRecords
  DEF Recorded, HeldWhole, ResyncDrainEnds, DrainDone, server,
      socket, channel, db

LEMMA GapCheckDueKeepsRecords ==
    ASSUME CacheCore, RecordsWhole, GapCheckDue PROVE RecordsWhole'
  BY FewerRecords
  DEF Recorded, HeldWhole, GapCheckDue, RunGapCheck, MaybeRunResync,
      server, socket, channel, db, drain

LEMMA CatchUpKeepsRecords ==
    ASSUME CacheCore, RecordsWhole, CatchUp PROVE RecordsWhole'
  BY FewerRecords
  DEF Recorded, HeldWhole, CatchUp, RunGapCheck, MaybeRunResync,
      Quiet, Selecting, server, socket, channel, db, drain

LEMMA ResyncRetryKeepsRecords ==
    ASSUME CacheCore, RecordsWhole, ResyncRetry PROVE RecordsWhole'
  BY FewerRecords
  DEF Recorded, HeldWhole, ResyncRetry, MaybeRunResync, Quiet,
      Selecting, server, socket, channel, db, drain

LEMMA RelistShortRootsKeepsRecords ==
    ASSUME CacheCore, RecordsWhole, RelistShortRoots PROVE RecordsWhole'
  BY FewerRecords
  DEF Recorded, HeldWhole, RelistShortRoots, MaybeRunResync, Quiet,
      Selecting, server, socket, channel, drain

LEMMA RejectSyncRootKeepsRecords ==
    ASSUME CacheCore, RecordsWhole, RejectSyncRoot PROVE RecordsWhole'
  BY FewerRecords
  DEF Served, Recorded, HeldWhole, RejectSyncRoot, Selecting, server,
      socket, channel, db, drain

LEMMA StartResyncKeepsRecords ==
    ASSUME CacheCore, RecordsWhole, StartResync PROVE RecordsWhole'
  BY FewerRecords
  DEF Recorded, HeldWhole, StartResync, server, socket, channel,
      memory, drain

LEMMA StartFailsKeepsRecords ==
    ASSUME CacheCore, RecordsWhole, StartFails PROVE RecordsWhole'
  BY FewerRecords
  DEF Recorded, HeldWhole, StartFails, server, socket, channel, db,
      memory, drain

LEMMA WaitAbortsKeepsRecords ==
    ASSUME CacheCore, RecordsWhole, WaitAborts PROVE RecordsWhole'
  BY FewerRecords
  DEF Recorded, HeldWhole, WaitAborts, Abort, server, socket,
      channel, drain

LEMMA ReadSnapshotFailsKeepsRecords ==
    ASSUME CacheCore, RecordsWhole, ReadSnapshotFails PROVE RecordsWhole'
  BY FewerRecords
  DEF Recorded, HeldWhole, ReadSnapshotFails, Abort, server, socket,
      channel, drain

LEMMA StopListingKeepsRecords ==
    ASSUME CacheCore, RecordsWhole, StopListing PROVE RecordsWhole'
  BY FewerRecords
  DEF Recorded, HeldWhole, StopListing, Abort, server, socket,
      channel, drain

LEMMA LockAcquiredKeepsRecords ==
    ASSUME CacheCore, RecordsWhole, LockAcquired PROVE RecordsWhole'
  BY FewerRecords
  DEF Recorded, HeldWhole, LockAcquired, server, socket, channel,
      db, memory, drain

LEMMA ListNothingKeepsRecords ==
    ASSUME CacheCore, RecordsWhole, ListNothing PROVE RecordsWhole'
  BY FewerRecords
  DEF Recorded, HeldWhole, ListNothing, NoRoots, server, socket,
      channel, drain

LEMMA ApplyFailsKeepsRecords ==
    ASSUME CacheCore, RecordsWhole, ApplyFails PROVE RecordsWhole'
  BY FewerRecords
  DEF Recorded, HeldWhole, ApplyFails, server, socket, channel,
      drain

LEMMA ChangeKeepsRecords ==
    ASSUME CacheCore, RecordsWhole, NEW r \in Roots, NEW kind \in Kinds, Change(r, kind)
    PROVE  RecordsWhole'
<1>1. UNCHANGED <<rows, watermark, converged, stale, registered, listed, pc, cursor, listing>>
  BY DEF Change, db, memory, drain
<1>2. \A x, n : n \in Marks => Promised(x, n)' = Promised(x, n)
  <2> SUFFICES ASSUME NEW n \in Marks, NEW id \in 1..n PROVE log'[id] = log[id]
    BY DEF Promised, Changes
  <2>1. id \in 1..Len(log)
    BY LogIs DEF Marks, None
  <2> QED
    BY <2>1, LogGrows
<1>3. watermark \in Marks /\ cursor.frontier \in Marks /\ listing.at \in Marks
  BY DEF CacheCore, DbTypes, DrainTypes, Cursor, Listing, Marks
<1>4. /\ \A x : /\ Promised(x, watermark)' = Promised(x, watermark)
                /\ Promised(x, cursor.frontier)' = Promised(x, cursor.frontier)
                /\ Promised(x, listing.at)' = Promised(x, listing.at)
      /\ HeldWhole' = HeldWhole
  BY <1>1, <1>2, <1>3 DEF HeldWhole, Promised, Changes
<1>5. LagIsRestored'
  <2> SUFFICES ASSUME NEW id \in lagging' PROVE "lag" \in Faults /\ log'[id].kind = "restore"
    BY DEF LagIsRestored
  <2>1. CASE id \in lagging
    BY <2>1, LogGrows DEF RecordsWhole, LagIsRestored, CacheCore, ServerTypes
  <2>2. CASE id \notin lagging
    <3>1. kind = "restore" /\ "lag" \in Faults /\ id = Len(log) + 1
      BY <2>2 DEF Change
    <3>2. log' = Append(log, [root |-> r, kind |-> kind])
      BY DEF Change
    <3>3. log'[Len(log) + 1] = [root |-> r, kind |-> kind]
      BY <3>2, LogIs
    <3> QED
      BY <3>1, <3>3
  <2> QED
    BY <2>1, <2>2
<1> QED
  BY <1>1, <1>4, <1>5
  DEF RecordsWhole, SlowIsWhole, ListingIsWhole, ConvergedIsWhole, HeldIsWhole

LEMMA DrainBatchKeepsRecords ==
    ASSUME CacheCore, RecordsWhole, DrainBatch PROVE RecordsWhole'
<1>1. PICK ids \in SUBSET Batch, c \in Cursor :
        /\ ids \subseteq 1..Len(log) /\ watermark <= c.frontier
        /\ watermark # None => (watermark + 1)..c.frontier \subseteq ids
        /\ rows' = Applied(ids) /\ converged' = converged \ Shortened(ids) /\ stale' = stale \ Shortened(ids)
        /\ listed' = Carried(Forgotten(ids), c.frontier)
        /\ watermark' = c.frontier
  BY DrainBatchIs
<1>2. /\ UNCHANGED <<log, lagging, registered, pc>> /\ pc = "drain"
      /\ watermark \in Marks /\ c.frontier \in Marks
  BY DEF DrainBatch, server, CacheCore, DbTypes, Cursor
<1>3. /\ Forgotten(ids) \in Record
      /\ Forgotten(ids).roots \subseteq listed.roots \ Shortened(ids)
      /\ Forgotten(ids).roots # {} => Forgotten(ids).stamp = listed.stamp
  BY <1>1, DrainWrites
<1>4. ASSUME NEW r \in registered, r \notin Shortened(ids), watermark # None,
             Promised(r, watermark) \subseteq rows[r]
      PROVE  Promised(r, watermark)' \subseteq rows'[r]
  <2>1. Promised(r, c.frontier) \subseteq Applied(ids)[r]
    BY <1>1, <1>2, <1>4, DrainFills
  <2> QED
    BY <1>1, <1>2, <2>1 DEF Promised, Changes
<1>5. ConvergedIsWhole'
  <2> SUFFICES ASSUME NEW r \in (converged' \cap registered') \ stale'
               PROVE  Promised(r, watermark)' \subseteq rows'[r]
    BY DEF ConvergedIsWhole
  <2>1. r \in converged /\ r \in registered /\ r \notin Shortened(ids) /\ r \notin stale
    BY <1>1, <1>2
  <2>2. watermark # None /\ Promised(r, watermark) \subseteq rows[r]
    BY <2>1 DEF CacheCore, WorkerShape, RecordsWhole, ConvergedIsWhole
  <2> QED
    BY <1>4, <2>1, <2>2
<1>6. HeldIsWhole'
  <2> SUFFICES ASSUME NEW r \in HeldWhole' PROVE Promised(r, watermark)' \subseteq rows'[r]
    BY DEF HeldIsWhole
  <2>1. r \in listed'.roots /\ listed'.stamp = c.frontier
    BY <1>1 DEF HeldWhole
  <2>2. r \in Forgotten(ids).roots /\ r \in listed.roots \ Shortened(ids)
    BY <1>1, <1>2, <1>3, <2>1, CarriedIs
  <2>3. r \in Roots
    BY <2>2 DEF CacheCore, DbTypes, Record
  <2>4. CASE c.frontier = watermark
    <3>1. listed' = Forgotten(ids)
      BY <1>1, <2>4 DEF Carried
    <3>2. listed.stamp = watermark
      BY <1>3, <2>1, <2>2, <2>4, <3>1
    <3>3. Promised(r, watermark) \subseteq rows[r]
      BY <2>2, <3>2 DEF RecordsWhole, HeldIsWhole, HeldWhole
    <3> QED
      BY <1>1, <1>2, <2>3, <2>4, <3>3, DrainKeepsRows DEF Promised, Changes
  <2>5. CASE c.frontier # watermark
    <3>1. Forgotten(ids).stamp = watermark /\ r \in registered
      BY <1>1, <1>2, <1>3, <2>1, <2>5, CarriedIs
    <3>2. r \in HeldWhole
      BY <1>3, <2>2, <3>1 DEF HeldWhole
    <3>3. watermark # None /\ Promised(r, watermark) \subseteq rows[r]
      BY <3>2, HeldIs DEF RecordsWhole, HeldIsWhole
    <3> QED
      BY <1>4, <2>2, <3>1, <3>3
  <2> QED
    BY <2>4, <2>5
<1>7. LagIsRestored' /\ SlowIsWhole' /\ ListingIsWhole'
  BY <1>1, <1>2 DEF RecordsWhole, LagIsRestored, SlowIsWhole, ListingIsWhole
<1> QED
  BY <1>5, <1>6, <1>7 DEF RecordsWhole

LEMMA DrainBatchAbortsKeepsRecords ==
    ASSUME CacheCore, RecordsWhole, DrainBatchAborts PROVE RecordsWhole'
<1>1. /\ UNCHANGED <<log, lagging, rows, watermark, converged, stale, registered, listed>>
      /\ pc' = "slow" /\ pc = "drain"
  BY DEF DrainBatchAborts, server, db
<1>2. cursor'.frontier = watermark /\ HeldWhole' = HeldWhole
  BY <1>1, AbortsIs DEF HeldWhole
<1>3. SlowIsWhole'
  BY <1>1, <1>2 DEF SlowIsWhole, RecordsWhole, ConvergedIsWhole, HeldIsWhole, Promised, Changes
<1> QED
  BY <1>1, <1>2, <1>3
  DEF RecordsWhole, LagIsRestored, ListingIsWhole, ConvergedIsWhole, HeldIsWhole, Promised, Changes

LEMMA ApplyAloneKeepsRecords ==
    ASSUME CacheCore, RecordsWhole, ApplyAlone PROVE RecordsWhole'
<1>1. PICK id \in slow, c \in Cursor :
        /\ id \in 1..Len(log) /\ cursor.frontier <= c.frontier
        /\ cursor.frontier # None => (cursor.frontier + 1)..c.frontier \subseteq {id}
        /\ rows' = Applied({id}) /\ converged' = converged \ Shortened({id}) /\ stale' = stale \ Shortened({id})
        /\ listed' = Forgotten({id}) /\ cursor' = c
  BY ApplyAloneIs
<1>2. /\ UNCHANGED <<log, lagging, registered, pc, watermark>> /\ pc = "slow"
      /\ cursor.frontier \in Marks /\ c.frontier \in Marks /\ watermark <= cursor.frontier
      /\ registered \subseteq Roots
  BY DEF ApplyAlone, server, CacheCore, DrainTypes, WorkerTypes, WorkerShape, Cursor
<1>3. {id} \subseteq 1..Len(log)
  BY <1>1
<1>4. HeldWhole' \subseteq HeldWhole \ Shortened({id})
  BY <1>1, <1>2, <1>3, DrainWrites DEF HeldWhole
<1>5. \A r \in Roots : rows[r] \subseteq rows'[r]
  BY <1>1, DrainKeepsRows
<1>6. SlowIsWhole'
  <2> SUFFICES ASSUME NEW r \in registered' \cap ((converged' \ stale') \cup HeldWhole')
               PROVE  Promised(r, cursor.frontier)' \subseteq rows'[r]
    BY DEF SlowIsWhole
  <2>1. r \in registered /\ r \in (converged \ stale) \cup HeldWhole /\ r \notin Shortened({id})
    BY <1>1, <1>2, <1>4
  <2>2. Promised(r, cursor.frontier) \subseteq rows[r]
    BY <1>2, <2>1 DEF RecordsWhole, SlowIsWhole
  <2>3. watermark # None
    BY <2>1, HeldIs DEF CacheCore, WorkerShape
  <2>4. cursor.frontier # None
    <3>1. watermark \in 0..Len(log)
      BY <2>3 DEF CacheCore, DbTypes, Marks
    <3> QED
      BY <1>2, <3>1, LogIs DEF None
  <2>5. Promised(r, c.frontier) \subseteq Applied({id})[r]
    BY <1>1, <1>2, <1>3, <2>1, <2>2, <2>4, DrainFills
  <2> QED
    BY <1>1, <1>2, <2>5 DEF Promised, Changes
<1>7. ConvergedIsWhole'
  BY <1>1, <1>2, <1>5 DEF RecordsWhole, ConvergedIsWhole, Promised, Changes
<1>8. HeldWhole \subseteq Roots
  BY DEF HeldWhole, CacheCore, DbTypes, Record
<1>9. HeldIsWhole'
  BY <1>2, <1>4, <1>5, <1>8 DEF RecordsWhole, HeldIsWhole, Promised, Changes
<1> QED
  BY <1>1, <1>2, <1>6, <1>7, <1>9 DEF RecordsWhole, LagIsRestored, ListingIsWhole

LEMMA CommitDrainBatchKeepsRecords ==
    ASSUME CacheCore, RecordsWhole, CommitDrainBatch PROVE RecordsWhole'
<1>1. /\ UNCHANGED <<log, lagging, rows, converged, stale, registered>>
      /\ pc = "slow" /\ pc' = "drain" /\ watermark' = cursor.frontier
      /\ listed' = Carried(listed, cursor.frontier)
      /\ cursor.frontier \in Marks /\ watermark <= cursor.frontier /\ listed \in Record
  BY DEF CommitDrainBatch, server, memory, CacheCore, DrainTypes, DbTypes, WorkerShape, Cursor
<1>2. ConvergedIsWhole'
  BY <1>1 DEF RecordsWhole, SlowIsWhole, ConvergedIsWhole, Promised, Changes
<1>3. HeldIsWhole'
  <2> SUFFICES ASSUME NEW r \in HeldWhole' PROVE Promised(r, watermark)' \subseteq rows'[r]
    BY DEF HeldIsWhole
  <2>1. r \in listed'.roots /\ listed'.stamp = cursor.frontier
    BY <1>1 DEF HeldWhole
  <2>2. CASE cursor.frontier = watermark
    BY <1>1, <2>1, <2>2 DEF Carried, RecordsWhole, HeldIsWhole, HeldWhole, Promised, Changes
  <2>3. CASE cursor.frontier # watermark
    <3>1. listed.stamp = watermark /\ r \in registered /\ r \in listed.roots
      BY <1>1, <2>1, <2>3, CarriedIs
    <3>2. Promised(r, cursor.frontier) \subseteq rows[r]
      BY <1>1, <3>1 DEF RecordsWhole, SlowIsWhole, HeldWhole
    <3> QED
      BY <1>1, <3>2 DEF Promised, Changes
  <2> QED
    BY <2>2, <2>3
<1> QED
  BY <1>1, <1>2, <1>3 DEF RecordsWhole, LagIsRestored, SlowIsWhole, ListingIsWhole

LEMMA AddSyncRootKeepsRecords ==
    ASSUME CacheCore, RecordsWhole, AddSyncRoot PROVE RecordsWhole'
<1>1. /\ UNCHANGED <<log, lagging, rows, watermark, listed, converged>> /\ pc' = "burst"
      /\ registered' = registered \cup {Head(ctl).root}
      /\ stale' = stale \cup (converged \cap {Head(ctl).root})
  BY DEF AddSyncRoot, Served, server
<1>2. Recorded' \subseteq Recorded /\ HeldWhole' = HeldWhole
  BY <1>1 DEF Recorded, HeldWhole
<1> QED
  BY <1>1, <1>2, FewerRecords

LEMMA RemoveRegistrationKeepsRecords ==
    ASSUME CacheCore, RecordsWhole, RemoveRegistration PROVE RecordsWhole'
<1> DEFINE r == Head(ctl).root
<1>1. /\ UNCHANGED <<log, lagging, watermark>> /\ pc' = "burst"
      /\ registered' = registered \ {r} /\ stale' = stale \ {r} /\ converged' \subseteq converged
      /\ \/ UNCHANGED <<rows, listed>>
         \/ rows' = [rows EXCEPT ![r] = {}] /\ listed' = NoRoots
  BY DEF RemoveRegistration, Served, server
<1> HIDE DEF r
<1>2. Recorded' \subseteq Recorded \ {r}
  BY <1>1 DEF Recorded
<1>3. CASE UNCHANGED <<rows, listed>>
  BY <1>1, <1>2, <1>3, FewerRecords DEF HeldWhole
<1>4. CASE rows' = [rows EXCEPT ![r] = {}] /\ listed' = NoRoots
  <2>1. \A x \in Roots \ {r} : rows'[x] = rows[x]
    BY <1>4 DEF CacheCore, DbTypes
  <2>2. Recorded \subseteq Roots
    BY DEF Recorded, CacheCore, DbTypes
  <2>3. ConvergedIsWhole'
    BY <1>1, <1>2, <2>1, <2>2 DEF RecordsWhole, ConvergedIsWhole, Recorded, Promised, Changes
  <2>4. HeldIsWhole'
    BY <1>4, NoRecord DEF HeldIsWhole, HeldWhole
  <2> QED
    BY <1>1, <2>3, <2>4 DEF RecordsWhole, LagIsRestored, SlowIsWhole, ListingIsWhole
<1> QED
  BY <1>1, <1>3, <1>4

LEMMA ConvergeNewRootsKeepsRecords ==
    ASSUME CacheCore, RecordsWhole, ConvergeNewRoots PROVE RecordsWhole'
<1>1. /\ UNCHANGED <<log, lagging, rows, watermark, listed, registered>> /\ pc' \in {"loop", "resync"}
      /\ \/ UNCHANGED <<converged, stale>>
         \/ /\ converged' = converged \cup fresh /\ stale' = stale \ fresh
            /\ fresh \subseteq HeldWhole
  BY DEF ConvergeNewRoots, server
<1>2. HeldIsWhole' /\ HeldWhole' = HeldWhole
  BY <1>1 DEF RecordsWhole, HeldIsWhole, HeldWhole, Promised, Changes
<1>3. \A x \in Recorded' : x \in Recorded \/ x \in HeldWhole
  BY <1>1 DEF Recorded
<1>4. ConvergedIsWhole'
  BY <1>1, <1>3 DEF RecordsWhole, ConvergedIsWhole, HeldIsWhole, Recorded, Promised, Changes
<1> QED
  BY <1>1, <1>2, <1>4 DEF RecordsWhole, LagIsRestored, SlowIsWhole, ListingIsWhole

LEMMA JumpWatermarkKeepsRecords ==
    ASSUME CacheCore, RecordsWhole, JumpWatermark PROVE RecordsWhole'
<1>1. /\ UNCHANGED <<log, lagging, rows, registered>> /\ pc' = "loop" /\ converged' = {}
      /\ listed'.roots = {} \/ UNCHANGED <<watermark, listed>>
  BY NoRecord DEF JumpWatermark, server
<1>2. HeldIsWhole'
  BY <1>1 DEF RecordsWhole, HeldIsWhole, HeldWhole, Promised, Changes
<1> QED
  BY <1>1, <1>2
  DEF RecordsWhole, LagIsRestored, SlowIsWhole, ListingIsWhole, ConvergedIsWhole

LEMMA ListRootsKeepsRecords ==
    ASSUME CacheCore, RecordsWhole, ListRoots PROVE RecordsWhole'
<1>1. /\ UNCHANGED <<log, lagging, registered, converged>> /\ pc' = "apply" /\ listed'.roots = {}
      /\ converged = {} /\ listing.at \in 0..Len(log)
  BY NoRecord DEF ListRoots, server, memory, RecordsWhole, CacheCore, DrainTypes, WorkerShape,
     Resyncing, Listing
<1>2. PICK ok \in (IF "listing" \in Faults THEN SUBSET registered ELSE {registered}) \ {{}} :
        listing' = [listing EXCEPT
                       !.of = [r \in Roots |-> IF r \in ok
                                               THEN Changes(r, Len(log)) \ lagging ELSE {}],
                       !.todo = ok, !.transient = ok # registered]
  BY DEF ListRoots
<1>3. /\ listing'.at = listing.at /\ listing'.todo = ok /\ ok \subseteq Roots
      /\ \A r \in ok : listing'.of[r] = Changes(r, Len(log)) \ lagging
  BY <1>1, <1>2 DEF CacheCore, DrainTypes, WorkerTypes, Listing
<1>5. \A r \in ok : Promised(r, listing.at) \subseteq Changes(r, Len(log)) \ lagging
  BY <1>1, LogIs DEF RecordsWhole, LagIsRestored, Promised, Changes
<1>4. ListingIsWhole'
  BY <1>1, <1>3, <1>5 DEF ListingIsWhole, Promised, Changes
<1> QED
  BY <1>1, <1>4
  DEF RecordsWhole, LagIsRestored, SlowIsWhole, ConvergedIsWhole, HeldIsWhole, HeldWhole

LEMMA ApplySyntheticsKeepsRecords ==
    ASSUME CacheCore, RecordsWhole, NEW r \in Roots, ApplySynthetics(r)
    PROVE  RecordsWhole'
<1>1. /\ UNCHANGED <<log, lagging, registered, converged, listed, pc, listing>> /\ pc = "apply"
      /\ converged = {} /\ listed.roots = {}
  BY DEF ApplySynthetics, server, memory, CacheCore, WorkerShape, Resyncing
<1> QED
  BY <1>1
  DEF RecordsWhole, LagIsRestored, SlowIsWhole, ListingIsWhole, ConvergedIsWhole,
      HeldIsWhole, HeldWhole, Promised, Changes

LEMMA CommitResyncKeepsRecords ==
    ASSUME CacheCore, RecordsWhole, CommitResync PROVE RecordsWhole'
<1>1. /\ UNCHANGED <<log, lagging, registered, rows>> /\ pc' = "drain"
      /\ watermark' = listing.at /\ converged' \subseteq listing.todo
      /\ listed'.roots \subseteq converged' /\ listing.todo \subseteq registered
  BY NoRecord DEF CommitResync, server, memory, CacheCore, WorkerShape
<1>2. \A r \in listing.todo : Promised(r, listing.at) \subseteq rows[r]
  BY DEF CommitResync, Diff, RecordsWhole, ListingIsWhole
<1>3. \A r \in converged' : Promised(r, watermark)' \subseteq rows'[r]
  BY <1>1, <1>2 DEF Promised, Changes
<1> QED
  BY <1>1, <1>3
  DEF RecordsWhole, LagIsRestored, SlowIsWhole, ListingIsWhole, ConvergedIsWhole,
      HeldIsWhole, HeldWhole

LEMMA RecordsAreInductive ==
    ASSUME CacheCore, RecordsWhole, [Next]_vars PROVE RecordsWhole'
<1>1. CASE \E r \in Roots, kind \in Kinds : Change(r, kind)
  BY <1>1, ChangeKeepsRecords
<1>2. CASE \E id \in Ids : Settle(id)
  BY <1>2, SettleKeepsRecords
<1>3. CASE Subscribe
  BY <1>3, SubscribeKeepsRecords
<1>4. CASE Disconnect
  BY <1>4, DisconnectKeepsRecords
<1>5. CASE Deliver
  BY <1>5, DeliverKeepsRecords
<1>6. CASE DropEvent
  BY <1>6, DropEventKeepsRecords
<1>7. CASE LatchShed
  BY <1>7, LatchShedKeepsRecords
<1>8. CASE Control
  BY <1>8, ControlKeepsRecords
<1>9. CASE Boot
  BY <1>9, BootKeepsRecords
<1>10. CASE Crash
  BY <1>10, CrashKeepsRecords
<1>11. CASE Exit
  BY <1>11, ExitKeepsRecords
<1>12. CASE EventArm
  BY <1>12, EventArmKeepsRecords
<1>13. CASE Shutdown
  BY <1>13, ShutdownKeepsRecords
<1>14. CASE WaitDrain
  BY <1>14, WaitDrainKeepsRecords
<1>15. CASE DrainBatch
  BY <1>15, DrainBatchKeepsRecords
<1>16. CASE DrainBatchAborts
  BY <1>16, DrainBatchAbortsKeepsRecords
<1>17. CASE ApplyAlone
  BY <1>17, ApplyAloneKeepsRecords
<1>18. CASE Quarantine
  BY <1>18, QuarantineKeepsRecords
<1>19. CASE CommitDrainBatch
  BY <1>19, CommitDrainBatchKeepsRecords
<1>20. CASE DrainPendingEnds
  BY <1>20, DrainPendingEndsKeepsRecords
<1>21. CASE ResyncDrainEnds
  BY <1>21, ResyncDrainEndsKeepsRecords
<1>22. CASE GapCheckDue
  BY <1>22, GapCheckDueKeepsRecords
<1>23. CASE CatchUp
  BY <1>23, CatchUpKeepsRecords
<1>24. CASE ResyncRetry
  BY <1>24, ResyncRetryKeepsRecords
<1>25. CASE RelistShortRoots
  BY <1>25, RelistShortRootsKeepsRecords
<1>26. CASE AddSyncRoot
  BY <1>26, AddSyncRootKeepsRecords
<1>27. CASE RejectSyncRoot
  BY <1>27, RejectSyncRootKeepsRecords
<1>28. CASE RemoveRegistration
  BY <1>28, RemoveRegistrationKeepsRecords
<1>29. CASE StartResync
  BY <1>29, StartResyncKeepsRecords
<1>30. CASE StartFails
  BY <1>30, StartFailsKeepsRecords
<1>31. CASE JumpWatermark
  BY <1>31, JumpWatermarkKeepsRecords
<1>32. CASE WaitAborts
  BY <1>32, WaitAbortsKeepsRecords
<1>33. CASE LockAcquired
  BY <1>33, LockAcquiredKeepsRecords
<1>34. CASE ReadSnapshotFails
  BY <1>34, ReadSnapshotFailsKeepsRecords
<1>35. CASE ListRoots
  BY <1>35, ListRootsKeepsRecords
<1>36. CASE ListNothing
  BY <1>36, ListNothingKeepsRecords
<1>37. CASE StopListing
  BY <1>37, StopListingKeepsRecords
<1>38. CASE \E r \in Roots : ApplySynthetics(r)
  BY <1>38, ApplySyntheticsKeepsRecords
<1>39. CASE ApplyFails
  BY <1>39, ApplyFailsKeepsRecords
<1>40. CASE CommitResync
  BY <1>40, CommitResyncKeepsRecords
<1>41. CASE UNCHANGED vars
  BY <1>41, FewerRecords DEF vars, server, db, memory, drain, Recorded, HeldWhole
<1>42. CASE ConvergeNewRoots
  BY <1>42, ConvergeNewRootsKeepsRecords
<1> QED
  BY <1>1, <1>2, <1>3, <1>4, <1>5, <1>6, <1>7, <1>8, <1>9, <1>10, <1>11, <1>12, <1>13, <1>14,
     <1>15, <1>16, <1>17, <1>18, <1>19, <1>20, <1>21, <1>22, <1>23, <1>24, <1>25, <1>26,
     <1>27, <1>28, <1>29, <1>30, <1>31, <1>32, <1>33, <1>34, <1>35, <1>36, <1>37, <1>38,
     <1>39, <1>40, <1>41, <1>42
  DEF Next, Environment, Worker

(* RecordInvariant: both records name only roots whose rows show every     *)
(* change up to the watermark, whatever is dropped, shed, corrupt,         *)
(* quarantined, not written or cut short, across any number of control     *)
(* bursts and restarts (converged_roots_on, listed_roots_on).              *)
THEOREM RecordsAreTrue == Spec => []RecordInvariant
<1>1. Init => RecordsWhole
  <2> SUFFICES ASSUME Init PROVE RecordsWhole
    OBVIOUS
  <2>1. HeldWhole = {} /\ converged = {} /\ lagging = {} /\ pc = "off"
    BY DEF Init, MemoryInit, NoRoots, HeldWhole
  <2> QED
    BY <2>1
    DEF RecordsWhole, LagIsRestored, SlowIsWhole, ListingIsWhole, ConvergedIsWhole, HeldIsWhole
<1>2. CacheCore /\ RecordsWhole /\ [Next]_vars => RecordsWhole'
  BY RecordsAreInductive
<1>3. CacheCore /\ RecordsWhole => RecordInvariant
  BY DEF CacheCore, RecordsWhole, RecordInvariant, TypeOK
<1> QED
  BY <1>1, <1>2, <1>3, CoreHolds, PTL DEF Spec

-----------------------------------------------------------------------------
(* Roots that wait for their relist. *)

(* A change that leaves r short of the remote *)
Shortens(id, r) == log[id].kind = "noop" \/ log[id] = [root |-> r, kind |-> "restore"]

(* A listed root that waits for its relist has a change that left it short *)
(* above the watermark, and no drain has passed it                         *)
ShortIsAhead ==
    /\ watermark = None => listed.roots = {}
    /\ \A r \in listed.roots \cap short : \E id \in 1..Len(log) :
         /\ Shortens(id, r) /\ id > watermark
         /\ pc = "slow" /\ r \in registered => id > cursor.frontier

LEMMA MarkOrZero ==
    ASSUME CacheCore
    PROVE  /\ Max({watermark, 0}) \in Int /\ Max({watermark, 0}) \in {watermark, 0}
           /\ watermark <= Max({watermark, 0}) /\ 0 <= Max({watermark, 0})
<1>1. {watermark, 0} \subseteq {None} \cup 0..Len(log) /\ {watermark, 0} # {}
  BY LogIs DEF CacheCore, DbTypes, Marks
<1>2. Max({watermark, 0}) \in {watermark, 0} /\ \A y \in {watermark, 0} : y <= Max({watermark, 0})
  BY <1>1, LogIs, MaxIs
<1> QED
  BY <1>2, LogIs

LEMMA ShortenedBy ==
    ASSUME NEW ids, NEW r \in registered
    PROVE  r \in Shortened(ids) <=> \E id \in ids : Shortens(id, r)
  BY DEF Shortened, Shortens

LEMMA ShortIsInductive ==
    ASSUME CacheCore, ShortIsAhead, [Next]_vars
    PROVE  ShortIsAhead'
<1>1. CASE \E r \in Roots, kind \in Kinds : Change(r, kind)
  <2> PICK r \in Roots, kind \in Kinds : Change(r, kind)
    BY <1>1
  <2>1. /\ Len(log) \in Nat /\ Len(log') = Len(log) + 1
        /\ \A id \in 1..Len(log) : log'[id] = log[id]
    BY LogGrows
  <2>2. UNCHANGED <<watermark, listed, short, registered, pc, cursor>>
    BY DEF Change, db, memory, drain
  <2>3. \A id \in 1..Len(log) : id \in 1..Len(log') /\ \A q : Shortens(id, q) => Shortens(id, q)'
    BY <2>1 DEF Shortens
  <2> QED
    BY <2>2, <2>3 DEF ShortIsAhead
<1>2. CASE \E id \in Ids : Settle(id)
  BY <1>2 DEF ShortIsAhead, Shortens, Settle, socket, channel, db, memory, drain
<1>3. CASE Subscribe
  BY <1>3 DEF ShortIsAhead, Shortens, Subscribe, RouteThreadEvent, server, db, memory, drain
<1>4. CASE Disconnect
  BY <1>4 DEF ShortIsAhead, Shortens, Disconnect, RouteThreadEvent, server, db, memory, drain
<1>5. CASE Deliver
  BY <1>5 DEF ShortIsAhead, Shortens, Deliver, RouteThreadEvent, server, db, memory, drain
<1>6. CASE DropEvent
  BY <1>6 DEF ShortIsAhead, Shortens, DropEvent, server, channel, db, memory, drain
<1>7. CASE LatchShed
  BY <1>7 DEF ShortIsAhead, Shortens, LatchShed, server, socket, db, memory, drain
<1>8. CASE Control
  BY <1>8 DEF ShortIsAhead, Shortens, Control, server, socket, channel, db, drain
<1>9. CASE Boot
  BY <1>9 DEF ShortIsAhead, Shortens, Boot, server, socket, channel, memory
<1>10. CASE Crash
  BY <1>10 DEF ShortIsAhead, Shortens, Crash, LoseMemory, server, db
<1>11. CASE Exit
  BY <1>11 DEF ShortIsAhead, Shortens, Exit, LoseMemory, server, db
<1>12. CASE EventArm
  BY <1>12 DEF ShortIsAhead, Shortens, EventArm, DrainPending, Selecting, server, socket
<1>13. CASE Shutdown
  BY <1>13 DEF ShortIsAhead, Shortens, Shutdown, DrainPending, server, socket
<1>14. CASE WaitDrain
  BY <1>14 DEF ShortIsAhead, Shortens, WaitDrain, DrainPending, server, socket
<1>15. CASE DrainBatch
  <2>1. PICK ids \in SUBSET Batch, c \in Cursor :
          /\ ids \subseteq 1..Len(log) /\ watermark <= c.frontier
          /\ watermark # None => (watermark + 1)..c.frontier \subseteq ids
          /\ short' = short \cup Shortened(ids)
          /\ listed' = Carried(Forgotten(ids), c.frontier) /\ watermark' = c.frontier
    BY <1>15, DrainBatchIs
  <2>2. pc' = "drain" /\ UNCHANGED <<log, registered>>
    BY <1>15 DEF DrainBatch, server
  <2>3. c.frontier \in Marks /\ c.frontier \in Int /\ watermark \in Int
    BY LogIs DEF Cursor, Marks, None
  <2>4. /\ listed'.roots \subseteq listed.roots \ Shortened(ids)
        /\ c.frontier # watermark /\ listed'.roots # {} => listed'.roots \subseteq registered
    BY <2>1, <2>3, DrainWrites, CarriedIs
  <2>5. watermark' = None => watermark = None
    BY <2>1, <2>3 DEF CacheCore, DbTypes, Marks, None
  <2>6. ASSUME NEW r \in listed'.roots \cap short'
        PROVE  \E id \in 1..Len(log) : Shortens(id, r) /\ id > c.frontier
    <3>1. r \in listed.roots \cap short /\ r \notin Shortened(ids) /\ watermark # None
      BY <2>1, <2>4 DEF ShortIsAhead
    <3>2. PICK id \in 1..Len(log) : Shortens(id, r) /\ id > watermark
      BY <3>1 DEF ShortIsAhead
    <3>3. CASE c.frontier = watermark
      BY <3>2, <3>3
    <3>4. CASE c.frontier # watermark
      <4>1. id \notin ids
        BY <2>4, <3>1, <3>2, <3>4, ShortenedBy
      <4>2. ~(id \in (watermark + 1)..c.frontier)
        BY <2>1, <3>1, <4>1
      <4> QED
        BY <2>3, <3>2, <4>2
    <3> QED
      BY <3>3, <3>4
  <2> QED
    BY <2>1, <2>2, <2>4, <2>5, <2>6 DEF ShortIsAhead, Shortens
<1>16. CASE DrainBatchAborts
  <2>1. PICK corrupt \in Corrupt : \E n \in Fresh(Batch \ corrupt) :
          short' = short \cup Shortened({id \in Fresh(Batch \ corrupt) : id < n})
    BY <1>16 DEF DrainBatchAborts
  <2>2. PICK n \in Fresh(Batch \ corrupt) :
          short' = short \cup Shortened({id \in Fresh(Batch \ corrupt) : id < n})
    BY <2>1
  <2> DEFINE T == {id \in Fresh(Batch \ corrupt) : id < n}
  <2>3. T \subseteq 1..Len(log) /\ \A id \in T : id > watermark
    BY BatchIs DEF Fresh
  <2>4. cursor'.frontier = watermark
    BY <1>16, AbortsIs
  <2>5. UNCHANGED <<log, watermark, listed, registered>>
    BY <1>16 DEF DrainBatchAborts, server, db
  <2> HIDE DEF T
  <2>6. \A r \in Shortened(T) : \E id \in T : Shortens(id, r)
    BY DEF Shortened, Shortens
  <2>7. \A r \in listed.roots \cap short' : \E id \in 1..Len(log) : Shortens(id, r) /\ id > watermark
    BY <2>2, <2>3, <2>6 DEF ShortIsAhead, T
  <2> QED
    BY <2>4, <2>5, <2>7 DEF ShortIsAhead, Shortens
<1>17. CASE ApplyAlone
  <2>1. PICK a \in slow, c \in Cursor :
          /\ a \in 1..Len(log)
          /\ cursor.frontier # None => (cursor.frontier + 1)..c.frontier \subseteq {a}
          /\ short' = short \cup Shortened({a}) /\ listed' = Forgotten({a}) /\ cursor' = c
    BY <1>17, ApplyAloneIs
  <2>2. pc = "slow" /\ UNCHANGED <<log, registered, watermark, pc>>
    BY <1>17 DEF ApplyAlone, server
  <2>3. /\ c.frontier \in Int /\ watermark \in Int /\ cursor.frontier \in Int
        /\ watermark <= cursor.frontier /\ (watermark # None => cursor.frontier # None)
    BY <2>2, LogIs DEF CacheCore, WorkerShape, DbTypes, Cursor, Marks, None
  <2>4. listed'.roots \subseteq listed.roots \ Shortened({a})
    BY <2>1, DrainWrites, {a} \subseteq 1..Len(log)
  <2>5. ASSUME NEW r \in listed'.roots \cap short'
        PROVE  \E id \in 1..Len(log) :
                 Shortens(id, r) /\ id > watermark /\ (r \in registered => id > c.frontier)
    <3>1. r \in listed.roots \cap short /\ r \notin Shortened({a}) /\ watermark # None
      BY <2>1, <2>4 DEF ShortIsAhead
    <3>2. PICK id \in 1..Len(log) :
            Shortens(id, r) /\ id > watermark /\ (r \in registered => id > cursor.frontier)
      BY <2>2, <3>1 DEF ShortIsAhead
    <3>3. r \in registered => id # a
      BY <3>1, <3>2, ShortenedBy
    <3>4. r \in registered => ~(id \in (cursor.frontier + 1)..c.frontier)
      BY <2>1, <2>3, <3>1, <3>3
    <3>5. r \in registered => id > c.frontier
      BY <2>3, <3>2, <3>4
    <3> QED
      BY <3>2, <3>5
  <2> QED
    BY <2>1, <2>2, <2>4, <2>5 DEF ShortIsAhead, Shortens
<1>18. CASE Quarantine
  BY <1>18 DEF ShortIsAhead, Shortens, Quarantine, server, socket, channel, db, memory
<1>19. CASE CommitDrainBatch
  <2>1. /\ pc = "slow" /\ pc' = "drain" /\ UNCHANGED <<log, registered, short>>
        /\ listed' = Carried(listed, cursor.frontier) /\ watermark' = cursor.frontier
    BY <1>19 DEF CommitDrainBatch, memory, server
  <2>2. /\ cursor.frontier \in Marks /\ watermark <= cursor.frontier /\ listed \in Record
        /\ watermark' = None => watermark = None
    BY <2>1, LogIs DEF CacheCore, DbTypes, DrainTypes, Cursor, WorkerShape, Marks, None
  <2>3. /\ listed'.roots \subseteq listed.roots
        /\ cursor.frontier # watermark /\ listed'.roots # {} => listed'.roots \subseteq registered
    BY <2>1, <2>2, CarriedIs
  <2>4. \A r \in listed'.roots \cap short : \E id \in 1..Len(log) :
          Shortens(id, r) /\ id > cursor.frontier
    BY <2>1, <2>3 DEF ShortIsAhead
  <2> QED
    BY <2>1, <2>2, <2>3, <2>4 DEF ShortIsAhead, Shortens
<1>20. CASE DrainPendingEnds
  BY <1>20
  DEF ShortIsAhead, Shortens, DrainPendingEnds, DrainDone, MaybeRunResync, server, socket,
      memory, CacheCore, WorkerTypes
<1>21. CASE ResyncDrainEnds
  BY <1>21 DEF ShortIsAhead, Shortens, ResyncDrainEnds, DrainDone, server, socket, channel, db
<1>22. CASE GapCheckDue
  BY <1>22
  DEF ShortIsAhead, Shortens, GapCheckDue, RunGapCheck, MaybeRunResync, Selecting, server,
      socket, channel, db, drain
<1>23. CASE CatchUp
  BY <1>23
  DEF ShortIsAhead, Shortens, CatchUp, RunGapCheck, MaybeRunResync, Quiet, Selecting, server,
      socket, channel, db, drain
<1>24. CASE ResyncRetry
  BY <1>24
  DEF ShortIsAhead, Shortens, ResyncRetry, MaybeRunResync, Quiet, Selecting, server, socket,
      channel, db, drain
<1>25. CASE RelistShortRoots
  BY <1>25
  DEF ShortIsAhead, Shortens, RelistShortRoots, MaybeRunResync, MarkNeedsResync, Quiet,
      Selecting, server, socket, channel, drain
<1>26. CASE AddSyncRoot
  BY <1>26
  DEF ShortIsAhead, Shortens, AddSyncRoot, Served, server, socket, channel, drain
<1>27. CASE RejectSyncRoot
  BY <1>27
  DEF ShortIsAhead, Shortens, RejectSyncRoot, Served, server, socket, channel, db, drain
<1>28. CASE RemoveRegistration
  BY <1>28, NoRecord
  DEF ShortIsAhead, Shortens, RemoveRegistration, Served, server, socket, channel, drain
<1>29. CASE StartResync
  BY <1>29 DEF ShortIsAhead, Shortens, StartResync, server, socket, channel, memory, drain
<1>30. CASE StartFails
  BY <1>30 DEF ShortIsAhead, Shortens, StartFails, server, socket, channel, db, memory, drain
<1>31. CASE JumpWatermark
  BY <1>31, NoRecord
  DEF ShortIsAhead, Shortens, JumpWatermark, MarkNeedsResync, server, socket, channel, drain
<1>32. CASE WaitAborts
  BY <1>32
  DEF ShortIsAhead, Shortens, WaitAborts, Abort, MarkNeedsResync, server, socket, channel,
      drain
<1>33. CASE LockAcquired
  BY <1>33 DEF ShortIsAhead, Shortens, LockAcquired, server, socket, channel, db, memory, drain
<1>34. CASE ReadSnapshotFails
  BY <1>34
  DEF ShortIsAhead, Shortens, ReadSnapshotFails, Abort, MarkNeedsResync, server, socket,
      channel, drain
<1>35. CASE ListRoots
  BY <1>35, NoRecord
  DEF ShortIsAhead, Shortens, ListRoots, server, socket, channel, memory, drain
<1>36. CASE ListNothing
  BY <1>36, NoRecord DEF ShortIsAhead, Shortens, ListNothing, server, socket, channel, drain
<1>37. CASE StopListing
  BY <1>37
  DEF ShortIsAhead, Shortens, StopListing, Abort, MarkNeedsResync, server, socket, channel,
      drain
<1>38. CASE \E r \in Roots : ApplySynthetics(r)
  BY <1>38 DEF ShortIsAhead, Shortens, ApplySynthetics, server, socket, channel, memory, drain
<1>39. CASE ApplyFails
  BY <1>39
  DEF ShortIsAhead, Shortens, ApplyFails, MarkNeedsResync, server, socket, channel, drain
<1>40. CASE CommitResync
  BY <1>40, NoRecord
  DEF ShortIsAhead, Shortens, CommitResync, server, socket, channel, memory, CacheCore,
      DrainTypes, Listing, None
<1>42. CASE ConvergeNewRoots
  <2>1. UNCHANGED <<log, watermark, listed, short, registered, cursor>> /\ pc' # "slow"
    BY <1>42 DEF ConvergeNewRoots, server, drain
  <2> QED
    BY <2>1 DEF ShortIsAhead, Shortens
<1>41. CASE UNCHANGED vars
  BY <1>41 DEF ShortIsAhead, Shortens, vars, server, socket, channel, db, memory, drain
<1> QED
  BY <1>1, <1>2, <1>3, <1>4, <1>5, <1>6, <1>7, <1>8, <1>9, <1>10, <1>11, <1>12, <1>13, <1>14,
     <1>15, <1>16, <1>17, <1>18, <1>19, <1>20, <1>21, <1>22, <1>23, <1>24, <1>25, <1>26,
     <1>27, <1>28, <1>29, <1>30, <1>31, <1>32, <1>33, <1>34, <1>35, <1>36, <1>37, <1>38,
     <1>39, <1>40, <1>41, <1>42
  DEF Next, Environment, Worker

LEMMA ShortRootsStep ==
    ASSUME CacheCore, ShortIsAhead, [Next]_vars
    PROVE  (converged' \ converged) \cap short = {}
<1>1. CASE \E r \in Roots, kind \in Kinds : Change(r, kind)
  BY <1>1 DEF Change, socket, channel, db, memory, drain
<1>2. CASE \E id \in Ids : Settle(id)
  BY <1>2 DEF Settle, socket, channel, db, memory, drain
<1>3. CASE Subscribe
  BY <1>3 DEF Subscribe, RouteThreadEvent, server, db, memory, drain
<1>4. CASE Disconnect
  BY <1>4 DEF Disconnect, RouteThreadEvent, server, db, memory, drain
<1>5. CASE Deliver
  BY <1>5 DEF Deliver, RouteThreadEvent, server, db, memory, drain
<1>6. CASE DropEvent
  BY <1>6 DEF DropEvent, server, channel, db, memory, drain
<1>7. CASE LatchShed
  BY <1>7 DEF LatchShed, server, socket, db, memory, drain
<1>8. CASE Control
  BY <1>8 DEF Control, server, socket, channel, db, drain
<1>9. CASE Boot
  BY <1>9 DEF Boot, server, socket, channel, memory
<1>10. CASE Crash
  BY <1>10 DEF Crash, LoseMemory, server, db
<1>11. CASE Exit
  BY <1>11 DEF Exit, LoseMemory, server, db
<1>12. CASE EventArm
  BY <1>12 DEF EventArm, DrainPending, Selecting, server, socket
<1>13. CASE Shutdown
  BY <1>13 DEF Shutdown, DrainPending, server, socket
<1>14. CASE WaitDrain
  BY <1>14 DEF WaitDrain, DrainPending, server, socket
<1>15. CASE DrainBatch
  BY <1>15, DrainBatchIs DEF DrainBatch, server, socket, channel
<1>16. CASE DrainBatchAborts
  BY <1>16 DEF DrainBatchAborts, server, socket, channel, db
<1>17. CASE ApplyAlone
  BY <1>17, ApplyAloneIs DEF ApplyAlone, server, socket, channel
<1>18. CASE Quarantine
  BY <1>18 DEF Quarantine, server, socket, channel, db, memory
<1>19. CASE CommitDrainBatch
  BY <1>19 DEF CommitDrainBatch, server, socket, channel, memory
<1>20. CASE DrainPendingEnds
  BY <1>20 DEF DrainPendingEnds, DrainDone, MaybeRunResync, server, socket, memory
<1>21. CASE ResyncDrainEnds
  BY <1>21 DEF ResyncDrainEnds, DrainDone, server, socket, channel, db
<1>22. CASE GapCheckDue
  BY <1>22
  DEF GapCheckDue, RunGapCheck, MaybeRunResync, Selecting, server, socket, channel, db, drain
<1>23. CASE CatchUp
  BY <1>23
  DEF CatchUp, RunGapCheck, MaybeRunResync, Quiet, Selecting, server, socket, channel, db,
      drain
<1>24. CASE ResyncRetry
  BY <1>24
  DEF ResyncRetry, MaybeRunResync, Quiet, Selecting, server, socket, channel, db, drain
<1>25. CASE RelistShortRoots
  BY <1>25
  DEF RelistShortRoots, MaybeRunResync, MarkNeedsResync, Quiet, Selecting, server, socket,
      channel, drain
<1>26. CASE AddSyncRoot
  BY <1>26 DEF AddSyncRoot
<1>42. CASE ConvergeNewRoots
  <2>1. \/ converged' = converged
        \/ fresh # {} /\ fresh \subseteq HeldWhole /\ ~ShouldResyncForRemote /\ converged' = converged \cup fresh
    BY <1>42 DEF ConvergeNewRoots
  <2>2. CASE converged' = converged
    BY <2>2
  <2>3. CASE fresh # {} /\ fresh \subseteq HeldWhole /\ ~ShouldResyncForRemote /\ converged' = converged \cup fresh
    <3>1. Len(log) <= Max({watermark, 0}) /\ watermark # None /\ fresh \subseteq listed.roots
      BY <2>3, HeldIs, LogIs, MarkOrZero DEF ShouldResyncForRemote
    <3>2. ~(\E id \in 1..Len(log) : id > watermark)
      BY <3>1, LogIs, MarkOrZero
    <3>3. fresh \cap short = {}
      BY <3>1, <3>2 DEF ShortIsAhead
    <3> QED
      BY <2>3, <3>3
  <2> QED
    BY <2>1, <2>2, <2>3
<1>27. CASE RejectSyncRoot
  BY <1>27 DEF RejectSyncRoot, server, socket, channel, db, drain
<1>28. CASE RemoveRegistration
  BY <1>28 DEF RemoveRegistration, server, socket, channel, drain
<1>29. CASE StartResync
  BY <1>29 DEF StartResync, server, socket, channel, memory, drain
<1>30. CASE StartFails
  BY <1>30 DEF StartFails, server, socket, channel, db, memory, drain
<1>31. CASE JumpWatermark
  BY <1>31 DEF JumpWatermark, MarkNeedsResync, server, socket, channel, drain
<1>32. CASE WaitAborts
  BY <1>32 DEF WaitAborts, Abort, MarkNeedsResync, server, socket, channel, drain
<1>33. CASE LockAcquired
  BY <1>33 DEF LockAcquired, server, socket, channel, db, memory, drain
<1>34. CASE ReadSnapshotFails
  BY <1>34 DEF ReadSnapshotFails, Abort, MarkNeedsResync, server, socket, channel, drain
<1>35. CASE ListRoots
  BY <1>35 DEF ListRoots, server, socket, channel, memory, drain
<1>36. CASE ListNothing
  BY <1>36 DEF ListNothing, server, socket, channel, drain
<1>37. CASE StopListing
  BY <1>37 DEF StopListing, Abort, MarkNeedsResync, server, socket, channel, drain
<1>38. CASE \E r \in Roots : ApplySynthetics(r)
  BY <1>38 DEF ApplySynthetics, server, socket, channel, memory, drain
<1>39. CASE ApplyFails
  BY <1>39 DEF ApplyFails, MarkNeedsResync, server, socket, channel, drain
<1>40. CASE CommitResync
  BY <1>40 DEF CommitResync, server, socket, channel, memory
<1>41. CASE UNCHANGED vars
  BY <1>41 DEF vars, server, socket, channel, db, memory, drain
<1> QED
  BY <1>1, <1>2, <1>3, <1>4, <1>5, <1>6, <1>7, <1>8, <1>9, <1>10, <1>11, <1>12, <1>13, <1>14,
     <1>15, <1>16, <1>17, <1>18, <1>19, <1>20, <1>21, <1>22, <1>23, <1>24, <1>25, <1>26,
     <1>27, <1>28, <1>29, <1>30, <1>31, <1>32, <1>33, <1>34, <1>35, <1>36, <1>37, <1>38,
     <1>39, <1>40, <1>41, <1>42
  DEF Next, Environment, Worker

(* ShortRootsWait, whatever fails: a root an event left short of the remote *)
(* joins the converged-roots record only after its relist was due, by an   *)
(* add or by a resync (hold_short, apply_resync).                          *)
THEOREM ShortRootsAreRelisted == Spec => ShortRootsWait
<1>1. Init => ShortIsAhead
  BY DEF Init, MemoryInit, ShortIsAhead, NoRoots
<1>2. CacheCore /\ ShortIsAhead /\ [Next]_vars => ShortIsAhead'
  BY ShortIsInductive
<1>3. CacheCore /\ ShortIsAhead /\ [Next]_vars => [(converged' \ converged) \cap short = {}]_vars
  BY ShortRootsStep
<1> QED
  BY <1>1, <1>2, <1>3, CoreHolds, PTL DEF Spec, ShortRootsWait

-----------------------------------------------------------------------------
(* Convergence at rest. *)

(* A message that stops the worker stays in the control channel until the  *)
(* process ends                                                            *)
LEMMA StoppingStays ==
    ASSUME CacheCore, Stopping,
           Control \/ (Served /\ Serving({"add", "remove", "evict"}))
    PROVE  Stopping'
<1>1. ctl \in Seq(ControlMessage)
  BY DEF CacheCore, WorkerTypes
<1>2. PICK i \in DOMAIN ctl : ctl[i].op = "shutdown"
  BY DEF Stopping
<1>3. CASE Control
  <2>1. PICK m : ctl' = Append(ctl, m)
    BY <1>3 DEF Control
  <2>2. i \in DOMAIN ctl' /\ ctl'[i] = ctl[i]
    BY <1>1, <2>1
  <2> QED
    BY <1>2, <2>2 DEF Stopping
<1>4. CASE Served /\ Serving({"add", "remove", "evict"})
  <2>1. ctl' = Tail(ctl) /\ ctl # <<>> /\ ctl[1].op # "shutdown"
    BY <1>1, <1>4 DEF Served, Serving
  <2>2. i # 1 /\ i \in 1..Len(ctl) /\ Len(ctl) \in Nat
    BY <1>1, <1>2, <2>1
  <2>3. i - 1 \in 1..Len(Tail(ctl)) /\ Tail(ctl)[i - 1] = ctl[i]
    BY <1>1, <2>1, <2>2
  <2>4. i - 1 \in DOMAIN ctl' /\ ctl'[i - 1].op = "shutdown"
    BY <1>1, <1>2, <2>1, <2>3
  <2> QED
    BY <2>4 DEF Stopping
<1> QED
  BY <1>3, <1>4

(* A registered root that was not added in this burst has converged, waits *)
(* for its relist, or nothing is known of the resync it needs              *)
Converging ==
    registered \ fresh \subseteq converged \/ short # {} \/ "resync" \in lapses \/ Stopping

(* Outside a resync an unconverged root has a retry, and after one the     *)
(* flag that arms it                                                       *)
Unconverged ==
    /\ pc \in {"loop", "burst"} \/ (pc \in {"drain", "slow"} /\ then \in {"loop", "maybe", "exit"})
         => Converging \/ (retry /\ needsResync)
    /\ pc \in {"drain", "slow"} /\ then = "finish" => Converging \/ needsResync
    /\ pc = "apply" /\ ~listing.transient => listing.todo = registered
    /\ fresh = {} \/ pc = "burst" \/ Stopping

(* A step that leaves what Unconverged speaks of as it was *)
LEMMA SteadyStep ==
    ASSUME Unconverged, UNCHANGED <<pc, then, converged, registered, fresh, retry, needsResync, listing>>,
           short \subseteq short', lapses \subseteq lapses', Stopping => Stopping'
    PROVE  Unconverged'
<1>1. Converging => Converging'
  BY DEF Converging
<1> QED
  BY <1>1 DEF Unconverged

LEMMA MarkedOrLapsed == ASSUME MarkNeedsResync PROVE needsResync' \/ "resync" \in lapses'
  BY DEF MarkNeedsResync

LEMMA UnconvergedIsInductive ==
    ASSUME CacheCore, Unconverged, [Next]_vars
    PROVE  Unconverged'
<1>1. CASE \E r \in Roots, kind \in Kinds : Change(r, kind)
  BY <1>1, SteadyStep DEF Stopping, Change, db, memory, drain
<1>2. CASE \E id \in Ids : Settle(id)
  BY <1>2, SteadyStep DEF Stopping, Settle, db, memory, drain
<1>3. CASE Subscribe
  BY <1>3, SteadyStep DEF Stopping, Subscribe, db, memory, drain
<1>4. CASE Disconnect
  <2>1. /\ UNCHANGED <<pc, then, converged, registered, fresh, retry, needsResync, listing, ctl, short>>
        /\ lapses \subseteq lapses'
    BY <1>4 DEF Disconnect, db, drain
  <2> QED
    BY <2>1, SteadyStep DEF Stopping
<1>5. CASE Deliver
  BY <1>5, SteadyStep DEF Stopping, Deliver, db, memory, drain
<1>6. CASE DropEvent
  BY <1>6, SteadyStep DEF Stopping, DropEvent, db, memory, drain
<1>7. CASE LatchShed
  BY <1>7, SteadyStep DEF Stopping, LatchShed, db, memory, drain
<1>8. CASE Control
  BY <1>8, SteadyStep, StoppingStays DEF Control, db, drain
<1>9. CASE Boot
  <2>1. /\ registered' = {} /\ pc' = "drain" /\ then' = "loop" /\ UNCHANGED <<fresh, ctl>> /\ pc # "burst"
    BY <1>9 DEF Boot, memory, CacheCore, WorkerShape
  <2> QED
    BY <2>1 DEF Unconverged, Converging, Stopping
<1>10. CASE Crash
  BY <1>10 DEF Unconverged, Crash, LoseMemory
<1>11. CASE Exit
  BY <1>11 DEF Unconverged, Exit, LoseMemory
<1>12. CASE EventArm
  <2>1. /\ UNCHANGED <<converged, registered, short, retry, fresh, ctl>>
        /\ pc = "loop" /\ pc' = "drain" /\ then' = "maybe"
        /\ lapses \subseteq lapses' /\ (needsResync => needsResync')
    BY <1>12 DEF EventArm, DrainPending, Selecting, MarkNeedsResync, CacheCore, WorkerTypes
  <2> QED
    BY <2>1 DEF Unconverged, Converging, Stopping
<1>13. CASE Shutdown
  <2>1. /\ ctl' = ctl /\ pc' = "drain" /\ then' = "exit" /\ Head(ctl).op = "shutdown" /\ ctl # <<>>
        /\ ctl \in Seq(ControlMessage)
    BY <1>13 DEF Shutdown, DrainPending, Serving, CacheCore, WorkerTypes
  <2>2. Stopping'
    BY <2>1, 1 \in DOMAIN ctl /\ Head(ctl) = ctl[1] DEF Stopping
  <2> QED
    BY <2>1, <2>2 DEF Unconverged, Converging
<1>14. CASE WaitDrain
  <2>1. /\ UNCHANGED <<fresh, ctl>> /\ pc = "wait" /\ pc' = "drain" /\ then' = "wait"
    BY <1>14 DEF WaitDrain, DrainPending
  <2> QED
    BY <2>1 DEF Unconverged, Stopping
<1>15. CASE DrainBatch
  <2>1. PICK ids \in SUBSET Batch, c \in Cursor :
          /\ converged' = converged \ Shortened(ids) /\ short' = short \cup Shortened(ids)
          /\ needsResync' = (needsResync \/ c.broken)
    BY <1>15, DrainBatchIs
  <2>2. UNCHANGED <<pc, then, registered, fresh, ctl, retry, lapses>> /\ pc = "drain"
    BY <1>15 DEF DrainBatch
  <2>3. Converging => Converging'
    BY <2>1, <2>2 DEF Converging, Stopping
  <2> QED
    BY <2>1, <2>2, <2>3 DEF Unconverged, Stopping
<1>16. CASE DrainBatchAborts
  <2>1. short \subseteq short'
    BY <1>16, AbortsIs
  <2>2. /\ UNCHANGED <<then, registered, converged, fresh, ctl, retry, lapses, needsResync>>
        /\ pc = "drain" /\ pc' = "slow"
    BY <1>16 DEF DrainBatchAborts, db
  <2>3. Converging => Converging'
    BY <2>1, <2>2 DEF Converging, Stopping
  <2> QED
    BY <2>2, <2>3 DEF Unconverged, Stopping
<1>17. CASE ApplyAlone
  <2>1. PICK id \in slow :
          converged' = converged \ Shortened({id}) /\ short' = short \cup Shortened({id})
    BY <1>17, ApplyAloneIs
  <2>2. UNCHANGED <<pc, then, registered, fresh, ctl, retry, lapses, needsResync>> /\ pc = "slow"
    BY <1>17 DEF ApplyAlone
  <2>3. Converging => Converging'
    BY <2>1, <2>2 DEF Converging, Stopping
  <2> QED
    BY <2>2, <2>3 DEF Unconverged, Stopping
<1>18. CASE Quarantine
  BY <1>18, SteadyStep DEF Stopping, Quarantine, db, memory
<1>19. CASE CommitDrainBatch
  <2>1. /\ UNCHANGED <<then, registered, converged, short, fresh, ctl, retry, lapses>>
        /\ pc = "slow" /\ pc' = "drain" /\ (needsResync => needsResync')
    BY <1>19 DEF CommitDrainBatch, memory
  <2> QED
    BY <2>1 DEF Unconverged, Converging, Stopping
<1>20. CASE DrainPendingEnds
  <2>1. /\ UNCHANGED <<converged, registered, short, retry, fresh, ctl, lapses>>
        /\ pc \in {"drain", "slow"} /\ pc' \in {"loop", "resync", "wait", "exit"}
        /\ pc' = "loop" => then \in {"loop", "maybe"}
    BY <1>20 DEF DrainPendingEnds, DrainDone, MaybeRunResync, memory, CacheCore, WorkerTypes
  <2>2. needsResync => needsResync'
    BY <1>20 DEF DrainPendingEnds
  <2> QED
    BY <2>1, <2>2 DEF Unconverged, Converging, Stopping
<1>21. CASE ResyncDrainEnds
  <2>1. /\ UNCHANGED <<converged, registered, short, fresh, ctl, lapses, needsResync>>
        /\ pc \in {"drain", "slow"} /\ then = "finish" /\ pc' = "loop" /\ (needsResync => retry')
    BY <1>21 DEF ResyncDrainEnds, DrainDone, db
  <2> QED
    BY <2>1 DEF Unconverged, Converging, Stopping
<1>22. CASE GapCheckDue
  <2>1. /\ UNCHANGED <<converged, registered, short, fresh, ctl, retry, needsResync>>
        /\ pc = "loop" /\ pc' \in {"loop", "resync"} /\ ("resync" \in lapses => "resync" \in lapses')
    BY <1>22 DEF GapCheckDue, RunGapCheck, MaybeRunResync, db
  <2> QED
    BY <2>1 DEF Unconverged, Converging, Stopping
<1>23. CASE CatchUp
  <2>1. /\ UNCHANGED <<converged, registered, short, fresh, ctl, retry, needsResync>>
        /\ pc = "loop" /\ pc' \in {"loop", "resync"} /\ ("resync" \in lapses => "resync" \in lapses')
    BY <1>23 DEF CatchUp, RunGapCheck, MaybeRunResync, Quiet, Selecting, db
  <2> QED
    BY <2>1 DEF Unconverged, Converging, Stopping
<1>24. CASE ResyncRetry
  <2>1. /\ UNCHANGED <<converged, registered, short, fresh, ctl, lapses, needsResync>>
        /\ pc = "loop" /\ pc' \in {"loop", "resync"} /\ (pc' = "loop" => ~needsResync)
    BY <1>24 DEF ResyncRetry, MaybeRunResync, Quiet, Selecting, db
  <2> QED
    BY <2>1 DEF Unconverged, Converging, Stopping
<1>25. CASE RelistShortRoots
  <2>1. /\ UNCHANGED <<fresh, ctl>> /\ pc = "loop" /\ pc' \in {"loop", "resync"}
        /\ pc' = "loop" => "resync" \in lapses'
    BY <1>25, MarkedOrLapsed DEF RelistShortRoots, MaybeRunResync, Quiet, Selecting
  <2> QED
    BY <2>1 DEF Unconverged, Converging, Stopping
<1>26. CASE AddSyncRoot
  <2>1. /\ UNCHANGED <<converged, short, retry, lapses, needsResync>>
        /\ registered' = registered \cup {Head(ctl).root} /\ fresh' = fresh \cup {Head(ctl).root}
        /\ pc \in {"loop", "burst"} /\ pc' = "burst"
    BY <1>26 DEF AddSyncRoot, Served, Serving
  <2>2. Stopping => Stopping'
    BY <1>26, StoppingStays DEF AddSyncRoot, Serving
  <2> QED
    BY <2>1, <2>2 DEF Unconverged, Converging
<1>27. CASE RejectSyncRoot
  <2>1. /\ UNCHANGED <<converged, registered, fresh, short, retry, lapses, needsResync>>
        /\ pc \in {"loop", "burst"} /\ pc' = "burst"
    BY <1>27 DEF RejectSyncRoot, Served, Serving, db
  <2>2. Stopping => Stopping'
    BY <1>27, StoppingStays DEF RejectSyncRoot, Serving
  <2> QED
    BY <2>1, <2>2 DEF Unconverged, Converging
<1>28. CASE RemoveRegistration
  <2>1. /\ UNCHANGED <<fresh, short, retry, lapses, needsResync>>
        /\ registered' = registered \ {Head(ctl).root} /\ converged \ {Head(ctl).root} \subseteq converged'
        /\ pc \in {"loop", "burst"} /\ pc' = "burst"
    BY <1>28 DEF RemoveRegistration, Served, Serving
  <2>2. Stopping => Stopping'
    BY <1>28, StoppingStays DEF RemoveRegistration, Serving
  <2> QED
    BY <2>1, <2>2 DEF Unconverged, Converging
<1>42. CASE ConvergeNewRoots
  <2>1. /\ pc = "burst" /\ pc' \in {"loop", "resync"} /\ fresh' = {}
        /\ pc' = "loop" => /\ UNCHANGED <<registered, short, retry, lapses, needsResync, ctl>>
                          /\ converged' = converged \cup fresh
    BY <1>42 DEF ConvergeNewRoots
  <2> QED
    BY <2>1 DEF Unconverged, Converging, Stopping
<1>29. CASE StartResync
  <2>1. pc = "resync" /\ pc' = "wait" /\ UNCHANGED <<fresh, ctl>>
    BY <1>29 DEF StartResync
  <2> QED
    BY <2>1 DEF Unconverged, Stopping
<1>30. CASE StartFails
  <2>1. pc = "resync" /\ pc' = "loop" /\ "resync" \in lapses' /\ UNCHANGED <<fresh, ctl>>
    BY <1>30 DEF StartFails
  <2> QED
    BY <2>1 DEF Unconverged, Converging, Stopping
<1>31. CASE JumpWatermark
  <2>1. pc = "resync" /\ pc' = "loop" /\ registered' = {} /\ UNCHANGED <<fresh, ctl>>
    BY <1>31 DEF JumpWatermark
  <2> QED
    BY <2>1 DEF Unconverged, Converging, Stopping
<1>32. CASE WaitAborts
  <2>1. /\ pc = "wait" /\ pc' = "loop" /\ UNCHANGED <<fresh, ctl>> /\ retry'
        /\ needsResync' \/ "resync" \in lapses'
    BY <1>32, MarkedOrLapsed DEF WaitAborts, Abort
  <2> QED
    BY <2>1 DEF Unconverged, Converging, Stopping
<1>33. CASE LockAcquired
  <2>1. pc = "wait" /\ pc' = "listing" /\ UNCHANGED <<fresh, ctl>>
    BY <1>33 DEF LockAcquired, memory
  <2> QED
    BY <2>1 DEF Unconverged, Stopping
<1>34. CASE ReadSnapshotFails
  <2>1. /\ pc = "wait" /\ pc' = "loop" /\ UNCHANGED <<fresh, ctl>> /\ retry'
        /\ needsResync' \/ "resync" \in lapses'
    BY <1>34, MarkedOrLapsed DEF ReadSnapshotFails, Abort
  <2> QED
    BY <2>1 DEF Unconverged, Converging, Stopping
<1>35. CASE ListRoots
  <2>1. /\ pc = "listing" /\ pc' = "apply" /\ UNCHANGED <<fresh, ctl, registered>>
        /\ listing'.transient = (listing'.todo # registered)
    BY <1>35 DEF ListRoots, memory, CacheCore, DrainTypes, Listing
  <2> QED
    BY <2>1 DEF Unconverged, Stopping
<1>36. CASE ListNothing
  <2>1. /\ pc = "listing" /\ pc' = "loop" /\ UNCHANGED <<fresh, ctl, needsResync>>
        /\ (retry' /\ needsResync) \/ "resync" \in lapses'
    BY <1>36 DEF ListNothing
  <2> QED
    BY <2>1 DEF Unconverged, Converging, Stopping
<1>37. CASE StopListing
  <2>1. pc = "listing" /\ pc' = "loop" /\ UNCHANGED <<fresh, ctl>> /\ Stopping
    BY <1>37 DEF StopListing, Abort
  <2> QED
    BY <2>1 DEF Unconverged, Converging, Stopping
<1>38. CASE \E r \in Roots : ApplySynthetics(r)
  BY <1>38, SteadyStep DEF Stopping, ApplySynthetics, memory, drain
<1>39. CASE ApplyFails
  <2>1. /\ pc' = "loop" /\ pc # "burst" /\ UNCHANGED <<fresh, ctl>> /\ retry'
        /\ needsResync' \/ "resync" \in lapses'
    BY <1>39, MarkedOrLapsed DEF ApplyFails
  <2> QED
    BY <2>1 DEF Unconverged, Converging, Stopping
<1>40. CASE CommitResync
  <2>1. /\ UNCHANGED <<registered, short, fresh, ctl>> /\ pc = "apply" /\ pc' = "drain" /\ then' = "finish"
        /\ needsResync' = listing.transient /\ converged' = listing.todo \ short
    BY <1>40 DEF CommitResync, memory
  <2>2. CASE listing.transient
    BY <2>1, <2>2 DEF Unconverged, Stopping
  <2>3. CASE ~listing.transient
    <3>1. registered \subseteq converged' \/ short # {}
      BY <2>1, <2>3 DEF Unconverged
    <3> QED
      BY <2>1, <3>1 DEF Unconverged, Converging, Stopping
  <2> QED
    BY <2>2, <2>3
<1>41. CASE UNCHANGED vars
  BY <1>41, SteadyStep DEF vars, db, memory, drain, Stopping
<1> QED
  BY <1>1, <1>2, <1>3, <1>4, <1>5, <1>6, <1>7, <1>8, <1>9, <1>10, <1>11, <1>12, <1>13, <1>14,
     <1>15, <1>16, <1>17, <1>18, <1>19, <1>20, <1>21, <1>22, <1>23, <1>24, <1>25, <1>26,
     <1>27, <1>28, <1>29, <1>30, <1>31, <1>32, <1>33, <1>34, <1>35, <1>36, <1>37, <1>38,
     <1>39, <1>40, <1>41, <1>42
  DEF Next, Environment, Worker

(* IdleIsConverged: a worker with nothing left to do has every registered  *)
(* root in the converged-roots record, however many attempts were cut      *)
(* short by the lock, a failed read, write or listing or a control         *)
(* message, unless the flag a retry goes by could not be set               *)
(* (schedule_retry_if_unconverged, finalize_resync).                       *)
THEOREM WorkerConverges == Spec => []IdleIsConverged
<1>1. Init => Unconverged
  BY DEF Init, MemoryInit, Unconverged
<1>2. CacheCore /\ Unconverged /\ [Next]_vars => Unconverged'
  BY UnconvergedIsInductive
<1>3. Unconverged => IdleIsConverged
  <2>1. Idle => pc = "loop" /\ short = {} /\ ~retry /\ ctl = <<>>
    BY DEF Idle, Quiet, Selecting
  <2>2. ctl = <<>> => ~Stopping
    BY DEF Stopping
  <2> QED
    BY <2>1, <2>2 DEF Unconverged, Converging, IdleIsConverged
<1> QED
  BY <1>1, <1>2, <1>3, CoreHolds, PTL DEF Spec

-----------------------------------------------------------------------------
(* Catching up. *)

(* The worker has the last change it was told of, or will find it missing *)
DueIsNoted ==
    \/ due <= watermark \/ due = 0 \/ due \in store \/ shed \/ latching
    \/ \E i \in DOMAIN chan : chan[i] = Drive(due)
    \/ GapCheckAfter(gapCheck, chan) = "due"

(* What makes the run loop look at the flag *)
Armed == retry \/ Stopping \/ chan # <<>> \/ gapCheck = "due" \/ ~live

(* A recorded resync is run, and the next subscription is met by a         *)
(* gap-check, unless that was forgotten                                    *)
ResyncIsRun ==
    /\ pc \in {"loop", "burst"} /\ needsResync => Armed \/ "gap" \in lapses
    /\ pc \in {"drain", "slow"} /\ then = "loop" => chan # <<>> \/ ~live
    /\ pc = "off" => ~live
    /\ live \/ GapCheckAfter(gapCheck, chan) = "awaiting" \/ "gap" \in lapses

(* A subscribed worker that does not have the last change it was told of   *)
(* is in a resync that will list it, or has one recorded, or forgot it     *)
DueIsCovered ==
    live /\ "gap" \notin lapses =>
            \/ DueIsNoted
            \/ pc \in {"resync", "wait"} \/ (pc \in {"drain", "slow"} /\ then = "wait")
            \/ IF pc \in {"listing", "apply"} THEN due <= listing.at ELSE needsResync

(* The place of the last message of a kind *)
LastOf(burst, kind) == Last({i \in DOMAIN burst : burst[i].kind = kind})

LEMMA LastIs ==
    ASSUME NEW n \in Nat, NEW S, S \subseteq 1..n
    PROVE  /\ Last(S) \in 0..n /\ (S = {} => Last(S) = 0) /\ (n \in S => Last(S) = n)
<1>1. CASE S = {}
  BY <1>1 DEF Last
<1>2. CASE S # {}
  <2>1. S \subseteq {None} \cup 0..n
    BY DEF None
  <2>2. Max(S) \in S /\ \A y \in S : y <= Max(S)
    BY <1>2, <2>1, MaxIs
  <2>3. Last(S) = Max(S)
    BY <1>2 DEF Last
  <2>4. Last(S) \in 1..n
    BY <2>2, <2>3
  <2>5. n \in S => n <= Last(S)
    BY <2>2, <2>3
  <2>6. Last(S) \in 0..n
    BY <2>4
  <2>7. n \in S => Last(S) = n
    BY <2>4, <2>5
  <2> QED
    BY <1>2, <2>6, <2>7
<1> QED
  BY <1>1, <1>2

LEMMA GapCheckIsBy ==
    ASSUME NEW g, NEW burst
    PROVE  GapCheckAfter(g, burst) =
             IF LastOf(burst, "resync") > LastOf(burst, "connected") THEN "awaiting"
             ELSE IF /\ LastOf(burst, "connected") > 0
                     /\ LastOf(burst, "resync") > 0 \/ g = "awaiting" THEN "due"
             ELSE g
  BY DEF GapCheckAfter, LastOf

LEMMA LastOfTyped ==
    ASSUME NEW burst \in Seq(Message), NEW kind
    PROVE  Len(burst) \in Nat /\ LastOf(burst, kind) \in 0..Len(burst)
<1>1. {i \in DOMAIN burst : burst[i].kind = kind} \subseteq 1..Len(burst) /\ Len(burst) \in Nat
  OBVIOUS
<1> QED
  BY <1>1, LastIs DEF LastOf

LEMMA LastOfAppend ==
    ASSUME NEW burst \in Seq(Message), NEW m \in Message
    PROVE  /\ LastOf(Append(burst, m), m.kind) = Len(burst) + 1
           /\ \A kind : kind # m.kind => LastOf(Append(burst, m), kind) = LastOf(burst, kind)
<1>1. /\ Append(burst, m) \in Seq(Message) /\ Len(Append(burst, m)) = Len(burst) + 1
      /\ DOMAIN Append(burst, m) = DOMAIN burst \cup {Len(burst) + 1} /\ Len(burst) \in Nat
      /\ DOMAIN burst = 1..Len(burst)
      /\ \A i \in DOMAIN burst : Append(burst, m)[i] = burst[i]
      /\ Append(burst, m)[Len(burst) + 1] = m
  OBVIOUS
<1>2. /\ {i \in DOMAIN Append(burst, m) : Append(burst, m)[i].kind = m.kind} \subseteq 1..(Len(burst) + 1)
      /\ Len(burst) + 1 \in {i \in DOMAIN Append(burst, m) : Append(burst, m)[i].kind = m.kind}
      /\ Len(burst) + 1 \in Nat
  BY <1>1
<1>3. LastOf(Append(burst, m), m.kind) = Len(burst) + 1
  BY <1>2, LastIs DEF LastOf
<1>4. ASSUME NEW kind, kind # m.kind
      PROVE  LastOf(Append(burst, m), kind) = LastOf(burst, kind)
  <2>1. {i \in DOMAIN Append(burst, m) : Append(burst, m)[i].kind = kind}
          = {i \in DOMAIN burst : burst[i].kind = kind}
    BY <1>1, <1>4
  <2> QED
    BY <2>1 DEF LastOf
<1> QED
  BY <1>3, <1>4

(* What a message at the end of a burst does to the gap-check *)
LEMMA GapCheckAppend ==
    ASSUME NEW burst \in Seq(Message), NEW g
    PROVE  /\ \A id \in Ids : GapCheckAfter(g, Append(burst, Drive(id))) = GapCheckAfter(g, burst)
           /\ GapCheckAfter(g, Append(burst, ResyncSignal)) = "awaiting"
           /\ GapCheckAfter(g, burst) = "awaiting" =>
                GapCheckAfter(g, Append(burst, Connected)) = "due"
<1>1. /\ Len(burst) \in Nat /\ LastOf(burst, "resync") \in 0..Len(burst)
      /\ LastOf(burst, "connected") \in 0..Len(burst)
  BY LastOfTyped
<1>2. ASSUME NEW id \in Ids
      PROVE  GapCheckAfter(g, Append(burst, Drive(id))) = GapCheckAfter(g, burst)
  <2>1. Drive(id) \in Message /\ Drive(id).kind = "drive"
    BY MessagesAre DEF Drive
  <2>2. /\ LastOf(Append(burst, Drive(id)), "resync") = LastOf(burst, "resync")
        /\ LastOf(Append(burst, Drive(id)), "connected") = LastOf(burst, "connected")
    BY <2>1, LastOfAppend
  <2> QED
    BY <2>2, GapCheckIsBy
<1>3. GapCheckAfter(g, Append(burst, ResyncSignal)) = "awaiting"
  <2>1. ResyncSignal \in Message /\ ResyncSignal.kind = "resync"
    BY MessagesAre DEF ResyncSignal
  <2>2. /\ LastOf(Append(burst, ResyncSignal), "resync") = Len(burst) + 1
        /\ LastOf(Append(burst, ResyncSignal), "connected") = LastOf(burst, "connected")
    BY <2>1, LastOfAppend
  <2>3. LastOf(Append(burst, ResyncSignal), "resync") > LastOf(Append(burst, ResyncSignal), "connected")
    BY <1>1, <2>2
  <2> QED
    BY <2>3, GapCheckIsBy
<1>4. ASSUME GapCheckAfter(g, burst) = "awaiting"
      PROVE  GapCheckAfter(g, Append(burst, Connected)) = "due"
  <2>1. Connected \in Message /\ Connected.kind = "connected"
    BY MessagesAre DEF Connected
  <2>2. /\ LastOf(Append(burst, Connected), "connected") = Len(burst) + 1
        /\ LastOf(Append(burst, Connected), "resync") = LastOf(burst, "resync")
    BY <2>1, LastOfAppend
  <2>3. g = "awaiting" \/ LastOf(burst, "resync") > 0
    BY <1>1, <1>4, GapCheckIsBy
  <2>4. /\ ~(LastOf(Append(burst, Connected), "resync") > LastOf(Append(burst, Connected), "connected"))
        /\ LastOf(Append(burst, Connected), "connected") > 0
        /\ LastOf(Append(burst, Connected), "resync") > 0 \/ g = "awaiting"
    BY <1>1, <2>2, <2>3
  <2> QED
    BY <2>4, GapCheckIsBy
<1> QED
  BY <1>2, <1>3, <1>4

LEMMA GapCheckOfNone == \A g : GapCheckAfter(g, <<>>) = g
<1>1. \A kind : LastOf(<<>>, kind) = 0
  BY DEF LastOf, Last
<1> QED
  BY <1>1, GapCheckIsBy

(* Once a gap-check is due or done only the messages tell what follows *)
LEMMA GapCheckOnce ==
    ASSUME NEW burst \in Seq(Message)
    PROVE  (GapCheckAfter("done", burst) = "awaiting") = (GapCheckAfter("due", burst) = "awaiting")
<1>1. /\ LastOf(burst, "resync") \in Int /\ LastOf(burst, "connected") \in Int
  BY LastOfTyped
<1> QED
  BY <1>1, GapCheckIsBy

LEMMA RoutedOrShed ==
    ASSUME CacheCore, NEW m \in Message, RouteThreadEvent(m)
    PROVE  /\ chan \in Seq(Message) /\ chan' # <<>> /\ (shed \/ latching => shed' \/ latching')
           /\ \/ chan' = Append(chan, m) /\ Len(chan) < EVENT_SHED_CAP
              \/ (shed' \/ latching') /\ UNCHANGED chan /\ ~(Len(chan) < EVENT_SHED_CAP)
<1>1. chan \in Seq(Message) /\ Len(chan) \in Nat
  BY DEF CacheCore, ChannelTypes
<1>2. CASE Len(chan) < EVENT_SHED_CAP
  <2>1. Append(chan, m) # <<>>
    BY <1>1
  <2> QED
    BY <1>1, <1>2, <2>1 DEF RouteThreadEvent
<1>3. CASE ~(Len(chan) < EVENT_SHED_CAP)
  <2>1. chan # <<>>
    BY <1>1, <1>3
  <2> QED
    BY <1>1, <1>3, <2>1 DEF RouteThreadEvent
<1> QED
  BY <1>2, <1>3

LEMMA DrainTakes ==
    ASSUME NEW next, DrainPending(next)
    PROVE  /\ gapCheck' = GapCheckAfter(gapCheck, chan)
           /\ GapCheckAfter(gapCheck', chan') = GapCheckAfter(gapCheck, chan)
           /\ pc' = "drain" /\ then' = next
           /\ UNCHANGED <<live, due, shed, latching, watermark>>
           /\ lapses \subseteq lapses' \/ "gap" \in lapses'
           /\ \/ "gap" \in lapses' \/ needsResync'
              \/ /\ UNCHANGED <<needsResync, lapses>>
                 /\ store' = store \cup {chan[i].id : i \in {j \in DOMAIN chan : chan[j].kind = "drive"}}
<1>1. /\ gapCheck' = GapCheckAfter(gapCheck, chan) /\ chan' = <<>>
      /\ pc' = "drain" /\ then' = next
      /\ UNCHANGED <<live, due, shed, latching, watermark>>
  BY DEF DrainPending, socket
<1>2. \/ "gap" \in lapses'
      \/ needsResync' /\ UNCHANGED lapses
      \/ /\ UNCHANGED <<needsResync, lapses>>
         /\ store' = store \cup {chan[i].id : i \in {j \in DOMAIN chan : chan[j].kind = "drive"}}
  BY DEF DrainPending, MarkNeedsResync
<1> QED
  BY <1>1, <1>2, GapCheckOfNone

(* A step that leaves what ResyncIsRun speaks of as it was *)
LEMMA RunSteady ==
    ASSUME ResyncIsRun, UNCHANGED <<live, then, gapCheck, chan, needsResync, retry>>,
           pc' = pc \/ (pc \in {"drain", "slow"} /\ pc' \in {"drain", "slow"}),
           Stopping => Stopping', lapses \subseteq lapses'
    PROVE  ResyncIsRun'
  BY DEF ResyncIsRun, Armed

LEMMA ResyncIsRunIsInductive ==
    ASSUME CacheCore, ResyncIsRun, [Next]_vars PROVE ResyncIsRun'
<1>1. CASE \E r \in Roots, kind \in Kinds : Change(r, kind)
  BY <1>1, RunSteady DEF Change, Stopping, socket, channel, db, memory, drain
<1>2. CASE \E id \in Ids : Settle(id)
  BY <1>2, RunSteady DEF Settle, Stopping, socket, channel, db, memory, drain
<1>3. CASE Subscribe
  <2>1. Connected \in Message /\ RouteThreadEvent(Connected)
    BY <1>3, MessagesAre DEF Subscribe
  <2>2. live' /\ chan' # <<>> /\ pc' # "off"
    BY <1>3, <2>1, RoutedOrShed DEF Subscribe
  <2> QED
    BY <2>2 DEF ResyncIsRun, Armed
<1>4. CASE Disconnect
  <2>1. ResyncSignal \in Message /\ RouteThreadEvent(ResyncSignal)
    BY <1>4, MessagesAre DEF Disconnect
  <2>2. ~live' /\ UNCHANGED gapCheck
    BY <1>4 DEF Disconnect
  <2>3. GapCheckAfter(gapCheck', chan') = "awaiting" \/ "gap" \in lapses'
    <3>1. CASE chan' = Append(chan, ResyncSignal)
      BY <2>1, <2>2, <3>1, RoutedOrShed, GapCheckAppend
    <3>2. CASE ~(Len(chan) < EVENT_SHED_CAP)
      BY <1>4, <3>2 DEF Disconnect
    <3> QED
      BY <2>1, <3>1, <3>2, RoutedOrShed
  <2> QED
    BY <2>2, <2>3 DEF ResyncIsRun, Armed
<1>5. CASE Deliver
  <2>0. sent + 1 \in Ids
    BY <1>5, LogIs DEF Deliver, CacheCore, ServerTypes, Ids
  <2>1. Drive(sent + 1) \in Message /\ RouteThreadEvent(Drive(sent + 1))
    BY <1>5, MessagesAre, <2>0 DEF Deliver
  <2>2. live' /\ live /\ chan' # <<>> /\ UNCHANGED pc
    BY <1>5, <2>1, RoutedOrShed DEF Deliver
  <2> QED
    BY <2>2 DEF ResyncIsRun, Armed
<1>6. CASE DropEvent
  BY <1>6, RunSteady DEF DropEvent, Stopping, channel, db, memory, drain
<1>7. CASE LatchShed
  BY <1>7, RunSteady DEF LatchShed, Stopping, socket, db, memory, drain
<1>8. CASE Control
  BY <1>8, RunSteady, StoppingStays DEF Control, socket, channel, db, drain
<1>9. CASE Boot
  BY <1>9 DEF ResyncIsRun, Boot, socket, channel, memory
<1>10. CASE Crash
  BY <1>10, GapCheckOfNone DEF ResyncIsRun, Crash, LoseMemory
<1>11. CASE Exit
  BY <1>11, GapCheckOfNone DEF ResyncIsRun, Exit, LoseMemory
<1>12. CASE EventArm
  BY <1>12, DrainTakes DEF ResyncIsRun, EventArm
<1>13. CASE Shutdown
  BY <1>13, DrainTakes DEF ResyncIsRun, Shutdown
<1>14. CASE WaitDrain
  BY <1>14, DrainTakes DEF ResyncIsRun, WaitDrain
<1>15. CASE DrainBatch
  <2>1. UNCHANGED <<live, pc, then, gapCheck, chan, lapses>> /\ pc = "drain"
    BY <1>15 DEF DrainBatch, socket, channel
  <2> QED
    BY <2>1 DEF ResyncIsRun
<1>16. CASE DrainBatchAborts
  BY <1>16, RunSteady DEF DrainBatchAborts, Stopping, socket, channel, db
<1>17. CASE ApplyAlone
  BY <1>17, RunSteady DEF ApplyAlone, Stopping, socket, channel
<1>18. CASE Quarantine
  BY <1>18, RunSteady DEF Quarantine, Stopping, socket, channel, db, memory
<1>19. CASE CommitDrainBatch
  <2>1. UNCHANGED <<live, then, gapCheck, chan, lapses>> /\ pc = "slow" /\ pc' = "drain"
    BY <1>19 DEF CommitDrainBatch, socket, channel, memory
  <2> QED
    BY <2>1 DEF ResyncIsRun
<1>20. CASE DrainPendingEnds
  <2>1. pc \in {"drain", "slow"} /\ UNCHANGED <<gapCheck, chan, live, lapses>>
    BY <1>20 DEF DrainPendingEnds, DrainDone, memory, socket
  <2>2. /\ pc' \in {"loop", "resync", "wait", "exit"}
        /\ pc' = "loop" => then = "loop" \/ ~needsResync'
    BY <1>20 DEF DrainPendingEnds, MaybeRunResync, CacheCore, WorkerTypes
  <2> QED
    BY <2>1, <2>2 DEF ResyncIsRun, Armed
<1>21. CASE ResyncDrainEnds
  <2>1. /\ UNCHANGED <<gapCheck, chan, live, lapses, needsResync>> /\ pc' = "loop"
        /\ needsResync => retry'
    BY <1>21 DEF ResyncDrainEnds, socket, channel, db
  <2> QED
    BY <2>1 DEF ResyncIsRun, Armed
<1>22. CASE GapCheckDue
  <2>1. /\ gapCheck = "due" /\ gapCheck' = "done" /\ UNCHANGED <<live, chan, needsResync>>
        /\ chan \in Seq(Message)
    BY <1>22 DEF GapCheckDue, RunGapCheck, socket, channel, db, CacheCore, ChannelTypes
  <2>2. /\ pc' \in {"loop", "resync"} /\ (needsResync => pc' = "resync")
        /\ ~live => lapses \subseteq lapses'
    BY <1>22 DEF GapCheckDue, RunGapCheck, MaybeRunResync, ShouldResyncForRemote
  <2> QED
    BY <2>1, <2>2, GapCheckOnce DEF ResyncIsRun
<1>23. CASE CatchUp
  <2>1. UNCHANGED <<live, chan, gapCheck, needsResync>>
    BY <1>23 DEF CatchUp, RunGapCheck, socket, channel, db
  <2>2. /\ pc' \in {"loop", "resync"} /\ (needsResync => pc' = "resync")
        /\ ~live => lapses \subseteq lapses'
    BY <1>23 DEF CatchUp, RunGapCheck, MaybeRunResync, ShouldResyncForRemote
  <2> QED
    BY <2>1, <2>2 DEF ResyncIsRun
<1>24. CASE ResyncRetry
  <2>1. /\ UNCHANGED <<live, chan, gapCheck, lapses, needsResync>>
        /\ pc' \in {"loop", "resync"} /\ (needsResync => pc' = "resync")
    BY <1>24 DEF ResyncRetry, MaybeRunResync, socket, channel, db
  <2> QED
    BY <2>1 DEF ResyncIsRun
<1>25. CASE RelistShortRoots
  <2>1. /\ UNCHANGED <<live, chan, gapCheck>>
        /\ lapses \subseteq lapses' \/ "gap" \in lapses'
        /\ pc' \in {"loop", "resync"} /\ (needsResync' => pc' = "resync")
    BY <1>25 DEF RelistShortRoots, MaybeRunResync, MarkNeedsResync, socket, channel
  <2> QED
    BY <2>1 DEF ResyncIsRun
<1>26. CASE AddSyncRoot
  <2>1. /\ UNCHANGED <<live, chan, gapCheck, lapses, needsResync, retry>>
        /\ pc \in {"loop", "burst"} /\ pc' = "burst"
    BY <1>26 DEF AddSyncRoot, Served, Serving, socket, channel
  <2>2. Stopping => Stopping'
    BY <1>26, StoppingStays DEF AddSyncRoot, Serving
  <2> QED
    BY <2>1, <2>2 DEF ResyncIsRun, Armed
<1>27. CASE RejectSyncRoot
  <2>1. /\ UNCHANGED <<live, chan, gapCheck, lapses, needsResync, retry>>
        /\ pc \in {"loop", "burst"} /\ pc' = "burst"
    BY <1>27 DEF RejectSyncRoot, Served, Serving, socket, channel, db
  <2>2. Stopping => Stopping'
    BY <1>27, StoppingStays DEF RejectSyncRoot, Serving
  <2> QED
    BY <2>1, <2>2 DEF ResyncIsRun, Armed
<1>28. CASE RemoveRegistration
  <2>1. /\ UNCHANGED <<live, chan, gapCheck, lapses, needsResync, retry>>
        /\ pc \in {"loop", "burst"} /\ pc' = "burst"
    BY <1>28 DEF RemoveRegistration, Served, Serving, socket, channel
  <2>2. Stopping => Stopping'
    BY <1>28, StoppingStays DEF RemoveRegistration, Serving
  <2> QED
    BY <2>1, <2>2 DEF ResyncIsRun, Armed
<1>42. CASE ConvergeNewRoots
  <2>1. /\ UNCHANGED <<live, chan, gapCheck>> /\ pc = "burst" /\ pc' \in {"loop", "resync"}
        /\ lapses \subseteq lapses' \/ "gap" \in lapses'
        /\ pc' = "loop" => UNCHANGED <<retry, lapses, needsResync, ctl>>
    BY <1>42 DEF ConvergeNewRoots, MarkNeedsResync, socket, channel
  <2> QED
    BY <2>1 DEF ResyncIsRun, Armed, Stopping
<1>29. CASE StartResync
  BY <1>29 DEF ResyncIsRun, StartResync, socket, channel
<1>30. CASE StartFails
  BY <1>30 DEF ResyncIsRun, StartFails
<1>31. CASE JumpWatermark
  <2>1. /\ UNCHANGED <<live, chan, gapCheck>> /\ pc' = "loop"
        /\ lapses \subseteq lapses' \/ "gap" \in lapses'
        /\ needsResync' => retry'
    BY <1>31 DEF JumpWatermark, MarkNeedsResync, socket, channel
  <2> QED
    BY <2>1 DEF ResyncIsRun, Armed
<1>32. CASE WaitAborts
  <2>1. /\ UNCHANGED <<live, chan, gapCheck>> /\ pc' = "loop" /\ retry'
        /\ lapses \subseteq lapses' \/ "gap" \in lapses'
    BY <1>32 DEF WaitAborts, Abort, MarkNeedsResync, socket, channel
  <2> QED
    BY <2>1 DEF ResyncIsRun, Armed
<1>33. CASE LockAcquired
  BY <1>33 DEF ResyncIsRun, LockAcquired, socket, channel, memory
<1>34. CASE ReadSnapshotFails
  <2>1. /\ UNCHANGED <<live, chan, gapCheck>> /\ pc' = "loop" /\ retry'
        /\ lapses \subseteq lapses' \/ "gap" \in lapses'
    BY <1>34 DEF ReadSnapshotFails, Abort, MarkNeedsResync, socket, channel
  <2> QED
    BY <2>1 DEF ResyncIsRun, Armed
<1>35. CASE ListRoots
  BY <1>35 DEF ResyncIsRun, ListRoots, socket, channel, memory
<1>36. CASE ListNothing
  <2>1. /\ UNCHANGED <<live, chan, gapCheck, needsResync>> /\ pc' = "loop" /\ (needsResync => retry')
        /\ lapses \subseteq lapses' \/ "gap" \in lapses'
    BY <1>36 DEF ListNothing, socket, channel
  <2> QED
    BY <2>1 DEF ResyncIsRun, Armed
<1>37. CASE StopListing
  <2>1. /\ UNCHANGED <<live, chan, gapCheck, ctl>> /\ pc' = "loop" /\ Stopping
        /\ lapses \subseteq lapses' \/ "gap" \in lapses'
    BY <1>37 DEF StopListing, Abort, MarkNeedsResync, socket, channel
  <2> QED
    BY <2>1 DEF ResyncIsRun, Armed, Stopping
<1>38. CASE \E r \in Roots : ApplySynthetics(r)
  BY <1>38, RunSteady DEF ApplySynthetics, Stopping, socket, channel, memory, drain
<1>39. CASE ApplyFails
  <2>1. /\ UNCHANGED <<live, chan, gapCheck>> /\ pc' = "loop" /\ retry'
        /\ lapses \subseteq lapses' \/ "gap" \in lapses'
    BY <1>39 DEF ApplyFails, MarkNeedsResync, socket, channel
  <2> QED
    BY <2>1 DEF ResyncIsRun, Armed
<1>40. CASE CommitResync
  BY <1>40 DEF ResyncIsRun, CommitResync, socket, channel, memory
<1>41. CASE UNCHANGED vars
  BY <1>41, RunSteady DEF Stopping, vars, socket, channel, db, memory, drain
<1> QED
  BY <1>1, <1>2, <1>3, <1>4, <1>5, <1>6, <1>7, <1>8, <1>9, <1>10, <1>11, <1>12, <1>13, <1>14,
     <1>15, <1>16, <1>17, <1>18, <1>19, <1>20, <1>21, <1>22, <1>23, <1>24, <1>25, <1>26,
     <1>27, <1>28, <1>29, <1>30, <1>31, <1>32, <1>33, <1>34, <1>35, <1>36, <1>37, <1>38,
     <1>39, <1>40, <1>41, <1>42
  DEF Next, Environment, Worker

(* A step that leaves what DueIsCovered speaks of as it was *)
LEMMA DueSteady ==
    ASSUME DueIsCovered,
           UNCHANGED <<live, due, watermark, store, shed, chan, gapCheck, then, listing>>,
           latching => latching', lapses \subseteq lapses', needsResync => needsResync',
           \/ pc' = pc
           \/ pc \in {"drain", "slow"} /\ pc' \in {"drain", "slow"}
           \/ pc \in {"loop", "burst"} /\ pc' \in {"loop", "burst", "resync"}
    PROVE  DueIsCovered'
  BY DEF DueIsCovered, DueIsNoted

(* A step after which the resync is recorded, or forgotten *)
LEMMA DueMarked ==
    ASSUME MarkNeedsResync, pc' \notin {"listing", "apply"}
    PROVE  DueIsCovered'
  BY DEF DueIsCovered, MarkNeedsResync

LEMMA DueDrained ==
    ASSUME DueIsCovered, NEW next, DrainPending(next), pc \in {"loop", "burst", "wait"},
           pc = "wait" => next = "wait"
    PROVE  DueIsCovered'
<1>1. ASSUME NEW i \in DOMAIN chan, chan[i] = Drive(due),
             store' = store \cup {chan[j].id : j \in {k \in DOMAIN chan : chan[k].kind = "drive"}}
      PROVE  due \in store'
  <2>1. chan[i].kind = "drive" /\ chan[i].id = due
    BY <1>1 DEF Drive
  <2> QED
    BY <1>1, <2>1
<1>2. /\ GapCheckAfter(gapCheck', chan') = GapCheckAfter(gapCheck, chan)
      /\ pc' = "drain" /\ then' = next /\ UNCHANGED <<live, due, shed, latching, watermark>>
  BY DrainTakes
<1>3. CASE "gap" \in lapses' \/ needsResync'
  BY <1>2, <1>3 DEF DueIsCovered
<1>4. CASE /\ UNCHANGED <<needsResync, lapses>>
           /\ store' = store \cup {chan[i].id : i \in {j \in DOMAIN chan : chan[j].kind = "drive"}}
  <2>1. due \in store => due \in store'
    BY <1>4
  <2>2. DueIsNoted => DueIsNoted'
    BY <1>1, <1>2, <1>4, <2>1 DEF DueIsNoted
  <2> QED
    BY <1>2, <1>4, <2>2 DEF DueIsCovered
<1> QED
  BY <1>3, <1>4, DrainTakes

LEMMA DueRead ==
    ASSUME CacheCore, DueIsCovered, pc = "loop", RunGapCheck
    PROVE  DueIsCovered'
<1>1. UNCHANGED <<live, due, watermark>>
  BY DEF RunGapCheck, socket, db
<1>2. \/ pc' = "resync" \/ "gap" \in lapses'
      \/ ~(Len(log) > Max({watermark, 0}))
  BY DEF RunGapCheck, MaybeRunResync, ShouldResyncForRemote
<1>3. ~(Len(log) > Max({watermark, 0})) => due <= watermark \/ due = 0
  BY MarkOrZero, LogIs DEF CacheCore, ServerTypes
<1> QED
  BY <1>1, <1>2, <1>3 DEF DueIsCovered, DueIsNoted

LEMMA DueIsInductive ==
    ASSUME CacheCore, ResyncIsRun, DueIsCovered, [Next]_vars PROVE DueIsCovered'
<1>1. CASE \E r \in Roots, kind \in Kinds : Change(r, kind)
  BY <1>1, DueSteady DEF Change, socket, channel, db, memory, drain
<1>2. CASE \E id \in Ids : Settle(id)
  BY <1>2, DueSteady DEF Settle, socket, channel, db, memory, drain
<1>3. CASE Subscribe
  <2>1. Connected \in Message /\ RouteThreadEvent(Connected) /\ ~live /\ UNCHANGED <<gapCheck, lapses>>
    BY <1>3, MessagesAre DEF Subscribe, memory
  <2>2. CASE chan' = Append(chan, Connected)
    <3>1. GapCheckAfter(gapCheck', chan') = "due" \/ "gap" \in lapses'
      BY <2>1, <2>2, RoutedOrShed, GapCheckAppend DEF ResyncIsRun
    <3> QED
      BY <3>1 DEF DueIsCovered, DueIsNoted
  <2>3. CASE shed' \/ latching'
    BY <2>3 DEF DueIsCovered, DueIsNoted
  <2> QED
    BY <2>1, <2>2, <2>3, RoutedOrShed
<1>4. CASE Disconnect
  BY <1>4 DEF DueIsCovered, Disconnect
<1>5. CASE Deliver
  <2>1. sent + 1 \in Ids
    BY <1>5, LogIs DEF Deliver, CacheCore, ServerTypes, Ids
  <2>2. Drive(sent + 1) \in Message /\ RouteThreadEvent(Drive(sent + 1)) /\ due' = sent + 1
    BY <1>5, <2>1, MessagesAre DEF Deliver
  <2>3. shed' \/ latching' \/ chan' = Append(chan, Drive(due'))
    BY <2>2, RoutedOrShed
  <2>4. chan' = Append(chan, Drive(due')) => \E i \in DOMAIN chan' : chan'[i] = Drive(due')
    <3>1. chan \in Seq(Message)
      BY DEF CacheCore, ChannelTypes
    <3>2. /\ Len(chan) + 1 \in DOMAIN Append(chan, Drive(due'))
          /\ Append(chan, Drive(due'))[Len(chan) + 1] = Drive(due')
      BY <3>1
    <3> QED
      BY <3>2
  <2> HIDE DEF Drive
  <2> QED
    BY <2>3, <2>4 DEF DueIsCovered, DueIsNoted, Drive
<1>6. CASE DropEvent
  BY <1>6, DueSteady DEF DropEvent, channel, db, memory, drain
<1>7. CASE LatchShed
  BY <1>7 DEF DueIsCovered, DueIsNoted, LatchShed
<1>8. CASE Control
  BY <1>8, DueSteady DEF Control, socket, channel, db, drain
<1>9. CASE Boot
  BY <1>9 DEF DueIsCovered, ResyncIsRun, Boot, socket
<1>10. CASE Crash
  BY <1>10 DEF DueIsCovered, Crash, LoseMemory
<1>11. CASE Exit
  BY <1>11 DEF DueIsCovered, Exit, LoseMemory
<1>12. CASE EventArm
  BY <1>12, DueDrained DEF EventArm, Selecting
<1>13. CASE Shutdown
  BY <1>13, DueDrained DEF Shutdown, Serving
<1>14. CASE WaitDrain
  BY <1>14, DueDrained DEF WaitDrain
<1>15. CASE DrainBatch
  <2>1. /\ UNCHANGED <<live, due, shed, latching, chan, gapCheck, then, lapses>> /\ pc = "drain" /\ pc' = "drain"
        /\ needsResync => needsResync'
    BY <1>15 DEF DrainBatch, socket, channel, memory
  <2>2. (due \in store => due \in store' \/ due <= watermark' \/ needsResync') /\ watermark' >= watermark
    BY ConsumedStep
  <2>3. due <= watermark => due <= watermark'
    <3>1. watermark \in Int /\ watermark' \in Int /\ due \in Int
      BY CoreIsInductive, LogIs DEF CacheCore, ServerTypes, DbTypes, Marks, None
    <3> QED
      BY <2>2, <3>1
  <2> QED
    BY <2>1, <2>2, <2>3 DEF DueIsCovered, DueIsNoted
<1>16. CASE DrainBatchAborts
  BY <1>16, DueSteady DEF DrainBatchAborts, socket, channel, db
<1>17. CASE ApplyAlone
  BY <1>17, DueSteady DEF ApplyAlone, socket, channel
<1>18. CASE Quarantine
  BY <1>18, DueSteady DEF Quarantine, socket, channel, db, memory
<1>19. CASE CommitDrainBatch
  <2>1. /\ UNCHANGED <<live, due, shed, latching, chan, gapCheck, then, lapses>> /\ pc = "slow" /\ pc' = "drain"
        /\ needsResync => needsResync'
    BY <1>19 DEF CommitDrainBatch, socket, channel, memory
  <2>2. (due \in store => due \in store' \/ due <= watermark' \/ needsResync') /\ watermark' >= watermark
    BY ConsumedStep
  <2>3. due <= watermark => due <= watermark'
    <3>1. watermark \in Int /\ watermark' \in Int /\ due \in Int
      BY CoreIsInductive, LogIs DEF CacheCore, ServerTypes, DbTypes, Marks, None
    <3> QED
      BY <2>2, <3>1
  <2> QED
    BY <2>1, <2>2, <2>3 DEF DueIsCovered, DueIsNoted
<1>20. CASE DrainPendingEnds
  <2>1. /\ pc \in {"drain", "slow"}
        /\ UNCHANGED <<live, due, store, gapCheck, chan, watermark, latching, lapses>>
    BY <1>20 DEF DrainPendingEnds, DrainDone, memory, socket
  <2>2. (needsResync => needsResync') /\ (shed => shed' \/ needsResync')
    BY <1>20 DEF DrainPendingEnds
  <2>3. /\ pc' \in {"loop", "resync", "wait", "exit"}
        /\ then = "wait" => pc' = "wait"
    BY <1>20 DEF DrainPendingEnds, MaybeRunResync, CacheCore, WorkerTypes
  <2> QED
    BY <2>1, <2>2, <2>3 DEF DueIsCovered, DueIsNoted
<1>21. CASE ResyncDrainEnds
  <2>1. /\ pc \in {"drain", "slow"} /\ then = "finish" /\ pc' = "loop"
        /\ UNCHANGED <<live, due, store, shed, gapCheck, chan, watermark, latching, lapses, needsResync>>
    BY <1>21 DEF ResyncDrainEnds, DrainDone, socket, channel, db
  <2> QED
    BY <2>1 DEF DueIsCovered, DueIsNoted
<1>22. CASE GapCheckDue
  BY <1>22, DueRead DEF GapCheckDue
<1>23. CASE CatchUp
  BY <1>23, DueRead DEF CatchUp, Quiet, Selecting
<1>24. CASE ResyncRetry
  BY <1>24, DueSteady
  DEF ResyncRetry, MaybeRunResync, Quiet, Selecting, socket, channel, db, drain
<1>25. CASE RelistShortRoots
  <2>1. pc' \in {"loop", "resync"} /\ MarkNeedsResync
    BY <1>25 DEF RelistShortRoots, MaybeRunResync
  <2> QED
    BY <2>1, DueMarked
<1>26. CASE AddSyncRoot
  BY <1>26, DueSteady DEF AddSyncRoot, Served, Serving, socket, channel, drain
<1>27. CASE RejectSyncRoot
  BY <1>27, DueSteady DEF RejectSyncRoot, Served, Serving, socket, channel, db, drain
<1>28. CASE RemoveRegistration
  BY <1>28, DueSteady DEF RemoveRegistration, Served, Serving, socket, channel, drain
<1>42. CASE ConvergeNewRoots
  <2>1. \/ MarkNeedsResync /\ pc' = "resync"
        \/ UNCHANGED <<lapses, needsResync>> /\ pc' = "loop"
    BY <1>42 DEF ConvergeNewRoots
  <2>2. /\ UNCHANGED <<live, due, watermark, store, shed, chan, gapCheck, then, listing, latching>>
        /\ pc = "burst"
    BY <1>42 DEF ConvergeNewRoots, socket, channel, drain
  <2> QED
    BY <2>1, <2>2, DueMarked, DueSteady
<1>29. CASE StartResync
  BY <1>29 DEF DueIsCovered, StartResync
<1>30. CASE StartFails
  BY <1>30 DEF DueIsCovered, StartFails
<1>31. CASE JumpWatermark
  <2>1. /\ UNCHANGED <<live, due>> /\ pc' = "loop"
        /\ MarkNeedsResync \/ watermark' = Len(log)
    BY <1>31 DEF JumpWatermark, socket
  <2>2. due <= Len(log)
    BY LogIs DEF CacheCore, ServerTypes
  <2> QED
    BY <2>1, <2>2, DueMarked DEF DueIsCovered, DueIsNoted
<1>32. CASE WaitAborts
  BY <1>32, DueMarked DEF WaitAborts, Abort
<1>33. CASE LockAcquired
  <2>1. /\ UNCHANGED <<live, due>> /\ pc' = "listing" /\ listing'.at = Len(log)
    BY <1>33 DEF LockAcquired, socket, CacheCore, DrainTypes, Listing
  <2>2. due <= Len(log)
    BY LogIs DEF CacheCore, ServerTypes
  <2> QED
    BY <2>1, <2>2 DEF DueIsCovered
<1>34. CASE ReadSnapshotFails
  BY <1>34, DueMarked DEF ReadSnapshotFails, Abort
<1>35. CASE ListRoots
  <2>1. /\ UNCHANGED <<live, due, watermark, store, shed, latching, chan, gapCheck, lapses>>
        /\ pc = "listing" /\ pc' = "apply" /\ listing'.at = listing.at
    BY <1>35 DEF ListRoots, socket, channel, memory, CacheCore, DrainTypes, Listing
  <2> QED
    BY <2>1 DEF DueIsCovered, DueIsNoted
<1>36. CASE ListNothing
  <2>1. pc' = "loop" /\ UNCHANGED needsResync /\ (needsResync \/ "gap" \in lapses')
    BY <1>36 DEF ListNothing
  <2> QED
    BY <2>1 DEF DueIsCovered
<1>37. CASE StopListing
  BY <1>37, DueMarked DEF StopListing, Abort
<1>38. CASE \E r \in Roots : ApplySynthetics(r)
  BY <1>38, DueSteady DEF ApplySynthetics, socket, channel, memory, drain
<1>39. CASE ApplyFails
  BY <1>39, DueMarked DEF ApplyFails
<1>40. CASE CommitResync
  <2>1. /\ UNCHANGED <<live, due, store, shed, latching, chan, gapCheck, lapses>> /\ pc = "apply" /\ pc' = "drain"
        /\ watermark' = listing.at /\ watermark <= listing.at
    BY <1>40 DEF CommitResync, socket, channel, memory, CacheCore, WorkerShape
  <2>2. due \in Int /\ (due <= watermark => due <= listing.at)
    BY <2>1, LogIs DEF CacheCore, ServerTypes
  <2> QED
    BY <2>1, <2>2 DEF DueIsCovered, DueIsNoted
<1>41. CASE UNCHANGED vars
  BY <1>41, DueSteady DEF vars, socket, channel, db, memory, drain
<1> QED
  BY <1>1, <1>2, <1>3, <1>4, <1>5, <1>6, <1>7, <1>8, <1>9, <1>10, <1>11, <1>12, <1>13, <1>14,
     <1>15, <1>16, <1>17, <1>18, <1>19, <1>20, <1>21, <1>22, <1>23, <1>24, <1>25, <1>26,
     <1>27, <1>28, <1>29, <1>30, <1>31, <1>32, <1>33, <1>34, <1>35, <1>36, <1>37, <1>38,
     <1>39, <1>40, <1>41, <1>42
  DEF Next, Environment, Worker

LEMMA NotedIsCaughtUp ==
    ASSUME CacheCore, DueIsNoted, chan = <<>>, gapCheck # "due", store = {}, ~shed, ~latching
    PROVE  Max({watermark, 0}) >= due
<1>1. GapCheckAfter(gapCheck, chan) # "due"
  BY GapCheckOfNone
<1>2. due <= watermark \/ due = 0 \/ \E i \in DOMAIN chan : chan[i] = Drive(due)
  BY <1>1 DEF DueIsNoted
<1>3. DOMAIN chan = {}
  OBVIOUS
<1>4. due <= watermark \/ due = 0
  BY <1>2, <1>3
<1>5. due \in Int
  BY LogIs DEF CacheCore, ServerTypes
<1> QED
  BY <1>4, <1>5, MarkOrZero, LogIs

(* IdleIsCaughtUp, whatever fails: a subscribed worker with nothing left   *)
(* to do has its watermark at the last change there was when it subscribed *)
(* or that it was told of since, unless it forgot to look, or a notice of  *)
(* it waits in the latch or in the store for the next event (run,          *)
(* drain_pending, run_gap_check).                                          *)
THEOREM WorkerCatchesUp == Spec => []IdleIsCaughtUp
<1>1. Init => ResyncIsRun /\ DueIsCovered
  <2> SUFFICES ASSUME Init PROVE ResyncIsRun /\ DueIsCovered
    OBVIOUS
  <2>1. GapCheckAfter(gapCheck, chan) = "awaiting"
    BY GapCheckOfNone DEF Init, MemoryInit
  <2> QED
    BY <2>1 DEF Init, MemoryInit, ResyncIsRun, DueIsCovered
<1>2. CacheCore /\ ResyncIsRun /\ DueIsCovered /\ [Next]_vars => (ResyncIsRun /\ DueIsCovered)'
  BY ResyncIsRunIsInductive, DueIsInductive
<1>3. CacheCore /\ ResyncIsRun /\ DueIsCovered => IdleIsCaughtUp
  <2> SUFFICES ASSUME CacheCore, ResyncIsRun, DueIsCovered, Idle, live, "gap" \notin lapses,
                      ~shed, store = {}
               PROVE  Max({watermark, 0}) >= due
    BY DEF IdleIsCaughtUp
  <2>1. pc = "loop" /\ chan = <<>> /\ gapCheck # "due" /\ ~retry /\ ctl = <<>> /\ ~latching
    BY DEF Idle, Quiet, Selecting
  <2>2. ~Stopping
    BY <2>1 DEF Stopping
  <2>3. ~needsResync
    BY <2>1, <2>2 DEF ResyncIsRun, Armed
  <2>4. DueIsNoted
    BY <2>1, <2>3 DEF DueIsCovered
  <2> QED
    BY <2>1, <2>4, NotedIsCaughtUp
<1> QED
  BY <1>1, <1>2, <1>3, CoreHolds, PTL DEF Spec

=============================================================================
