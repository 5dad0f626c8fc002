------------------------ MODULE SocketListenersProofs ------------------------
(* Proofs about SocketListeners, for any registrations, tasks and events, and *)
(* any capacity of the channel.                                               *)
EXTENDS SocketListeners, TLAPS

USE RegsAssumption, BoundsAssumption

(* The inductive part of RegistrationInvariant; the rest follows from it *)
SocketCore ==
    /\ TypeOK /\ TaskShape /\ RegShape /\ RequestsInOrder /\ TableIsOwn
    /\ CancelIsSeen /\ NoListenerLeaks /\ HeldIsListening
    /\ DueIsQueued /\ ListenersAreTold

-----------------------------------------------------------------------------
(* Requests and queues. *)

LEMMA RequestFields ==
    \A k, r : Request(k, r).kind = k /\ Request(k, r).reg = r
  BY DEF Request

LEMMA RequestsAre ==
    /\ \A k \in {"add", "remove"}, r \in Regs : Request(k, r) \in Requests
    /\ Request("reconnect", None) \in Requests
    /\ \A q \in Requests : /\ q = Request(q.kind, q.reg)
                           /\ \/ q.kind \in {"add", "remove"} /\ q.reg \in Regs
                              \/ q = Request("reconnect", None)
  BY RequestFields DEF Requests

LEMMA AppendSet ==
    ASSUME NEW S, NEW q \in Seq(S), NEW x \in S
    PROVE  /\ Append(q, x) \in Seq(S) /\ Append(q, x) # <<>>
           /\ Len(Append(q, x)) = Len(q) + 1
           /\ ToSet(Append(q, x)) = ToSet(q) \cup {x}
<1>1. /\ Append(q, x) \in Seq(S) /\ Append(q, x) # <<>> /\ Len(Append(q, x)) = Len(q) + 1
      /\ DOMAIN Append(q, x) = DOMAIN q \cup {Len(q) + 1}
      /\ \A i \in DOMAIN q : Append(q, x)[i] = q[i]
      /\ Append(q, x)[Len(q) + 1] = x
  OBVIOUS
<1> QED
  BY <1>1 DEF ToSet

LEMMA TailSet ==
    ASSUME NEW S, NEW q \in Seq(S), q # <<>>
    PROVE  /\ Head(q) \in S /\ Tail(q) \in Seq(S) /\ Len(Tail(q)) = Len(q) - 1
           /\ ToSet(q) = {Head(q)} \cup ToSet(Tail(q))
<1>1. /\ Head(q) \in S /\ Tail(q) \in Seq(S) /\ Len(Tail(q)) = Len(q) - 1
      /\ Head(q) = q[1] /\ Len(q) \in Nat \ {0}
      /\ DOMAIN q = 1..Len(q) /\ DOMAIN Tail(q) = 1..(Len(q) - 1)
      /\ \A i \in DOMAIN Tail(q) : Tail(q)[i] = q[i + 1]
  OBVIOUS
<1>2. \A i \in DOMAIN q : i = 1 \/ (i - 1 \in DOMAIN Tail(q) /\ q[i] = Tail(q)[i - 1])
  BY <1>1
<1>3. \A i \in DOMAIN Tail(q) : i + 1 \in DOMAIN q /\ q[i + 1] = Tail(q)[i]
  BY <1>1
<1>4. ToSet(q) \subseteq {Head(q)} \cup ToSet(Tail(q))
  <2> SUFFICES ASSUME NEW i \in DOMAIN q PROVE q[i] \in {Head(q)} \cup ToSet(Tail(q))
    BY DEF ToSet
  <2> QED
    BY <1>1, <1>2 DEF ToSet
<1>5. 1 \in DOMAIN q
  BY <1>1
<1>6. {Head(q)} \cup ToSet(Tail(q)) \subseteq ToSet(q)
  BY <1>1, <1>3, <1>5 DEF ToSet
<1> QED
  BY <1>1, <1>4, <1>6

LEMMA NoneQueued == ToSet(<<>>) = {} /\ AskedOnce(<<>>) /\ Ascending(<<>>)
  BY DEF ToSet, AskedOnce, Ascending

LEMMA InSet == ASSUME NEW S, NEW q \in Seq(S) PROVE ToSet(q) \subseteq S /\ (ToSet(q) # {} => q # <<>>)
  BY DEF ToSet

LEMMA AskedOnceAppend ==
    ASSUME NEW q \in Seq(Requests), NEW x \in Requests,
           AskedOnce(q), x.kind = "add" => x \notin ToSet(q)
    PROVE  AskedOnce(Append(q, x))
<1>1. /\ DOMAIN Append(q, x) = DOMAIN q \cup {Len(q) + 1}
      /\ \A i \in DOMAIN q : Append(q, x)[i] = q[i]
      /\ Append(q, x)[Len(q) + 1] = x
  OBVIOUS
<1>2. \A i \in DOMAIN q : q[i] \in ToSet(q)
  BY DEF ToSet
<1> QED
  BY <1>1, <1>2 DEF AskedOnce

LEMMA AskedOnceTail ==
    ASSUME NEW q \in Seq(Requests), q # <<>>, AskedOnce(q)
    PROVE  AskedOnce(Tail(q)) /\ (Head(q).kind = "add" => Head(q) \notin ToSet(Tail(q)))
<1>1. /\ Head(q) = q[1] /\ 1 \in DOMAIN q
      /\ \A i \in DOMAIN Tail(q) : i \in Nat \ {0} /\ i + 1 \in DOMAIN q /\ Tail(q)[i] = q[i + 1]
  OBVIOUS
<1>2. AskedOnce(Tail(q))
  BY <1>1 DEF AskedOnce
<1>3. ASSUME Head(q).kind = "add", NEW i \in DOMAIN Tail(q) PROVE Tail(q)[i] # Head(q)
  BY <1>1, <1>3 DEF AskedOnce
<1> QED
  BY <1>2, <1>3 DEF ToSet

LEMMA AscendingAppend ==
    ASSUME NEW q \in Seq(Nat), NEW n \in Nat, Ascending(q), \A e \in ToSet(q) : e < n
    PROVE  Ascending(Append(q, n))
<1>1. /\ DOMAIN Append(q, n) = DOMAIN q \cup {Len(q) + 1} /\ DOMAIN q = 1..Len(q)
      /\ \A i \in DOMAIN q : Append(q, n)[i] = q[i]
      /\ Append(q, n)[Len(q) + 1] = n
  OBVIOUS
<1>2. \A i \in DOMAIN q : q[i] < n
  BY DEF ToSet
<1>3. Len(q) \in Nat
  OBVIOUS
<1> QED
  BY <1>1, <1>2, <1>3 DEF Ascending

LEMMA AscendingTail ==
    ASSUME NEW q \in Seq(Nat), q # <<>>, Ascending(q)
    PROVE  Ascending(Tail(q)) /\ \A e \in ToSet(q) : Head(q) <= e
<1>1. /\ Head(q) = q[1] /\ 1 \in DOMAIN q /\ \A i \in DOMAIN q : i \in Nat \ {0} /\ q[i] \in Nat
      /\ \A i \in DOMAIN Tail(q) : i \in Nat \ {0} /\ i + 1 \in DOMAIN q /\ Tail(q)[i] = q[i + 1]
  OBVIOUS
<1>2. Ascending(Tail(q))
  BY <1>1 DEF Ascending
<1>3. \A i \in DOMAIN q : Head(q) <= q[i]
  BY <1>1 DEF Ascending
<1> QED
  BY <1>2, <1>3 DEF ToSet

LEMMA TakeAckKeeps ==
    ASSUME SocketCore, NEW r \in Regs, TakeAck(r)
    PROVE  SocketCore'
<1>1. TypeOK'
  BY DEF SocketCore, TypeOK, RegStates, TaskStates, TakeAck, taskVars
<1>2. TaskShape'
  BY DEF SocketCore, TypeOK, TaskShape, Running, TakeAck, taskVars
<1>3. RegShape'
  BY DEF SocketCore, TypeOK, RegShape, TakeAck, taskVars
<1>4. RequestsInOrder'
  BY DEF SocketCore, TypeOK, RequestsInOrder, Queued, TakeAck, taskVars
<1>5. TableIsOwn'
  BY DEF SocketCore, TypeOK, TableIsOwn, TakeAck, taskVars
<1>6. CancelIsSeen'
  BY DEF SocketCore, TypeOK, CancelIsSeen, Queued, TakeAck, taskVars
<1>7. NoListenerLeaks'
  BY DEF SocketCore, TypeOK, NoListenerLeaks, Queued, TakeAck, taskVars, RegShape, TaskShape,
         TableIsOwn
<1>8. HeldIsListening'
  BY DEF SocketCore, TypeOK, HeldIsListening, TakeAck, taskVars, TableIsOwn
<1>9. DueIsQueued'
  BY DEF SocketCore, TypeOK, DueIsQueued, TakeAck, taskVars
<1>10. ListenersAreTold'
  BY DEF SocketCore, TypeOK, ListenersAreTold, TakeAck, taskVars
<1> QED
  BY <1>1, <1>2, <1>3, <1>4, <1>5, <1>6, <1>7, <1>8, <1>9, <1>10 DEF SocketCore

LEMMA GuardCancelsKeeps ==
    ASSUME SocketCore, NEW r \in Regs, GuardCancels(r)
    PROVE  SocketCore'
<1>1. TypeOK'
  <2>1. CASE st[r] = "sending"
    BY <2>1 DEF SocketCore, TypeOK, RegStates, GuardCancels, taskVars
  <2>2. CASE st[r] = "waiting"
    <3>1. cancel' = cancel \cup {r} /\ st' = [st EXCEPT ![r] = "cancelling"]
      BY <2>2 DEF GuardCancels
    <3> QED
      BY <3>1 DEF SocketCore, TypeOK, RegStates, GuardCancels, taskVars
  <2> QED
    BY <2>1, <2>2 DEF GuardCancels
<1>2. TaskShape'
  BY DEF SocketCore, TypeOK, TaskShape, Running, GuardCancels, taskVars
<1>3. RegShape'
  BY DEF SocketCore, TypeOK, RegShape, GuardCancels, taskVars
<1>4. RequestsInOrder'
  BY DEF SocketCore, TypeOK, RequestsInOrder, Queued, GuardCancels, taskVars
<1>5. TableIsOwn'
  BY DEF SocketCore, TypeOK, TableIsOwn, GuardCancels, taskVars
<1>6. CancelIsSeen'
  BY DEF SocketCore, TypeOK, CancelIsSeen, Queued, GuardCancels, taskVars, TableIsOwn
<1>7. NoListenerLeaks'
  BY DEF SocketCore, TypeOK, NoListenerLeaks, Queued, GuardCancels, taskVars, TableIsOwn
<1>8. HeldIsListening'
  BY DEF SocketCore, TypeOK, HeldIsListening, GuardCancels, taskVars
<1>9. DueIsQueued'
  BY DEF SocketCore, TypeOK, DueIsQueued, GuardCancels, taskVars
<1>10. ListenersAreTold'
  BY DEF SocketCore, TypeOK, ListenersAreTold, GuardCancels, taskVars
<1> QED
  BY <1>1, <1>2, <1>3, <1>4, <1>5, <1>6, <1>7, <1>8, <1>9, <1>10 DEF SocketCore

LEMMA GuardLooksKeeps ==
    ASSUME SocketCore, NEW r \in Regs, GuardLooks(r)
    PROVE  SocketCore'
<1>1. TypeOK'
  BY DEF SocketCore, TypeOK, RegStates, TaskStates, GuardLooks, taskVars
<1>2. TaskShape'
  BY DEF SocketCore, TypeOK, TaskShape, Running, GuardLooks, taskVars
<1>3. RegShape'
  BY DEF SocketCore, TypeOK, RegShape, GuardLooks, taskVars
<1>4. RequestsInOrder'
  BY DEF SocketCore, TypeOK, RequestsInOrder, Queued, GuardLooks, taskVars
<1>5. TableIsOwn'
  BY DEF SocketCore, TypeOK, TableIsOwn, GuardLooks, taskVars
<1>6. CancelIsSeen'
  BY DEF SocketCore, TypeOK, CancelIsSeen, Queued, GuardLooks, taskVars
<1>7. NoListenerLeaks'
  BY DEF SocketCore, TypeOK, NoListenerLeaks, Queued, GuardLooks, taskVars, TableIsOwn
<1>8. HeldIsListening'
  BY DEF SocketCore, TypeOK, HeldIsListening, GuardLooks, taskVars
<1>9. DueIsQueued'
  BY DEF SocketCore, TypeOK, DueIsQueued, GuardLooks, taskVars
<1>10. ListenersAreTold'
  BY DEF SocketCore, TypeOK, ListenersAreTold, GuardLooks, taskVars
<1> QED
  BY <1>1, <1>2, <1>3, <1>4, <1>5, <1>6, <1>7, <1>8, <1>9, <1>10 DEF SocketCore

LEMMA GuardClosesKeeps ==
    ASSUME SocketCore, NEW r \in Regs, GuardCloses(r)
    PROVE  SocketCore'
<1>1. TypeOK'
  BY DEF SocketCore, TypeOK, RegStates, TaskStates, GuardCloses, taskVars
<1>2. TaskShape'
  BY DEF SocketCore, TypeOK, TaskShape, Running, GuardCloses, taskVars
<1>3. RegShape'
  BY DEF SocketCore, TypeOK, RegShape, GuardCloses, taskVars
<1>4. RequestsInOrder'
  BY DEF SocketCore, TypeOK, RequestsInOrder, Queued, GuardCloses, taskVars
<1>5. TableIsOwn'
  BY DEF SocketCore, TypeOK, TableIsOwn, GuardCloses, taskVars
<1>6. CancelIsSeen'
  BY DEF SocketCore, TypeOK, CancelIsSeen, Queued, GuardCloses, taskVars, RegShape
<1>7. NoListenerLeaks'
  BY DEF SocketCore, TypeOK, NoListenerLeaks, Queued, GuardCloses, taskVars, TableIsOwn,
         CancelIsSeen
<1>8. HeldIsListening'
  BY DEF SocketCore, TypeOK, HeldIsListening, GuardCloses, taskVars
<1>9. DueIsQueued'
  BY DEF SocketCore, TypeOK, DueIsQueued, GuardCloses, taskVars
<1>10. ListenersAreTold'
  BY DEF SocketCore, TypeOK, ListenersAreTold, GuardCloses, taskVars
<1> QED
  BY <1>1, <1>2, <1>3, <1>4, <1>5, <1>6, <1>7, <1>8, <1>9, <1>10 DEF SocketCore

LEMMA DropHandleKeeps ==
    ASSUME SocketCore, NEW r \in Regs, DropHandle(r)
    PROVE  SocketCore'
<1>1. TypeOK'
  BY DEF SocketCore, TypeOK, RegStates, TaskStates, DropHandle, taskVars
<1>2. TaskShape'
  BY DEF SocketCore, TypeOK, TaskShape, Running, DropHandle, taskVars
<1>3. RegShape'
  BY DEF SocketCore, TypeOK, RegShape, DropHandle, taskVars
<1>4. RequestsInOrder'
  BY DEF SocketCore, TypeOK, RequestsInOrder, Queued, DropHandle, taskVars
<1>5. TableIsOwn'
  BY DEF SocketCore, TypeOK, TableIsOwn, DropHandle, taskVars
<1>6. CancelIsSeen'
  BY DEF SocketCore, TypeOK, CancelIsSeen, Queued, DropHandle, taskVars
<1>7. NoListenerLeaks'
  BY DEF SocketCore, TypeOK, NoListenerLeaks, Queued, DropHandle, taskVars
<1>8. HeldIsListening'
  BY DEF SocketCore, TypeOK, HeldIsListening, DropHandle, taskVars
<1>9. DueIsQueued'
  BY DEF SocketCore, TypeOK, DueIsQueued, DropHandle, taskVars
<1>10. ListenersAreTold'
  BY DEF SocketCore, TypeOK, ListenersAreTold, DropHandle, taskVars
<1> QED
  BY <1>1, <1>2, <1>3, <1>4, <1>5, <1>6, <1>7, <1>8, <1>9, <1>10 DEF SocketCore

LEMMA RegisterKeeps ==
    ASSUME SocketCore, NEW r \in Regs, Register(r)
    PROVE  SocketCore'
<1>1. PICK a \in Threads :
        /\ at' = [at EXCEPT ![r] = a] /\ th'[a] # "unborn"
        /\ cur' \in Threads /\ th'[cur'] # "unborn"
  BY DEF SocketCore, TypeOK, TaskShape, Register, Live
<1>2. /\ th' \in [Threads -> TaskStates]
      /\ \A t \in Threads : th'[t] = th[t] \/ (th[t] = "unborn" /\ th'[t] = "starting")
  BY DEF SocketCore, TypeOK, Register, TaskStates
<1>3. /\ st[r] = "idle" /\ at[r] = None /\ st' = [st EXCEPT ![r] = "sending"]
      /\ UNCHANGED <<ack, cancel, cut, table, newIds, busy, queue, counted, told, chan, next, due>>
  BY DEF SocketCore, RegShape, Register
<1>4. TypeOK'
  BY <1>1, <1>2, <1>3 DEF SocketCore, TypeOK, RegStates, TaskStates, RegShape
<1>5. TaskShape'
  BY <1>1, <1>2, <1>3 DEF SocketCore, TypeOK, TaskShape, Running, RegShape
<1>6. RegShape'
  BY <1>1, <1>2, <1>3 DEF SocketCore, TypeOK, RegShape
<1>7. RequestsInOrder'
  BY <1>1, <1>2, <1>3 DEF SocketCore, TypeOK, RequestsInOrder, Queued, RegShape
<1>8. TableIsOwn'
  BY <1>1, <1>2, <1>3 DEF SocketCore, TypeOK, TableIsOwn, RegShape
<1>9. CancelIsSeen'
  BY <1>1, <1>2, <1>3 DEF SocketCore, TypeOK, CancelIsSeen, Queued, RegShape
<1>10. NoListenerLeaks'
  BY <1>1, <1>2, <1>3 DEF SocketCore, TypeOK, NoListenerLeaks, Queued, RegShape
<1>11. HeldIsListening'
  BY <1>1, <1>2, <1>3 DEF SocketCore, TypeOK, HeldIsListening, RegShape
<1>12. DueIsQueued'
  BY <1>1, <1>2, <1>3 DEF SocketCore, TypeOK, DueIsQueued, RegShape, TableIsOwn
<1>13. ListenersAreTold'
  BY <1>1, <1>2, <1>3 DEF SocketCore, TypeOK, ListenersAreTold, RegShape, TableIsOwn
<1> QED
  BY <1>4, <1>5, <1>6, <1>7, <1>8, <1>9, <1>10, <1>11, <1>12, <1>13 DEF SocketCore

LEMMA StartsKeeps ==
    ASSUME SocketCore, NEW t \in Threads, Starts(t)
    PROVE  SocketCore'
<1>1. TypeOK'
  BY DEF SocketCore, TypeOK, RegStates, TaskStates, Starts, Moves, regVars
<1>2. TaskShape'
  BY DEF SocketCore, TypeOK, TaskShape, Running, Starts, Moves, regVars
<1>3. RegShape'
  BY DEF SocketCore, TypeOK, RegShape, Starts, Moves, regVars
<1>4. RequestsInOrder'
  BY DEF SocketCore, TypeOK, RequestsInOrder, Queued, Starts, Moves, regVars
<1>5. TableIsOwn'
  BY DEF SocketCore, TypeOK, TableIsOwn, Starts, Moves, regVars
<1>6. CancelIsSeen'
  BY DEF SocketCore, TypeOK, CancelIsSeen, Queued, Starts, Moves, regVars
<1>7. NoListenerLeaks'
  BY DEF SocketCore, TypeOK, NoListenerLeaks, Queued, Starts, Moves, regVars
<1>8. HeldIsListening'
  BY DEF SocketCore, TypeOK, HeldIsListening, Starts, Moves, regVars
<1>9. DueIsQueued'
  BY DEF SocketCore, TypeOK, DueIsQueued, Starts, Moves, regVars
<1>10. ListenersAreTold'
  BY DEF SocketCore, TypeOK, ListenersAreTold, Starts, Moves, regVars
<1> QED
  BY <1>1, <1>2, <1>3, <1>4, <1>5, <1>6, <1>7, <1>8, <1>9, <1>10 DEF SocketCore

LEMMA ConnectFailsKeeps ==
    ASSUME SocketCore, NEW t \in Threads, ConnectFails(t)
    PROVE  SocketCore'
<1>1. TypeOK'
  BY DEF SocketCore, TypeOK, RegStates, TaskStates, ConnectFails, Moves, regVars, Quiet
<1>2. TaskShape'
  BY DEF SocketCore, TypeOK, TaskShape, Running, ConnectFails, Moves, regVars, Quiet
<1>3. RegShape'
  BY DEF SocketCore, TypeOK, RegShape, ConnectFails, Moves, regVars, Quiet
<1>4. RequestsInOrder'
  BY DEF SocketCore, TypeOK, RequestsInOrder, Queued, ConnectFails, Moves, regVars, Quiet
<1>5. TableIsOwn'
  BY DEF SocketCore, TypeOK, TableIsOwn, ConnectFails, Moves, regVars, Quiet
<1>6. CancelIsSeen'
  BY DEF SocketCore, TypeOK, CancelIsSeen, Queued, ConnectFails, Moves, regVars, Quiet
<1>7. NoListenerLeaks'
  BY DEF SocketCore, TypeOK, NoListenerLeaks, Queued, ConnectFails, Moves, regVars, Quiet
<1>8. HeldIsListening'
  BY DEF SocketCore, TypeOK, HeldIsListening, ConnectFails, Moves, regVars, Quiet
<1>9. DueIsQueued'
  BY DEF SocketCore, TypeOK, DueIsQueued, ConnectFails, Moves, regVars, Quiet
<1>10. ListenersAreTold'
  BY DEF SocketCore, TypeOK, ListenersAreTold, ConnectFails, Moves, regVars, Quiet
<1> QED
  BY <1>1, <1>2, <1>3, <1>4, <1>5, <1>6, <1>7, <1>8, <1>9, <1>10 DEF SocketCore

LEMMA PauseElapsesKeeps ==
    ASSUME SocketCore, NEW t \in Threads, PauseElapses(t)
    PROVE  SocketCore'
<1>1. TypeOK'
  BY DEF SocketCore, TypeOK, RegStates, TaskStates, PauseElapses, Moves, regVars, Quiet
<1>2. TaskShape'
  BY DEF SocketCore, TypeOK, TaskShape, Running, PauseElapses, Moves, regVars, Quiet
<1>3. RegShape'
  BY DEF SocketCore, TypeOK, RegShape, PauseElapses, Moves, regVars, Quiet
<1>4. RequestsInOrder'
  BY DEF SocketCore, TypeOK, RequestsInOrder, Queued, PauseElapses, Moves, regVars, Quiet
<1>5. TableIsOwn'
  BY DEF SocketCore, TypeOK, TableIsOwn, PauseElapses, Moves, regVars, Quiet
<1>6. CancelIsSeen'
  BY DEF SocketCore, TypeOK, CancelIsSeen, Queued, PauseElapses, Moves, regVars, Quiet
<1>7. NoListenerLeaks'
  BY DEF SocketCore, TypeOK, NoListenerLeaks, Queued, PauseElapses, Moves, regVars, Quiet
<1>8. HeldIsListening'
  BY DEF SocketCore, TypeOK, HeldIsListening, PauseElapses, Moves, regVars, Quiet
<1>9. DueIsQueued'
  BY DEF SocketCore, TypeOK, DueIsQueued, PauseElapses, Moves, regVars, Quiet
<1>10. ListenersAreTold'
  BY DEF SocketCore, TypeOK, ListenersAreTold, PauseElapses, Moves, regVars, Quiet
<1> QED
  BY <1>1, <1>2, <1>3, <1>4, <1>5, <1>6, <1>7, <1>8, <1>9, <1>10 DEF SocketCore

LEMMA ConnectSucceedsKeeps ==
    ASSUME SocketCore, NEW t \in Threads, ConnectSucceeds(t)
    PROVE  SocketCore'
<1>1. TypeOK'
  BY DEF SocketCore, TypeOK, RegStates, TaskStates, ConnectSucceeds, Moves, regVars, Quiet
<1>2. TaskShape'
  BY DEF SocketCore, TypeOK, TaskShape, Running, ConnectSucceeds, Moves, regVars, Quiet
<1>3. RegShape'
  BY DEF SocketCore, TypeOK, RegShape, ConnectSucceeds, Moves, regVars, Quiet
<1>4. RequestsInOrder'
  BY DEF SocketCore, TypeOK, RequestsInOrder, Queued, ConnectSucceeds, Moves, regVars, Quiet
<1>5. TableIsOwn'
  BY DEF SocketCore, TypeOK, TableIsOwn, ConnectSucceeds, Moves, regVars, Quiet
<1>6. CancelIsSeen'
  BY DEF SocketCore, TypeOK, CancelIsSeen, Queued, ConnectSucceeds, Moves, regVars, Quiet
<1>7. NoListenerLeaks'
  BY DEF SocketCore, TypeOK, NoListenerLeaks, Queued, ConnectSucceeds, Moves, regVars, Quiet
<1>8. HeldIsListening'
  BY DEF SocketCore, TypeOK, HeldIsListening, ConnectSucceeds, Moves, regVars, Quiet
<1>9. DueIsQueued'
  BY DEF SocketCore, TypeOK, DueIsQueued, ConnectSucceeds, Moves, regVars, Quiet
<1>10. ListenersAreTold'
  BY DEF SocketCore, TypeOK, ListenersAreTold, ConnectSucceeds, Moves, regVars, Quiet
<1> QED
  BY <1>1, <1>2, <1>3, <1>4, <1>5, <1>6, <1>7, <1>8, <1>9, <1>10 DEF SocketCore

LEMMA SessionEndsKeeps ==
    ASSUME SocketCore, NEW t \in Threads, SessionEnds(t)
    PROVE  SocketCore'
<1>1. TypeOK'
  BY DEF SocketCore, TypeOK, RegStates, TaskStates, SessionEnds, Moves, regVars, Quiet
<1>2. TaskShape'
  BY DEF SocketCore, TypeOK, TaskShape, Running, SessionEnds, Moves, regVars, Quiet
<1>3. RegShape'
  BY DEF SocketCore, TypeOK, RegShape, SessionEnds, Moves, regVars, Quiet
<1>4. RequestsInOrder'
  BY DEF SocketCore, TypeOK, RequestsInOrder, Queued, SessionEnds, Moves, regVars, Quiet
<1>5. TableIsOwn'
  BY DEF SocketCore, TypeOK, TableIsOwn, SessionEnds, Moves, regVars, Quiet
<1>6. CancelIsSeen'
  BY DEF SocketCore, TypeOK, CancelIsSeen, Queued, SessionEnds, Moves, regVars, Quiet
<1>7. NoListenerLeaks'
  BY DEF SocketCore, TypeOK, NoListenerLeaks, Queued, SessionEnds, Moves, regVars, Quiet
<1>8. HeldIsListening'
  BY DEF SocketCore, TypeOK, HeldIsListening, SessionEnds, Moves, regVars, Quiet
<1>9. DueIsQueued'
  BY DEF SocketCore, TypeOK, DueIsQueued, SessionEnds, Moves, regVars, Quiet
<1>10. ListenersAreTold'
  BY DEF SocketCore, TypeOK, ListenersAreTold, SessionEnds, Moves, regVars, Quiet
<1> QED
  BY <1>1, <1>2, <1>3, <1>4, <1>5, <1>6, <1>7, <1>8, <1>9, <1>10 DEF SocketCore

-----------------------------------------------------------------------------
(* The channel. *)

(* No request is new, and none to remove another listener than r is taken *)
Shrinks(r) ==
    /\ chan' \in [Threads -> Seq(Requests)]
    /\ \A t \in Threads :
         /\ Len(chan'[t]) <= CAPACITY /\ AskedOnce(chan'[t])
         /\ ToSet(chan'[t]) \subseteq ToSet(chan[t])
         /\ chan'[t] # <<>> => chan[t] # <<>>
         /\ \A x : x # r /\ Queued(t, "remove", x) => Request("remove", x) \in ToSet(chan'[t])

LEMMA SameShrinks == ASSUME SocketCore, UNCHANGED chan, NEW r PROVE Shrinks(r)
  BY DEF SocketCore, TypeOK, RequestsInOrder, Shrinks, Queued

LEMMA Enqueued ==
    ASSUME SocketCore, NEW u \in Threads, NEW q \in Requests, Len(chan[u]) < CAPACITY,
           chan' = [chan EXCEPT ![u] = Append(@, q)],
           q.kind = "add" => q \notin ToSet(chan[u])
    PROVE  /\ chan' \in [Threads -> Seq(Requests)]
           /\ \A t \in Threads : Len(chan'[t]) <= CAPACITY /\ AskedOnce(chan'[t])
           /\ \A t \in Threads \ {u} : chan'[t] = chan[t]
           /\ ToSet(chan'[u]) = ToSet(chan[u]) \cup {q}
<1>1. chan[u] \in Seq(Requests) /\ Len(chan[u]) \in Nat
  BY DEF SocketCore, TypeOK
<1>2. /\ Append(chan[u], q) \in Seq(Requests) /\ Len(Append(chan[u], q)) = Len(chan[u]) + 1
      /\ ToSet(Append(chan[u], q)) = ToSet(chan[u]) \cup {q}
  BY <1>1, AppendSet
<1>3. AskedOnce(Append(chan[u], q))
  BY <1>1, AskedOnceAppend DEF SocketCore, RequestsInOrder
<1>4. chan'[u] = Append(chan[u], q) /\ \A t \in Threads \ {u} : chan'[t] = chan[t]
  BY DEF SocketCore, TypeOK
<1>5. chan' \in [Threads -> Seq(Requests)]
  BY <1>2 DEF SocketCore, TypeOK
<1>6. ASSUME NEW t \in Threads PROVE Len(chan'[t]) <= CAPACITY /\ AskedOnce(chan'[t])
  <2>1. CASE t = u
    BY <1>1, <1>2, <1>3, <1>4, <2>1
  <2>2. CASE t # u
    BY <1>4, <2>2 DEF SocketCore, TypeOK, RequestsInOrder
  <2> QED
    BY <2>1, <2>2
<1> QED
  BY <1>2, <1>4, <1>5, <1>6

LEMMA Dequeued ==
    ASSUME SocketCore, NEW u \in Threads, chan[u] # <<>>,
           chan' = [chan EXCEPT ![u] = Tail(@)], NEW q, q = Head(chan[u])
    PROVE  /\ q \in Requests /\ q \in ToSet(chan[u])
           /\ q.kind = "add" => q \notin ToSet(chan'[u])
           /\ q.kind # "remove" => Shrinks(None)
           /\ q.kind = "remove" => Shrinks(q.reg)
           /\ q.kind = "add" => Shrinks(q.reg)
<1>1. chan[u] \in Seq(Requests) /\ Len(chan[u]) \in Nat
  BY DEF SocketCore, TypeOK
<1>2. /\ q \in Requests /\ Tail(chan[u]) \in Seq(Requests) /\ Len(Tail(chan[u])) = Len(chan[u]) - 1
      /\ ToSet(chan[u]) = {q} \cup ToSet(Tail(chan[u]))
  BY <1>1, TailSet
<1>3. AskedOnce(Tail(chan[u])) /\ (q.kind = "add" => q \notin ToSet(Tail(chan[u])))
  BY <1>1, AskedOnceTail DEF SocketCore, RequestsInOrder
<1>4. chan'[u] = Tail(chan[u]) /\ \A t \in Threads \ {u} : chan'[t] = chan[t]
  BY DEF SocketCore, TypeOK
<1>5. chan' \in [Threads -> Seq(Requests)]
  BY <1>2 DEF SocketCore, TypeOK
<1>6. ASSUME NEW r, q.kind = "remove" => q.reg = r PROVE Shrinks(r)
  <2> SUFFICES ASSUME NEW t \in Threads
               PROVE  /\ Len(chan'[t]) <= CAPACITY /\ AskedOnce(chan'[t])
                      /\ ToSet(chan'[t]) \subseteq ToSet(chan[t])
                      /\ chan'[t] # <<>> => chan[t] # <<>>
                      /\ \A x : x # r /\ Queued(t, "remove", x) => Request("remove", x) \in ToSet(chan'[t])
    BY <1>5 DEF Shrinks
  <2>1. CASE t = u
    <3>1. Len(chan[u]) <= CAPACITY
      BY DEF SocketCore, TypeOK
    <3>2. \A x : x # r => Request("remove", x) # q
      BY <1>6, RequestFields
    <3> QED
      BY <1>1, <1>2, <1>3, <1>4, <2>1, <3>1, <3>2 DEF Queued
  <2>2. CASE t # u
    BY <1>4, <2>2 DEF SocketCore, TypeOK, RequestsInOrder, Queued
  <2> QED
    BY <2>1, <2>2
<1> QED
  BY <1>2, <1>3, <1>4, <1>6

-----------------------------------------------------------------------------
(* Sending a request. *)

LEMMA SendAddKeeps ==
    ASSUME SocketCore, NEW r \in Regs, SendRequest(r), th[at[r]] # "ended"
    PROVE  SocketCore'
<1>1. /\ at[r] \in Threads /\ ack[r] = "none" /\ r \notin table[at[r]]
      /\ st[r] = "sending" /\ Request("add", r) \notin ToSet(chan[at[r]])
  <2>1. at[r] \in Threads /\ ack[r] = "none" /\ st[r] = "sending"
    BY DEF SocketCore, TypeOK, RegShape, SendRequest
  <2> QED
    BY <2>1 DEF SocketCore, TableIsOwn, RequestsInOrder, Queued
<1>2. /\ st' = [st EXCEPT ![r] = "waiting"] /\ UNCHANGED <<cur, at, ack, cancel, cut, taskVars, next, due>>
      /\ Len(chan[at[r]]) < CAPACITY /\ chan' = [chan EXCEPT ![at[r]] = Append(@, Request("add", r))]
  BY DEF SendRequest
<1>3. /\ chan' \in [Threads -> Seq(Requests)]
      /\ \A t \in Threads : Len(chan'[t]) <= CAPACITY /\ AskedOnce(chan'[t])
      /\ \A t \in Threads \ {at[r]} : chan'[t] = chan[t]
      /\ ToSet(chan'[at[r]]) = ToSet(chan[at[r]]) \cup {Request("add", r)}
  BY <1>1, <1>2, Enqueued, RequestsAre
<1>4. TypeOK'
  BY <1>1, <1>2, <1>3, RequestFields DEF SocketCore, TypeOK, RegStates, TaskStates, taskVars
<1>5. TaskShape'
  BY <1>1, <1>2, <1>3, RequestFields
  DEF SocketCore, TypeOK, TaskShape, Running, taskVars, RegShape
<1>6. RegShape'
  BY <1>1, <1>2, <1>3, RequestFields DEF SocketCore, TypeOK, RegShape, taskVars
<1>7. RequestsInOrder'
  <2>1. \A t \in Threads : \A x, k : Request(k, x) \in ToSet(chan'[t]) =>
          Queued(t, k, x) \/ (t = at[r] /\ k = "add" /\ x = r)
    BY <1>1, <1>3, RequestFields DEF Queued
  <2> QED
    BY <1>1, <1>2, <1>3, <2>1 DEF SocketCore, TypeOK, RequestsInOrder, Queued, taskVars
<1>8. TableIsOwn'
  BY <1>1, <1>2, <1>3, RequestFields DEF SocketCore, TypeOK, TableIsOwn, taskVars, RegShape
<1>9. CancelIsSeen'
  BY <1>1, <1>2, <1>3, RequestFields
  DEF SocketCore, TypeOK, CancelIsSeen, Queued, taskVars, TableIsOwn
<1>10. NoListenerLeaks'
  BY <1>1, <1>2, <1>3, RequestFields
  DEF SocketCore, TypeOK, NoListenerLeaks, Queued, taskVars, TableIsOwn
<1>11. HeldIsListening'
  BY <1>1, <1>2, <1>3, RequestFields DEF SocketCore, TypeOK, HeldIsListening, taskVars
<1>12. DueIsQueued'
  BY <1>1, <1>2, <1>3, RequestFields DEF SocketCore, TypeOK, DueIsQueued, taskVars
<1>13. ListenersAreTold'
  BY <1>1, <1>2, <1>3, RequestFields DEF SocketCore, TypeOK, ListenersAreTold, taskVars
<1> QED
  BY <1>4, <1>5, <1>6, <1>7, <1>8, <1>9, <1>10, <1>11, <1>12, <1>13 DEF SocketCore

LEMMA SendFailsKeeps ==
    ASSUME SocketCore, NEW r \in Regs, SendRequest(r), th[at[r]] = "ended"
    PROVE  SocketCore'
<1>1. TypeOK'
  BY DEF SocketCore, TypeOK, RegStates, TaskStates, SendRequest, taskVars
<1>2. TaskShape'
  BY DEF SocketCore, TypeOK, TaskShape, Running, SendRequest, taskVars
<1>3. RegShape'
  BY DEF SocketCore, TypeOK, RegShape, SendRequest, taskVars
<1>4. RequestsInOrder'
  <2>1. UNCHANGED <<chan, at, ack, table>> /\ st[r] = "sending"
        /\ \A x \in Regs : x # r => st'[x] = st[x]
    BY DEF SocketCore, TypeOK, SendRequest, taskVars
  <2> QED
    BY <2>1 DEF SocketCore, RequestsInOrder, Queued
<1>5. TableIsOwn'
  BY DEF SocketCore, TypeOK, TableIsOwn, SendRequest, taskVars
<1>6. CancelIsSeen'
  BY DEF SocketCore, TypeOK, CancelIsSeen, Queued, SendRequest, taskVars
<1>7. NoListenerLeaks'
  BY DEF SocketCore, TypeOK, NoListenerLeaks, Queued, SendRequest, taskVars, TaskShape,
         TableIsOwn
<1>8. HeldIsListening'
  BY DEF SocketCore, TypeOK, HeldIsListening, SendRequest, taskVars
<1>9. DueIsQueued'
  BY DEF SocketCore, TypeOK, DueIsQueued, SendRequest, taskVars
<1>10. ListenersAreTold'
  BY DEF SocketCore, TypeOK, ListenersAreTold, SendRequest, taskVars
<1> QED
  BY <1>1, <1>2, <1>3, <1>4, <1>5, <1>6, <1>7, <1>8, <1>9, <1>10 DEF SocketCore

LEMMA SendRemovalKeeps ==
    ASSUME SocketCore, NEW r \in Regs, SendRemove(r), th[at[r]] # "ended"
    PROVE  SocketCore'
<1>1. at[r] \in Threads /\ ack[r] = "id" /\ st[r] = "removing"
  BY DEF SocketCore, TypeOK, RegShape, SendRemove
<1>2. /\ st' = [st EXCEPT ![r] = "gone"] /\ UNCHANGED <<cur, at, ack, cancel, cut, taskVars, next, due>>
      /\ Len(chan[at[r]]) < CAPACITY /\ chan' = [chan EXCEPT ![at[r]] = Append(@, Request("remove", r))]
  BY DEF SendRemove
<1>3. /\ chan' \in [Threads -> Seq(Requests)]
      /\ \A t \in Threads : Len(chan'[t]) <= CAPACITY /\ AskedOnce(chan'[t])
      /\ \A t \in Threads \ {at[r]} : chan'[t] = chan[t]
      /\ ToSet(chan'[at[r]]) = ToSet(chan[at[r]]) \cup {Request("remove", r)}
  <2>1. Request("remove", r).kind # "add"
    BY RequestFields
  <2> QED
    BY <1>1, <1>2, <2>1, Enqueued, RequestsAre
<1>4. TypeOK'
  BY <1>1, <1>2, <1>3, RequestFields DEF SocketCore, TypeOK, RegStates, TaskStates, taskVars
<1>5. TaskShape'
  BY <1>1, <1>2, <1>3, RequestFields
  DEF SocketCore, TypeOK, TaskShape, Running, taskVars, RegShape
<1>6. RegShape'
  BY <1>1, <1>2, <1>3, RequestFields DEF SocketCore, TypeOK, RegShape, taskVars
<1>7. RequestsInOrder'
  <2>1. \A t \in Threads : \A x, k : Request(k, x) \in ToSet(chan'[t]) =>
          Queued(t, k, x) \/ (t = at[r] /\ k = "remove" /\ x = r)
    BY <1>1, <1>3, RequestFields DEF Queued
  <2> QED
    BY <1>1, <1>2, <1>3, <2>1 DEF SocketCore, TypeOK, RequestsInOrder, Queued, taskVars
<1>8. TableIsOwn'
  BY <1>1, <1>2, <1>3, RequestFields DEF SocketCore, TypeOK, TableIsOwn, taskVars, RegShape
<1>9. CancelIsSeen'
  BY <1>1, <1>2, <1>3, RequestFields
  DEF SocketCore, TypeOK, CancelIsSeen, Queued, taskVars, TableIsOwn
<1>10. NoListenerLeaks'
  BY <1>1, <1>2, <1>3, RequestFields
  DEF SocketCore, TypeOK, NoListenerLeaks, Queued, taskVars, TableIsOwn
<1>11. HeldIsListening'
  BY <1>1, <1>2, <1>3, RequestFields DEF SocketCore, TypeOK, HeldIsListening, taskVars
<1>12. DueIsQueued'
  BY <1>1, <1>2, <1>3, RequestFields DEF SocketCore, TypeOK, DueIsQueued, taskVars
<1>13. ListenersAreTold'
  BY <1>1, <1>2, <1>3, RequestFields DEF SocketCore, TypeOK, ListenersAreTold, taskVars
<1> QED
  BY <1>4, <1>5, <1>6, <1>7, <1>8, <1>9, <1>10, <1>11, <1>12, <1>13 DEF SocketCore

LEMMA NoRemovalKeeps ==
    ASSUME SocketCore, NEW r \in Regs, SendRemove(r), th[at[r]] = "ended"
    PROVE  SocketCore'
<1>1. TypeOK'
  BY DEF SocketCore, TypeOK, RegStates, TaskStates, SendRemove, taskVars
<1>2. TaskShape'
  BY DEF SocketCore, TypeOK, TaskShape, Running, SendRemove, taskVars
<1>3. RegShape'
  BY DEF SocketCore, TypeOK, RegShape, SendRemove, taskVars
<1>4. RequestsInOrder'
  BY DEF SocketCore, TypeOK, RequestsInOrder, Queued, SendRemove, taskVars
<1>5. TableIsOwn'
  BY DEF SocketCore, TypeOK, TableIsOwn, SendRemove, taskVars
<1>6. CancelIsSeen'
  BY DEF SocketCore, TypeOK, CancelIsSeen, Queued, SendRemove, taskVars, TaskShape, TableIsOwn
<1>7. NoListenerLeaks'
  BY DEF SocketCore, TypeOK, NoListenerLeaks, Queued, SendRemove, taskVars, TaskShape,
         TableIsOwn
<1>8. HeldIsListening'
  BY DEF SocketCore, TypeOK, HeldIsListening, SendRemove, taskVars
<1>9. DueIsQueued'
  BY DEF SocketCore, TypeOK, DueIsQueued, SendRemove, taskVars
<1>10. ListenersAreTold'
  BY DEF SocketCore, TypeOK, ListenersAreTold, SendRemove, taskVars
<1> QED
  BY <1>1, <1>2, <1>3, <1>4, <1>5, <1>6, <1>7, <1>8, <1>9, <1>10 DEF SocketCore

LEMMA AskReconnectKeeps ==
    ASSUME SocketCore, AskReconnect
    PROVE  SocketCore'
<1>1. cur \in Threads /\ Running(cur)
  BY DEF SocketCore, TypeOK, TaskShape, AskReconnect, Live, Running
<1>2. /\ UNCHANGED <<cur, regVars, taskVars, next, due>>
      /\ Len(chan[cur]) < CAPACITY /\ chan' = [chan EXCEPT ![cur] = Append(@, Request("reconnect", None))]
  BY DEF AskReconnect
<1>3. /\ chan' \in [Threads -> Seq(Requests)]
      /\ \A t \in Threads : Len(chan'[t]) <= CAPACITY /\ AskedOnce(chan'[t])
      /\ \A t \in Threads \ {cur} : chan'[t] = chan[t]
      /\ ToSet(chan'[cur]) = ToSet(chan[cur]) \cup {Request("reconnect", None)}
  <2>1. Request("reconnect", None).kind # "add"
    BY RequestFields
  <2> QED
    BY <1>1, <1>2, <2>1, Enqueued, RequestsAre
<1>4. TypeOK'
  BY <1>1, <1>2, <1>3, RequestFields
  DEF SocketCore, TypeOK, RegStates, TaskStates, regVars, taskVars
<1>5. TaskShape'
  BY <1>1, <1>2, <1>3, RequestFields
  DEF SocketCore, TypeOK, TaskShape, Running, regVars, taskVars
<1>6. RegShape'
  BY <1>1, <1>2, <1>3, RequestFields DEF SocketCore, TypeOK, RegShape, regVars, taskVars
<1>7. RequestsInOrder'
  <2>1. \A t \in Threads : \A x : \A k \in {"add", "remove"} :
          Request(k, x) \in ToSet(chan'[t]) => Queued(t, k, x)
    BY <1>1, <1>3, RequestFields DEF Queued
  <2> QED
    BY <1>2, <1>3, <2>1 DEF SocketCore, RequestsInOrder, Queued, regVars, taskVars
<1>8. TableIsOwn'
  BY <1>1, <1>2, <1>3, RequestFields DEF SocketCore, TypeOK, TableIsOwn, regVars, taskVars
<1>9. CancelIsSeen'
  BY <1>1, <1>2, <1>3, RequestFields
  DEF SocketCore, TypeOK, CancelIsSeen, Queued, regVars, taskVars
<1>10. NoListenerLeaks'
  BY <1>1, <1>2, <1>3, RequestFields
  DEF SocketCore, TypeOK, NoListenerLeaks, Queued, regVars, taskVars
<1>11. HeldIsListening'
  BY <1>1, <1>2, <1>3, RequestFields DEF SocketCore, TypeOK, HeldIsListening, regVars, taskVars
<1>12. DueIsQueued'
  BY <1>1, <1>2, <1>3, RequestFields DEF SocketCore, TypeOK, DueIsQueued, regVars, taskVars
<1>13. ListenersAreTold'
  BY <1>1, <1>2, <1>3, RequestFields
  DEF SocketCore, TypeOK, ListenersAreTold, regVars, taskVars
<1> QED
  BY <1>4, <1>5, <1>6, <1>7, <1>8, <1>9, <1>10, <1>11, <1>12, <1>13 DEF SocketCore

-----------------------------------------------------------------------------
(* Answering and removing listeners. *)

(* A listener is answered: it is in the table, and its canceller is looked at next *)
LEMMA AcceptKeeps ==
    ASSUME SocketCore, NEW t \in Threads, NEW r \in Regs,
           at[r] = t, busy[t] \in {None, r}, Shrinks(r),
           newIds' = [newIds EXCEPT ![t] = @ \ {r}],
           UNCHANGED <<cur, st, at, cancel, cut, th, queue, counted, next>>,
           ack[r] = "none", Receives(r), st[r] # "sending", busy[t] = None,
           th[t] \in {"connecting", "pausing", "promoting", "connected"},
           Request("add", r) \notin ToSet(chan'[t]),
           ack' = [ack EXCEPT ![r] = "id"], busy' = [busy EXCEPT ![t] = r],
           table' = [table EXCEPT ![t] = @ \cup {r}], UNCHANGED <<told, due>>
    PROVE  SocketCore'
<1>1. TypeOK'
  BY DEF SocketCore, TypeOK, RegStates, TaskStates, Shrinks
<1>2. TaskShape'
  BY DEF SocketCore, TypeOK, TaskShape, Running, Shrinks
<1>3. RegShape'
  BY DEF SocketCore, TypeOK, RegShape, Shrinks, Receives
<1>4. RequestsInOrder'
  BY DEF SocketCore, TypeOK, RequestsInOrder, Queued, Shrinks, Receives
<1>5. TableIsOwn'
  BY DEF SocketCore, TypeOK, TableIsOwn, Shrinks, Receives
<1>6. CancelIsSeen'
  BY DEF SocketCore, TypeOK, CancelIsSeen, Queued, Shrinks, Receives, TableIsOwn
<1>7. NoListenerLeaks'
  BY DEF SocketCore, TypeOK, NoListenerLeaks, Queued, Shrinks, TableIsOwn
<1>8. HeldIsListening'
  BY DEF SocketCore, TypeOK, HeldIsListening, Shrinks
<1>9. DueIsQueued'
  BY DEF SocketCore, TypeOK, DueIsQueued, Shrinks
<1>10. ListenersAreTold'
  BY DEF SocketCore, TypeOK, ListenersAreTold, Shrinks
<1> QED
  BY <1>1, <1>2, <1>3, <1>4, <1>5, <1>6, <1>7, <1>8, <1>9, <1>10 DEF SocketCore

(* A listener is taken out: refused, cancelled or removed *)
LEMMA RemoveKeeps ==
    ASSUME SocketCore, NEW t \in Threads, NEW r \in Regs,
           at[r] = t, busy[t] \in {None, r}, Shrinks(r),
           newIds' = [newIds EXCEPT ![t] = @ \ {r}],
           UNCHANGED <<cur, st, at, cancel, cut, th, queue, counted, next>>,
           st[r] \notin {"waiting", "held"}, Without(t, r),
           busy' = [busy EXCEPT ![t] = None], UNCHANGED ack
    PROVE  SocketCore'
<1>1. TypeOK'
  BY DEF SocketCore, TypeOK, RegStates, TaskStates, Shrinks, Without
<1>2. TaskShape'
  BY DEF SocketCore, TypeOK, TaskShape, Running, Shrinks, Without
<1>3. RegShape'
  BY DEF SocketCore, TypeOK, RegShape, Shrinks, Without
<1>4. RequestsInOrder'
  BY DEF SocketCore, TypeOK, RequestsInOrder, Queued, Shrinks, Without
<1>5. TableIsOwn'
  BY DEF SocketCore, TypeOK, TableIsOwn, Shrinks, Without
<1>6. CancelIsSeen'
  BY DEF SocketCore, TypeOK, CancelIsSeen, Queued, Shrinks, Without, TableIsOwn
<1>7. NoListenerLeaks'
  BY DEF SocketCore, TypeOK, NoListenerLeaks, Queued, Shrinks, Without, TableIsOwn
<1>8. HeldIsListening'
  BY DEF SocketCore, TypeOK, HeldIsListening, Shrinks, Without
<1>9. DueIsQueued'
  BY DEF SocketCore, TypeOK, DueIsQueued, Shrinks, Without
<1>10. ListenersAreTold'
  BY DEF SocketCore, TypeOK, ListenersAreTold, Shrinks, Without, TableIsOwn
<1> QED
  BY <1>1, <1>2, <1>3, <1>4, <1>5, <1>6, <1>7, <1>8, <1>9, <1>10 DEF SocketCore

(* The listener just answered was not cancelled meanwhile *)
LEMMA CheckKeeps ==
    ASSUME SocketCore, NEW t \in Threads, CheckCanceller(t), busy[t] \notin cancel
    PROVE  SocketCore'
<1>1. TypeOK'
  BY DEF SocketCore, TypeOK, RegStates, TaskStates, CheckCanceller, regVars
<1>2. TaskShape'
  BY DEF SocketCore, TypeOK, TaskShape, Running, CheckCanceller, regVars
<1>3. RegShape'
  BY DEF SocketCore, TypeOK, RegShape, CheckCanceller, regVars
<1>4. RequestsInOrder'
  BY DEF SocketCore, TypeOK, RequestsInOrder, Queued, CheckCanceller, regVars
<1>5. TableIsOwn'
  BY DEF SocketCore, TypeOK, TableIsOwn, CheckCanceller, regVars
<1>6. CancelIsSeen'
  BY DEF SocketCore, TypeOK, CancelIsSeen, Queued, CheckCanceller, regVars, RegShape
<1>7. NoListenerLeaks'
  BY DEF SocketCore, TypeOK, NoListenerLeaks, Queued, CheckCanceller, regVars, RegShape,
         CancelIsSeen, TaskShape, TableIsOwn
<1>8. HeldIsListening'
  BY DEF SocketCore, TypeOK, HeldIsListening, CheckCanceller, regVars
<1>9. DueIsQueued'
  BY DEF SocketCore, TypeOK, DueIsQueued, CheckCanceller, regVars
<1>10. ListenersAreTold'
  BY DEF SocketCore, TypeOK, ListenersAreTold, CheckCanceller, regVars, TableIsOwn, TaskShape
<1> QED
  BY <1>1, <1>2, <1>3, <1>4, <1>5, <1>6, <1>7, <1>8, <1>9, <1>10 DEF SocketCore

LEMMA CheckCancellerKeeps ==
    ASSUME SocketCore, NEW t \in Threads, CheckCanceller(t)
    PROVE  SocketCore'
<1>1. CASE busy[t] \notin cancel
  BY <1>1, CheckKeeps
<1>2. CASE busy[t] \in cancel
  <2>1. PICK r \in Regs : busy[t] = r
    BY <1>2 DEF SocketCore, TypeOK
  <2>2. at[r] = t /\ st[r] \notin {"waiting", "held"} /\ r \notin newIds[t]
    BY <1>2, <2>1 DEF SocketCore, TableIsOwn, RegShape, CheckCanceller
  <2>3. newIds' = [newIds EXCEPT ![t] = @ \ {r}] /\ Shrinks(r)
    BY <2>2, SameShrinks DEF SocketCore, TypeOK, CheckCanceller
  <2>4. /\ Without(t, r) /\ busy' = [busy EXCEPT ![t] = None]
        /\ UNCHANGED <<cur, st, at, cancel, cut, th, queue, counted, next, ack>>
    BY <1>2, <2>1 DEF CheckCanceller, regVars
  <2> QED
    BY <2>1, <2>2, <2>3, <2>4, RemoveKeeps
<1> QED
  BY <1>1, <1>2

LEMMA PromoteNextKeeps ==
    ASSUME SocketCore, NEW t \in Threads, PromoteNext(t)
    PROVE  SocketCore'
<1>1. PICK r \in newIds[t] : Acknowledge(t, r) /\ newIds' = [newIds EXCEPT ![t] = @ \ {r}]
  BY DEF PromoteNext
<1>2. /\ busy[t] = None /\ th[t] = "promoting"
      /\ UNCHANGED <<cur, st, at, cancel, cut, th, queue, counted, chan, next>>
  BY DEF PromoteNext
<1>3. r \in Regs /\ at[r] = t /\ ack[r] = "none" /\ st[r] \notin {"idle", "sending"} /\ r \in table[t]
  BY <1>1 DEF SocketCore, TypeOK, TableIsOwn
<1>4. Shrinks(r) /\ Request("add", r) \notin ToSet(chan'[t])
  BY <1>2, <1>3, SameShrinks DEF SocketCore, RequestsInOrder, Queued
<1>5. CASE Receives(r)
  BY <1>1, <1>2, <1>3, <1>4, <1>5, AcceptKeeps DEF Acknowledge
<1>6. CASE ~Receives(r)
  <2>1. st[r] \notin {"waiting", "held"}
    BY <1>3, <1>6 DEF SocketCore, RegShape, Receives
  <2>2. Without(t, r) /\ UNCHANGED ack /\ busy' = [busy EXCEPT ![t] = None]
    BY <1>1, <1>2, <1>6 DEF SocketCore, TypeOK, Acknowledge
  <2> QED
    BY <1>1, <1>2, <1>3, <1>4, <2>1, <2>2, RemoveKeeps
<1> QED
  BY <1>5, <1>6

(* A listener's id waits for a connection *)
LEMMA DeferKeeps ==
    ASSUME SocketCore, NEW t \in Threads, NEW r \in Regs,
           at[r] = t, Shrinks(r),
           newIds' = [newIds EXCEPT ![t] = @ \cup {r}],
           UNCHANGED <<cur, st, at, cancel, cut, th, queue, counted, next>>,
           ack[r] = "none", st[r] \notin {"idle", "sending"}, busy[t] = None,
           th[t] \in {"connecting", "pausing"},
           Request("add", r) \notin ToSet(chan'[t]),
           table' = [table EXCEPT ![t] = @ \cup {r}], UNCHANGED <<ack, busy, told, due>>
    PROVE  SocketCore'
<1>1. TypeOK'
  BY DEF SocketCore, TypeOK, RegStates, TaskStates, Shrinks
<1>2. TaskShape'
  BY DEF SocketCore, TypeOK, TaskShape, Running, Shrinks
<1>3. RegShape'
  BY DEF SocketCore, TypeOK, RegShape, Shrinks
<1>4. RequestsInOrder'
  BY DEF SocketCore, TypeOK, RequestsInOrder, Queued, Shrinks
<1>5. TableIsOwn'
  BY DEF SocketCore, TypeOK, TableIsOwn, Shrinks
<1>6. CancelIsSeen'
  BY DEF SocketCore, TypeOK, CancelIsSeen, Queued, Shrinks, TableIsOwn
<1>7. NoListenerLeaks'
  BY DEF SocketCore, TypeOK, NoListenerLeaks, Queued, Shrinks, TableIsOwn
<1>8. HeldIsListening'
  BY DEF SocketCore, TypeOK, HeldIsListening, Shrinks
<1>9. DueIsQueued'
  BY DEF SocketCore, TypeOK, DueIsQueued, Shrinks
<1>10. ListenersAreTold'
  BY DEF SocketCore, TypeOK, ListenersAreTold, Shrinks
<1> QED
  BY <1>1, <1>2, <1>3, <1>4, <1>5, <1>6, <1>7, <1>8, <1>9, <1>10 DEF SocketCore

LEMMA ReconnectKeeps ==
    ASSUME SocketCore, NEW t \in Threads, Shrinks(None), th[t] \in {"connecting", "pausing", "connected"},
           th' = [th EXCEPT ![t] = IF @ = "pausing" THEN "connecting" ELSE @],
           UNCHANGED <<cur, st, at, cancel, cut, queue, counted, next, ack, busy, table, newIds, told, due>>
    PROVE  SocketCore'
<1>1. TypeOK'
  BY DEF SocketCore, TypeOK, RegStates, TaskStates, Shrinks
<1>2. TaskShape'
  BY DEF SocketCore, TypeOK, TaskShape, Running, Shrinks
<1>3. RegShape'
  BY DEF SocketCore, TypeOK, RegShape, Shrinks
<1>4. RequestsInOrder'
  BY DEF SocketCore, TypeOK, RequestsInOrder, Queued, Shrinks
<1>5. TableIsOwn'
  BY DEF SocketCore, TypeOK, TableIsOwn, Shrinks
<1>6. CancelIsSeen'
  BY DEF SocketCore, TypeOK, CancelIsSeen, Queued, Shrinks
<1>7. NoListenerLeaks'
  BY DEF SocketCore, TypeOK, NoListenerLeaks, Queued, Shrinks
<1>8. HeldIsListening'
  BY DEF SocketCore, TypeOK, HeldIsListening, Shrinks
<1>9. DueIsQueued'
  BY DEF SocketCore, TypeOK, DueIsQueued, Shrinks
<1>10. ListenersAreTold'
  BY DEF SocketCore, TypeOK, ListenersAreTold, Shrinks
<1> QED
  BY <1>1, <1>2, <1>3, <1>4, <1>5, <1>6, <1>7, <1>8, <1>9, <1>10 DEF SocketCore

LEMMA TakeRequestKeeps ==
    ASSUME SocketCore, NEW t \in Threads, TakeRequest(t)
    PROVE  SocketCore'
<1> DEFINE q == Head(chan[t])
<1>1. /\ busy[t] = None /\ th[t] \in {"connecting", "pausing", "connected"} /\ chan[t] # <<>>
      /\ chan' = [chan EXCEPT ![t] = Tail(@)] /\ UNCHANGED <<cur, st, at, cancel, cut, queue, counted, next>>
      /\ th' = IF q.kind = "reconnect" /\ th[t] = "pausing" THEN [th EXCEPT ![t] = "connecting"] ELSE th
      /\ \/ q.kind = "add" /\ AddListener(t, q.reg)
         \/ q.kind = "remove" /\ RemoveListener(t, q.reg)
         \/ q.kind = "reconnect" /\ UNCHANGED <<ack, busy, table, newIds, told, due>>
  BY DEF TakeRequest, Reads
<1>2. /\ q \in Requests /\ q \in ToSet(chan[t])
      /\ q.kind = "add" => q \notin ToSet(chan'[t])
      /\ q.kind # "remove" => Shrinks(None)
      /\ q.kind = "remove" => Shrinks(q.reg)
      /\ q.kind = "add" => Shrinks(q.reg)
  BY <1>1, Dequeued
<1> HIDE DEF q
<1>3. CASE q.kind = "add"
  <2>1. q.reg \in Regs /\ q = Request("add", q.reg)
    BY <1>2, <1>3, RequestsAre, RequestFields
  <2> DEFINE r == q.reg
  <2>2. /\ r \in Regs /\ at[r] = t /\ ack[r] = "none" /\ r \notin table[t] /\ UNCHANGED th
        /\ st[r] \in {"waiting", "cancelling", "closing", "gone"} /\ Shrinks(r)
        /\ Request("add", r) \notin ToSet(chan'[t])
    BY <1>1, <1>2, <1>3, <2>1 DEF SocketCore, RequestsInOrder, Queued
  <2>3. AddListener(t, r)
    BY <1>1, <1>3
  <2> HIDE DEF r
  <2>4. CASE ~(r \in SyncRegs \/ th[t] = "connected")
    BY <1>1, <2>2, <2>3, <2>4, DeferKeeps DEF AddListener
  <2>5. CASE r \in SyncRegs \/ th[t] = "connected"
    <3>1. r \notin newIds[t]
      BY <2>2 DEF SocketCore, TableIsOwn
    <3>2. Acknowledge(t, r) /\ newIds' = [newIds EXCEPT ![t] = @ \ {r}]
      BY <2>3, <2>5, <3>1 DEF SocketCore, TypeOK, AddListener
    <3>3. CASE Receives(r)
      BY <1>1, <2>2, <3>2, <3>3, AcceptKeeps DEF Acknowledge
    <3>4. CASE ~Receives(r)
      <4>1. st[r] \notin {"waiting", "held"}
        BY <2>2, <3>4 DEF Receives
      <4>2. Without(t, r) /\ UNCHANGED ack /\ busy' = [busy EXCEPT ![t] = None]
        BY <1>1, <3>2, <3>4 DEF SocketCore, TypeOK, Acknowledge
      <4> QED
        BY <1>1, <2>2, <3>2, <4>1, <4>2, RemoveKeeps
    <3> QED
      BY <3>3, <3>4
  <2> QED
    BY <2>4, <2>5
<1>4. CASE q.kind = "remove"
  <2>1. q.reg \in Regs /\ q = Request("remove", q.reg)
    BY <1>2, <1>4, RequestsAre, RequestFields
  <2> DEFINE r == q.reg
  <2>2. r \in Regs /\ at[r] = t /\ st[r] = "gone" /\ Shrinks(r) /\ UNCHANGED th
    BY <1>1, <1>2, <1>4, <2>1 DEF SocketCore, RequestsInOrder, Queued
  <2>3. RemoveListener(t, r)
    BY <1>1, <1>4
  <2> HIDE DEF r
  <2>4. /\ Without(t, r) /\ UNCHANGED ack /\ busy' = [busy EXCEPT ![t] = None]
        /\ newIds' = [newIds EXCEPT ![t] = @ \ {r}]
    BY <1>1, <2>3 DEF SocketCore, TypeOK, RemoveListener
  <2> QED
    BY <1>1, <2>2, <2>4, RemoveKeeps
<1>5. CASE q.kind = "reconnect"
  <2>1. /\ UNCHANGED <<ack, busy, table, newIds, told, due>> /\ Shrinks(None)
        /\ th' = [th EXCEPT ![t] = IF @ = "pausing" THEN "connecting" ELSE @]
    BY <1>1, <1>2, <1>5 DEF SocketCore, TypeOK
  <2> QED
    BY <1>1, <2>1, ReconnectKeeps
<1> QED
  BY <1>1, <1>3, <1>4, <1>5

-----------------------------------------------------------------------------
(* A session and its end. *)

LEMMA CountKeeps ==
    ASSUME SocketCore, NEW t \in Threads, Count(t)
    PROVE  SocketCore'
<1>1. TypeOK'
  BY DEF SocketCore, TypeOK, RegStates, TaskStates, Count, Moves, regVars
<1>2. TaskShape'
  BY DEF SocketCore, TypeOK, TaskShape, Running, Count, Moves, regVars
<1>3. RegShape'
  BY DEF SocketCore, TypeOK, RegShape, Count, Moves, regVars
<1>4. RequestsInOrder'
  BY DEF SocketCore, TypeOK, RequestsInOrder, Queued, Count, Moves, regVars
<1>5. TableIsOwn'
  BY DEF SocketCore, TypeOK, TableIsOwn, Count, Moves, regVars
<1>6. CancelIsSeen'
  BY DEF SocketCore, TypeOK, CancelIsSeen, Queued, Count, Moves, regVars
<1>7. NoListenerLeaks'
  BY DEF SocketCore, TypeOK, NoListenerLeaks, Queued, Count, Moves, regVars
<1>8. HeldIsListening'
  BY DEF SocketCore, TypeOK, HeldIsListening, Count, Moves, regVars
<1>9. DueIsQueued'
  BY DEF SocketCore, TypeOK, DueIsQueued, Count, Moves, regVars
<1>10. ListenersAreTold'
  BY DEF SocketCore, TypeOK, ListenersAreTold, Count, Moves, regVars
<1> QED
  BY <1>1, <1>2, <1>3, <1>4, <1>5, <1>6, <1>7, <1>8, <1>9, <1>10 DEF SocketCore

LEMMA AnnounceKeeps ==
    ASSUME SocketCore, NEW t \in Threads, Announce(t)
    PROVE  SocketCore'
<1>1. TypeOK'
  BY DEF SocketCore, TypeOK, RegStates, TaskStates, Announce, Moves, regVars
<1>2. TaskShape'
  BY DEF SocketCore, TypeOK, TaskShape, Running, Announce, Moves, regVars
<1>3. RegShape'
  BY DEF SocketCore, TypeOK, RegShape, Announce, Moves, regVars
<1>4. RequestsInOrder'
  BY DEF SocketCore, TypeOK, RequestsInOrder, Queued, Announce, Moves, regVars
<1>5. TableIsOwn'
  BY DEF SocketCore, TypeOK, TableIsOwn, Announce, Moves, regVars
<1>6. CancelIsSeen'
  BY DEF SocketCore, TypeOK, CancelIsSeen, Queued, Announce, Moves, regVars
<1>7. NoListenerLeaks'
  BY DEF SocketCore, TypeOK, NoListenerLeaks, Queued, Announce, Moves, regVars
<1>8. HeldIsListening'
  BY DEF SocketCore, TypeOK, HeldIsListening, Announce, Moves, regVars
<1>9. DueIsQueued'
  BY DEF SocketCore, TypeOK, DueIsQueued, Announce, Moves, regVars
<1>10. ListenersAreTold'
  BY DEF SocketCore, TypeOK, ListenersAreTold, Announce, Moves, regVars, TaskShape, TableIsOwn
<1> QED
  BY <1>1, <1>2, <1>3, <1>4, <1>5, <1>6, <1>7, <1>8, <1>9, <1>10 DEF SocketCore

LEMMA ReceiveNothingKeeps ==
    ASSUME SocketCore, NEW t \in Threads, ReceiveEvent(t), table[t] = {}
    PROVE  SocketCore'
<1>1. \A u \in Threads : ToSet(queue[u]) \subseteq Nat
  BY InSet DEF SocketCore, TypeOK
<1>2. TypeOK'
  BY <1>1 DEF SocketCore, TypeOK, RegStates, TaskStates, ReceiveEvent, regVars
<1>3. TaskShape'
  BY <1>1 DEF SocketCore, TypeOK, TaskShape, Running, ReceiveEvent, regVars
<1>4. RegShape'
  BY <1>1 DEF SocketCore, TypeOK, RegShape, ReceiveEvent, regVars
<1>5. RequestsInOrder'
  BY <1>1 DEF SocketCore, TypeOK, RequestsInOrder, Queued, ReceiveEvent, regVars
<1>6. TableIsOwn'
  BY <1>1 DEF SocketCore, TypeOK, TableIsOwn, ReceiveEvent, regVars
<1>7. CancelIsSeen'
  BY <1>1 DEF SocketCore, TypeOK, CancelIsSeen, Queued, ReceiveEvent, regVars
<1>8. NoListenerLeaks'
  BY <1>1 DEF SocketCore, TypeOK, NoListenerLeaks, Queued, ReceiveEvent, regVars
<1>9. HeldIsListening'
  BY <1>1 DEF SocketCore, TypeOK, HeldIsListening, ReceiveEvent, regVars
<1>10. DueIsQueued'
  BY <1>1 DEF SocketCore, TypeOK, DueIsQueued, ReceiveEvent, regVars
<1>11. ListenersAreTold'
  BY <1>1 DEF SocketCore, TypeOK, ListenersAreTold, ReceiveEvent, regVars
<1> QED
  BY <1>2, <1>3, <1>4, <1>5, <1>6, <1>7, <1>8, <1>9, <1>10, <1>11 DEF SocketCore

LEMMA ReceiveKeeps ==
    ASSUME SocketCore, NEW t \in Threads, ReceiveEvent(t), table[t] # {}
    PROVE  SocketCore'
<1>1. /\ queue' = [queue EXCEPT ![t] = Append(@, next)] /\ next' = next + 1
      /\ due' = [r \in Regs |-> IF r \in table[t] THEN due[r] \cup {next} ELSE due[r]]
      /\ UNCHANGED <<cur, regVars, th, table, newIds, busy, counted, told, chan>>
  BY DEF ReceiveEvent
<1>2. queue[t] \in Seq(Nat) /\ next \in Nat /\ Ascending(queue[t]) /\ \A e \in ToSet(queue[t]) : e < next
  BY DEF SocketCore, TypeOK, DueIsQueued
<1>3. /\ Append(queue[t], next) \in Seq(Nat) /\ ToSet(Append(queue[t], next)) = ToSet(queue[t]) \cup {next}
      /\ Ascending(Append(queue[t], next))
  BY <1>2, AppendSet, AscendingAppend
<1>4. /\ queue' \in [Threads -> Seq(Nat)]
      /\ Ascending(queue'[t]) /\ ToSet(queue'[t]) = ToSet(queue[t]) \cup {next}
      /\ \A u \in Threads \ {t} : queue'[u] = queue[u]
  BY <1>1, <1>3 DEF SocketCore, TypeOK
<1>5. \A u \in Threads : ToSet(queue[u]) \subseteq Nat
  BY InSet DEF SocketCore, TypeOK
<1>6. TypeOK'
  BY <1>1, <1>2, <1>4, <1>5 DEF SocketCore, TypeOK, RegStates, TaskStates, regVars
<1>7. TaskShape'
  BY <1>1, <1>2, <1>4, <1>5 DEF SocketCore, TypeOK, TaskShape, Running, regVars, ReceiveEvent
<1>8. RegShape'
  BY <1>1, <1>2, <1>4, <1>5 DEF SocketCore, TypeOK, RegShape, regVars
<1>9. RequestsInOrder'
  BY <1>1, <1>2, <1>4, <1>5 DEF SocketCore, TypeOK, RequestsInOrder, Queued, regVars
<1>10. TableIsOwn'
  BY <1>1, <1>2, <1>4, <1>5 DEF SocketCore, TypeOK, TableIsOwn, regVars
<1>11. CancelIsSeen'
  BY <1>1, <1>2, <1>4, <1>5 DEF SocketCore, TypeOK, CancelIsSeen, Queued, regVars
<1>12. NoListenerLeaks'
  BY <1>1, <1>2, <1>4, <1>5 DEF SocketCore, TypeOK, NoListenerLeaks, Queued, regVars
<1>13. HeldIsListening'
  BY <1>1, <1>2, <1>4, <1>5 DEF SocketCore, TypeOK, HeldIsListening, regVars
<1>14. DueIsQueued'
  <2>1. \A u \in Threads : Ascending(queue'[u]) /\ \A e \in ToSet(queue'[u]) : e < next'
    BY <1>1, <1>2, <1>4, <1>5 DEF SocketCore, DueIsQueued
  <2>2. ASSUME NEW r \in Regs, due'[r] # {}
        PROVE  at[r] # None /\ r \in table[at[r]] /\ due'[r] \subseteq ToSet(queue'[at[r]])
    <3>1. CASE r \in table[t]
      <4>1. at[r] = t /\ t # None /\ due'[r] = due[r] \cup {next}
        BY <1>1, <3>1 DEF SocketCore, TableIsOwn
      <4>2. due[r] \subseteq ToSet(queue[t])
        BY <4>1 DEF SocketCore, DueIsQueued
      <4> QED
        BY <1>4, <3>1, <4>1, <4>2
    <3>2. CASE r \notin table[t]
      BY <1>1, <1>4, <2>2, <3>2 DEF SocketCore, TypeOK, TableIsOwn, DueIsQueued
    <3> QED
      BY <3>1, <3>2
  <2> QED
    BY <1>1, <2>1, <2>2 DEF DueIsQueued, regVars
<1>15. ListenersAreTold'
  BY <1>1, <1>2, <1>4, <1>5 DEF SocketCore, TypeOK, ListenersAreTold, regVars
<1> QED
  BY <1>6, <1>7, <1>8, <1>9, <1>10, <1>11, <1>12, <1>13, <1>14, <1>15 DEF SocketCore

LEMMA ReceiveEventKeeps ==
    ASSUME SocketCore, NEW t \in Threads, ReceiveEvent(t)
    PROVE  SocketCore'
  BY ReceiveNothingKeeps, ReceiveKeeps

LEMMA DispatchKeeps ==
    ASSUME SocketCore, NEW t \in Threads, Dispatch(t)
    PROVE  SocketCore'
<1>1. /\ queue' = [queue EXCEPT ![t] = Tail(@)] /\ queue[t] # <<>>
      /\ due' = [r \in Regs |-> IF r \in table[t] THEN due[r] \ {Head(queue[t])} ELSE due[r]]
      /\ UNCHANGED <<cur, regVars, th, table, newIds, busy, counted, told, chan, next>>
  BY DEF Dispatch, Broadcast
<1>2. queue[t] \in Seq(Nat) /\ Ascending(queue[t]) /\ \A e \in ToSet(queue[t]) : e < next
  BY DEF SocketCore, TypeOK, DueIsQueued
<1>3. /\ Tail(queue[t]) \in Seq(Nat) /\ ToSet(queue[t]) = {Head(queue[t])} \cup ToSet(Tail(queue[t]))
      /\ Ascending(Tail(queue[t]))
  BY <1>1, <1>2, TailSet, AscendingTail
<1>4. /\ queue' \in [Threads -> Seq(Nat)]
      /\ Ascending(queue'[t]) /\ ToSet(queue[t]) = {Head(queue[t])} \cup ToSet(queue'[t])
      /\ \A u \in Threads \ {t} : queue'[u] = queue[u]
  BY <1>1, <1>3 DEF SocketCore, TypeOK
<1>5. TypeOK'
  BY <1>1, <1>2, <1>4 DEF SocketCore, TypeOK, RegStates, TaskStates, regVars
<1>6. TaskShape'
  BY <1>1, <1>2, <1>4 DEF SocketCore, TypeOK, TaskShape, Running, regVars, Dispatch
<1>7. RegShape'
  BY <1>1, <1>2, <1>4 DEF SocketCore, TypeOK, RegShape, regVars
<1>8. RequestsInOrder'
  BY <1>1, <1>2, <1>4 DEF SocketCore, TypeOK, RequestsInOrder, Queued, regVars
<1>9. TableIsOwn'
  BY <1>1, <1>2, <1>4 DEF SocketCore, TypeOK, TableIsOwn, regVars
<1>10. CancelIsSeen'
  BY <1>1, <1>2, <1>4 DEF SocketCore, TypeOK, CancelIsSeen, Queued, regVars
<1>11. NoListenerLeaks'
  BY <1>1, <1>2, <1>4 DEF SocketCore, TypeOK, NoListenerLeaks, Queued, regVars
<1>12. HeldIsListening'
  BY <1>1, <1>2, <1>4 DEF SocketCore, TypeOK, HeldIsListening, regVars
<1>13. DueIsQueued'
  <2>1. \A u \in Threads : Ascending(queue'[u]) /\ \A e \in ToSet(queue'[u]) : e < next
    BY <1>2, <1>4 DEF SocketCore, DueIsQueued
  <2>2. ASSUME NEW r \in Regs, due'[r] # {}
        PROVE  /\ at[r] # None /\ r \in table[at[r]] /\ due'[r] \subseteq ToSet(queue'[at[r]])
    <3>1. at[r] \in Threads /\ r \in table[at[r]] /\ due[r] \subseteq ToSet(queue[at[r]])
      BY <1>1, <2>2 DEF SocketCore, TypeOK, DueIsQueued
    <3> QED
      BY <1>1, <1>4, <3>1 DEF SocketCore, TypeOK
  <2> QED
    BY <1>1, <2>1, <2>2 DEF DueIsQueued, regVars
<1>14. ListenersAreTold'
  BY <1>1, <1>2, <1>4 DEF SocketCore, TypeOK, ListenersAreTold, regVars
<1> QED
  BY <1>5, <1>6, <1>7, <1>8, <1>9, <1>10, <1>11, <1>12, <1>13, <1>14 DEF SocketCore

LEMMA DemoteKeeps ==
    ASSUME SocketCore, NEW t \in Threads, Demote(t)
    PROVE  SocketCore'
<1>1. TypeOK'
  BY DEF SocketCore, TypeOK, RegStates, TaskStates, Demote, Moves, regVars
<1>2. TaskShape'
  BY DEF SocketCore, TypeOK, TaskShape, Running, Demote, Moves, regVars
<1>3. RegShape'
  BY DEF SocketCore, TypeOK, RegShape, Demote, Moves, regVars
<1>4. RequestsInOrder'
  BY DEF SocketCore, TypeOK, RequestsInOrder, Queued, Demote, Moves, regVars
<1>5. TableIsOwn'
  BY DEF SocketCore, TypeOK, TableIsOwn, Demote, Moves, regVars
<1>6. CancelIsSeen'
  BY DEF SocketCore, TypeOK, CancelIsSeen, Queued, Demote, Moves, regVars
<1>7. NoListenerLeaks'
  BY DEF SocketCore, TypeOK, NoListenerLeaks, Queued, Demote, Moves, regVars
<1>8. HeldIsListening'
  BY DEF SocketCore, TypeOK, HeldIsListening, Demote, Moves, regVars
<1>9. DueIsQueued'
  BY DEF SocketCore, TypeOK, DueIsQueued, Demote, Moves, regVars
<1>10. ListenersAreTold'
  BY DEF SocketCore, TypeOK, ListenersAreTold, Demote, Moves, regVars, TableIsOwn
<1> QED
  BY <1>1, <1>2, <1>3, <1>4, <1>5, <1>6, <1>7, <1>8, <1>9, <1>10 DEF SocketCore

LEMMA FinishingKeeps ==
    ASSUME SocketCore, NEW t \in Threads, Hangup(t), th[t] = "connected"
    PROVE  SocketCore'
<1>1. /\ th' = [th EXCEPT ![t] = "finishing"] /\ busy[t] = None
      /\ UNCHANGED <<cur, regVars, table, newIds, busy, queue, counted, told, chan, next, due>>
  BY DEF Hangup, Reads
<1>2. TypeOK'
  BY <1>1 DEF SocketCore, TypeOK, RegStates, TaskStates, regVars
<1>3. TaskShape'
  BY <1>1 DEF SocketCore, TypeOK, TaskShape, Running, regVars
<1>4. RegShape'
  BY <1>1 DEF SocketCore, TypeOK, RegShape, regVars
<1>5. RequestsInOrder'
  BY <1>1 DEF SocketCore, TypeOK, RequestsInOrder, Queued, regVars
<1>6. TableIsOwn'
  BY <1>1 DEF SocketCore, TypeOK, TableIsOwn, regVars
<1>7. CancelIsSeen'
  BY <1>1 DEF SocketCore, TypeOK, CancelIsSeen, Queued, regVars
<1>8. NoListenerLeaks'
  BY <1>1 DEF SocketCore, TypeOK, NoListenerLeaks, Queued, regVars
<1>9. HeldIsListening'
  BY <1>1 DEF SocketCore, TypeOK, HeldIsListening, regVars
<1>10. DueIsQueued'
  BY <1>1 DEF SocketCore, TypeOK, DueIsQueued, regVars
<1>11. ListenersAreTold'
  BY <1>1 DEF SocketCore, TypeOK, ListenersAreTold, regVars
<1> QED
  BY <1>2, <1>3, <1>4, <1>5, <1>6, <1>7, <1>8, <1>9, <1>10, <1>11 DEF SocketCore

LEMMA EndsKeeps ==
    ASSUME SocketCore, NEW t \in Threads, NEW answer \in {"closed", "unauthenticated"},
           th[t] # "unborn", busy[t] = None, Ends(t, answer)
    PROVE  SocketCore'
<1>1. TypeOK'
  BY NoneQueued DEF SocketCore, TypeOK, RegStates, TaskStates, Ends
<1>2. TaskShape'
  BY NoneQueued DEF SocketCore, TypeOK, TaskShape, Running, Ends, TableIsOwn
<1>3. RegShape'
  BY NoneQueued DEF SocketCore, TypeOK, RegShape, Ends
<1>4. RequestsInOrder'
  BY NoneQueued DEF SocketCore, TypeOK, RequestsInOrder, Queued, Ends, RegShape
<1>5. TableIsOwn'
  BY NoneQueued DEF SocketCore, TypeOK, TableIsOwn, Ends, RegShape
<1>6. CancelIsSeen'
  BY NoneQueued DEF SocketCore, TypeOK, CancelIsSeen, Queued, Ends, TableIsOwn
<1>7. NoListenerLeaks'
  BY NoneQueued DEF SocketCore, TypeOK, NoListenerLeaks, Queued, Ends, TableIsOwn
<1>8. HeldIsListening'
  BY NoneQueued DEF SocketCore, TypeOK, HeldIsListening, Ends, RegShape
<1>9. DueIsQueued'
  <2>1. /\ queue' = [queue EXCEPT ![t] = <<>>] /\ table' = [table EXCEPT ![t] = {}]
        /\ due' = [r \in Regs |-> IF at[r] = t THEN {} ELSE due[r]] /\ UNCHANGED <<at, next>>
    BY DEF Ends
  <2> QED
    BY <2>1, NoneQueued DEF SocketCore, TypeOK, DueIsQueued
<1>10. ListenersAreTold'
  BY NoneQueued DEF SocketCore, TypeOK, ListenersAreTold, Ends, TableIsOwn
<1> QED
  BY <1>1, <1>2, <1>3, <1>4, <1>5, <1>6, <1>7, <1>8, <1>9, <1>10 DEF SocketCore

LEMMA EndingKeeps ==
    ASSUME SocketCore, NEW t \in Threads,
           NeverStarts(t) \/ AuthFails(t) \/ Hangup(t) \/ Finish(t)
    PROVE  SocketCore'
<1>1. CASE NeverStarts(t)
  BY <1>1, EndsKeeps DEF NeverStarts, SocketCore, TaskShape
<1>2. CASE AuthFails(t)
  BY <1>2, EndsKeeps DEF AuthFails, Quiet
<1>3. CASE Hangup(t)
  <2>1. CASE th[t] = "connected"
    BY <1>3, <2>1, FinishingKeeps
  <2>2. CASE th[t] # "connected"
    BY <1>3, <2>2, EndsKeeps DEF Hangup, Reads
  <2> QED
    BY <2>1, <2>2
<1>4. CASE Finish(t)
  BY <1>4, EndsKeeps DEF Finish, SocketCore, TaskShape
<1> QED
  BY <1>1, <1>2, <1>3, <1>4

-----------------------------------------------------------------------------
(* The theorems. *)

LEMMA SocketInit == Init => SocketCore
<1> SUFFICES ASSUME Init PROVE SocketCore
  OBVIOUS
<1>1. TypeOK
  BY DEF Init, TypeOK, RegStates, TaskStates
<1>2. TaskShape /\ RegShape /\ RequestsInOrder /\ DueIsQueued
  BY NoneQueued DEF Init, TaskShape, RegShape, RequestsInOrder, DueIsQueued, Queued
<1>3. TableIsOwn /\ CancelIsSeen /\ NoListenerLeaks /\ HeldIsListening /\ ListenersAreTold
  BY DEF Init, TableIsOwn, CancelIsSeen, NoListenerLeaks, HeldIsListening, ListenersAreTold
<1> QED
  BY <1>1, <1>2, <1>3 DEF SocketCore

LEMMA SocketNext == SocketCore /\ [Next]_vars => SocketCore'
<1> SUFFICES ASSUME SocketCore, [Next]_vars PROVE SocketCore'
  OBVIOUS
<1>1. CASE UNCHANGED vars
  BY <1>1 DEF vars, regVars, taskVars, SocketCore, TypeOK, TaskShape, RegShape, RequestsInOrder,
              TableIsOwn, CancelIsSeen, NoListenerLeaks, HeldIsListening, DueIsQueued,
              ListenersAreTold, Queued, Running
<1>2. ASSUME NEW r \in Regs, Registration(r) PROVE SocketCore'
  <2>1. CASE SendRequest(r)
    BY <2>1, SendAddKeeps, SendFailsKeeps
  <2>2. CASE SendRemove(r)
    BY <2>2, SendRemovalKeeps, NoRemovalKeeps
  <2> QED
    BY <1>2, <2>1, <2>2, RegisterKeeps, TakeAckKeeps, GuardCancelsKeeps, GuardLooksKeeps,
       GuardClosesKeeps, DropHandleKeeps
    DEF Registration
<1>3. ASSUME NEW t \in Threads, Task(t) PROVE SocketCore'
  BY <1>3, StartsKeeps, EndingKeeps, TakeRequestKeeps, CheckCancellerKeeps, ConnectFailsKeeps,
     ConnectSucceedsKeeps, PauseElapsesKeeps, PromoteNextKeeps, CountKeeps, AnnounceKeeps,
     DispatchKeeps, DemoteKeeps, ReceiveEventKeeps, SessionEndsKeeps
  DEF Task, Works, Connecting
<1> QED
  BY <1>1, <1>2, <1>3, AskReconnectKeeps DEF Next

LEMMA SocketAlways == Spec => []SocketCore
  BY SocketInit, SocketNext, PTL DEF Spec

(* However guards are dropped, sessions break and tasks end, for any number *)
(* of registrations and tasks and any capacity of the channel: a listener   *)
(* somebody has a handle of is in the routing table of its running task,    *)
(* one nobody has is on its way out, every listener is told of a connection *)
(* before its events, and events survive its end (ListenerRegisterGuard,    *)
(* handle_request, into_connected, into_disconnected)                       *)
THEOREM ListenersAreKept == Spec => []RegistrationInvariant
<1>1. SocketCore => RegistrationInvariant
  <2> SUFFICES ASSUME SocketCore PROVE ToldInTime /\ EventsSurvive
    BY DEF SocketCore, RegistrationInvariant
  <2>1. ToldInTime
    BY DEF SocketCore, TypeOK, ListenersAreTold, ToldInTime
  <2>2. EventsSurvive
    <3> SUFFICES ASSUME NEW r \in Regs, due[r] # {}
                 PROVE  th[at[r]] \in {"connected", "draining", "finishing"}
      BY DEF EventsSurvive
    <3>1. at[r] \in Threads /\ ToSet(queue[at[r]]) # {} /\ queue[at[r]] \in Seq(Nat)
      BY DEF SocketCore, TypeOK, DueIsQueued
    <3> QED
      BY <3>1, InSet DEF SocketCore, TaskShape
  <2> QED
    BY <2>1, <2>2
<1> QED
  BY <1>1, SocketAlways, PTL

(* A step that spawns no task leaves the task that serves, if it ends none  *)
LEMMA ServesOn ==
    ASSUME ServingInvariant, NEW r \in Regs,
           UNCHANGED <<cur, at, th>>,
           \A x \in Regs : x # r => st'[x] = st[x],
           Sends(r)' => Sends(r)
    PROVE  \A t \in Threads : Running(t)' /\ ~Closed(t)' => t = cur'
  BY DEF ServingInvariant, Running, Closed, Sends

LEMMA RegisterServes ==
    ASSUME SocketCore, ServingInvariant, NEW r \in Regs, Register(r)
    PROVE  ServingInvariant'
<1>1. st' = [st EXCEPT ![r] = "sending"] /\ UNCHANGED <<ack, cut>> /\ st[r] = "idle"
  BY DEF Register
<1>2. CASE Live
  <2>1. at' = [at EXCEPT ![r] = cur] /\ UNCHANGED <<cur, th>>
    BY <1>2 DEF Register
  <2>2. \A t \in Threads : Running(t)' /\ ~Closed(t)' => t = cur'
    BY <1>1, <1>2, <2>1 DEF SocketCore, TypeOK, ServingInvariant, Running, Closed, Sends
  <2>3. ASSUME NEW x \in Regs
        PROVE  /\ st'[x] = "failed" => x \in cut'
               /\ st'[x] \in {"sending", "waiting"} /\ th'[at'[x]] = "ended" /\ ack'[x] # "id"
                  => x \in cut'
    BY <1>1, <1>2, <2>1 DEF SocketCore, TypeOK, ServingInvariant, Live
  <2> QED
    BY <2>2, <2>3 DEF ServingInvariant
<1>3. CASE ~Live
  <2>1. PICK u \in Threads : /\ th[u] = "unborn" /\ th' = [th EXCEPT ![u] = "starting"]
                             /\ at' = [at EXCEPT ![r] = u] /\ cur' = u
    BY <1>3 DEF Register
  <2>2. ASSUME NEW t \in Threads, Running(t)', ~Closed(t)', t # u PROVE FALSE
    <3>1. Running(t)
      BY <2>1, <2>2 DEF SocketCore, TypeOK, Running
    <3>2. ~Closed(t)
      BY <1>1, <2>1, <2>2 DEF SocketCore, TypeOK, Closed, Sends
    <3> QED
      BY <1>3, <3>1, <3>2 DEF SocketCore, TypeOK, ServingInvariant, Live, Running
  <2>3. ASSUME NEW x \in Regs, x # r
        PROVE  /\ st'[x] = "failed" => x \in cut'
               /\ st'[x] \in {"sending", "waiting"} /\ th'[at'[x]] = "ended" /\ ack'[x] # "id"
                  => x \in cut'
    <3>1. at'[x] = at[x] /\ st'[x] = st[x]
      BY <1>1, <2>1, <2>3 DEF SocketCore, TypeOK
    <3>2. st[x] \in {"sending", "waiting"} => at[x] \in Threads
      BY DEF SocketCore, TypeOK, RegShape
    <3>3. st[x] \in {"sending", "waiting"} /\ th'[at[x]] = "ended" => th[at[x]] = "ended"
      BY <2>1, <3>2 DEF SocketCore, TypeOK
    <3> QED
      BY <1>1, <3>1, <3>3 DEF ServingInvariant
  <2>4. st'[r] = "sending" /\ th'[at'[r]] = "starting"
    BY <1>1, <2>1 DEF SocketCore, TypeOK
  <2> QED
    BY <2>1, <2>2, <2>3, <2>4 DEF ServingInvariant
<1> QED
  BY <1>2, <1>3

LEMMA RegistrationServes ==
    ASSUME SocketCore, ServingInvariant, NEW r \in Regs, Registration(r), ~Register(r)
    PROVE  ServingInvariant'
<1>1. UNCHANGED <<cur, at, th, ack, cut>> /\ (\A x \in Regs : x # r => st'[x] = st[x])
      /\ (Sends(r)' => Sends(r)) /\ (st'[r] = "waiting" => st[r] \in {"sending", "waiting"})
      /\ st'[r] # "sending"
      /\ (st'[r] = "failed" => st[r] \in {"sending", "waiting"} /\ th[at[r]] = "ended" /\ ack[r] # "id")
  BY DEF SocketCore, TypeOK, RegShape, Registration, SendRequest, TakeAck, GuardCancels, GuardLooks,
         GuardCloses, DropHandle, SendRemove, Sends, taskVars
<1>2. \A t \in Threads : Running(t)' /\ ~Closed(t)' => t = cur'
  BY <1>1, ServesOn
<1>3. ASSUME NEW x \in Regs
      PROVE  /\ st'[x] = "failed" => x \in cut'
             /\ st'[x] \in {"sending", "waiting"} /\ th'[at'[x]] = "ended" /\ ack'[x] # "id"
                => x \in cut'
  BY <1>1 DEF ServingInvariant
<1> QED
  BY <1>2, <1>3 DEF ServingInvariant

LEMMA EndServes ==
    ASSUME SocketCore, ServingInvariant, NEW t \in Threads, NEW answer, Ends(t, answer)
    PROVE  ServingInvariant'
<1>1. /\ th' = [th EXCEPT ![t] = "ended"] /\ UNCHANGED <<cur, st, at>>
      /\ cut' = cut \cup {r \in Regs : at[r] = t /\ st[r] \in {"sending", "waiting"}}
      /\ \A r \in Regs : ack[r] = "id" => ack'[r] = "id"
  BY DEF SocketCore, TypeOK, Ends
<1>2. \A u \in Threads : Running(u)' /\ ~Closed(u)' => u = cur'
  BY <1>1 DEF SocketCore, TypeOK, ServingInvariant, Running, Closed, Sends
<1>3. ASSUME NEW x \in Regs, st[x] \in {"sending", "waiting"}, th'[at[x]] = "ended", ack'[x] # "id"
      PROVE  x \in cut'
  <2>1. at[x] \in Threads
    BY <1>3 DEF SocketCore, TypeOK, RegShape
  <2> QED
    BY <1>1, <1>3, <2>1 DEF SocketCore, TypeOK, ServingInvariant
<1> QED
  BY <1>1, <1>2, <1>3 DEF ServingInvariant

LEMMA TaskServes ==
    ASSUME SocketCore, ServingInvariant, NEW t \in Threads, Task(t)
    PROVE  ServingInvariant'
<1>1. CASE \E answer : Ends(t, answer)
  BY <1>1, EndServes
<1>2. CASE ~\E answer : Ends(t, answer)
  <2>1. UNCHANGED <<cur, st, at, cut>> /\ (\A r \in Regs : ack'[r] # "id" => ack'[r] = ack[r])
    BY <1>2 DEF SocketCore, TypeOK, Task, Works, Starts, NeverStarts, TakeRequest, CheckCanceller,
                Connecting, ConnectFails, AuthFails, ConnectSucceeds, PauseElapses, PromoteNext, Count,
                Announce, Dispatch, Broadcast, Demote, Hangup, Finish, ReceiveEvent, SessionEnds,
                AddListener, RemoveListener, Acknowledge, regVars
  <2>2. \A u \in Threads : (Running(u)' => Running(u)) /\ (th'[u] = "ended" => th[u] = "ended")
    BY <1>2 DEF SocketCore, TypeOK, Task, Works, Starts, NeverStarts, TakeRequest, CheckCanceller,
                Connecting, ConnectFails, AuthFails, ConnectSucceeds, PauseElapses, PromoteNext, Count,
                Announce, Dispatch, Broadcast, Demote, Hangup, Finish, ReceiveEvent, SessionEnds,
                Moves, Reads, Running
  <2>3. \A u \in Threads : Running(u)' /\ ~Closed(u)' => u = cur'
    BY <2>1, <2>2 DEF ServingInvariant, Closed, Sends
  <2>4. \A x \in Regs : st[x] \in {"sending", "waiting"} => at[x] \in Threads
    BY DEF SocketCore, TypeOK, RegShape
  <2> QED
    BY <2>1, <2>2, <2>3, <2>4 DEF ServingInvariant
<1> QED
  BY <1>1, <1>2

(* One task at a time has anybody listening on it, and a registration fails *)
(* only if its own task ended during the call, however many earlier tasks   *)
(* ended while handles kept their senders alive (live_sender,               *)
(* get_request_sender)                                                      *)
THEOREM OneTaskAtATime == Spec => []OneTaskServes
<1>1. Init => ServingInvariant
  BY DEF Init, ServingInvariant, Running
<1>2. SocketCore /\ ServingInvariant /\ [Next]_vars => ServingInvariant'
  <2> SUFFICES ASSUME SocketCore, ServingInvariant, [Next]_vars PROVE ServingInvariant'
    OBVIOUS
  <2>1. CASE UNCHANGED vars
    BY <2>1 DEF vars, regVars, taskVars, ServingInvariant, Running, Closed, Sends
  <2>2. CASE AskReconnect
    BY <2>2 DEF AskReconnect, regVars, taskVars, ServingInvariant, Running, Closed, Sends
  <2> QED
    BY <2>1, <2>2, RegisterServes, RegistrationServes, TaskServes DEF Next
<1>3. SocketCore /\ ServingInvariant => OneTaskServes
  BY DEF ServingInvariant, OneTaskServes
<1> QED
  BY <1>1, <1>2, <1>3, SocketAlways, PTL DEF Spec

(* What a listener that stays is owed shrinks only as events are dispatched *)
LEMMA DueStep ==
    ASSUME SocketCore, Next, NEW r \in Regs, NEW e \in due[r] \ due'[r], r \in table'[at[r]]
    PROVE  \E t \in Threads : Dispatch(t)
<1>1. at[r] \in Threads /\ r \in table[at[r]]
  BY DEF SocketCore, TypeOK, DueIsQueued
<1>2. ASSUME NEW t \in Threads, NEW x, at[x] = t, Without(t, x) PROVE FALSE
  BY <1>1, <1>2 DEF SocketCore, TypeOK, Without
<1>3. ASSUME NEW t \in Threads, NEW answer, Ends(t, answer) PROVE FALSE
  BY <1>1, <1>3 DEF SocketCore, TypeOK, Ends
<1>4. ASSUME NEW t \in Threads, ReceiveEvent(t) PROVE FALSE
  <2>1. CASE table[t] = {}
    BY <1>4, <2>1 DEF ReceiveEvent
  <2>2. CASE table[t] # {}
    <3>1. due' = [x \in Regs |-> IF x \in table[t] THEN due[x] \cup {next} ELSE due[x]]
      BY <1>4, <2>2 DEF ReceiveEvent
    <3> QED
      BY <3>1
  <2> QED
    BY <2>1, <2>2
<1>5. ASSUME NEW t \in Threads, TakeRequest(t) PROVE FALSE
  <2> DEFINE q == Head(chan[t])
  <2>1. chan[t] \in Seq(Requests) /\ chan[t] # <<>>
    BY <1>5 DEF SocketCore, TypeOK, TakeRequest
  <2>2. q \in Requests /\ q \in ToSet(chan[t])
    BY <2>1, TailSet
  <2>3. q.kind \in {"add", "remove"} => at[q.reg] = t
    BY <2>2, RequestsAre, RequestFields DEF SocketCore, RequestsInOrder, Queued
  <2>4. \/ q.kind = "add" /\ AddListener(t, q.reg)
        \/ q.kind = "remove" /\ RemoveListener(t, q.reg)
        \/ UNCHANGED due
    BY <1>5 DEF TakeRequest
  <2> QED
    BY <1>2, <2>3, <2>4 DEF AddListener, Acknowledge, RemoveListener
<1>6. ASSUME NEW t \in Threads, CheckCanceller(t) \/ PromoteNext(t) PROVE FALSE
  BY <1>2, <1>6 DEF SocketCore, TypeOK, TableIsOwn, CheckCanceller, PromoteNext, Acknowledge
<1>7. CASE \E x \in Regs : Registration(x)
  BY <1>7 DEF Registration, Register, SendRequest, TakeAck, GuardCancels, GuardLooks, GuardCloses,
              DropHandle, SendRemove
<1>8. CASE \E t \in Threads : Task(t)
  BY <1>3, <1>4, <1>5, <1>6, <1>8 DEF Task, Works, Starts, NeverStarts, Connecting, ConnectFails,
     AuthFails, ConnectSucceeds, PauseElapses, Count, Announce, Demote, Hangup, Finish, SessionEnds
<1> QED
  BY <1>7, <1>8 DEF Next, AskReconnect

(* A listener that stays registered gets its events in the order in which   *)
(* they arrived, through ends of sessions and whatever other listeners come *)
(* and go (handle_initialized_websocket)                                    *)
THEOREM ListenersHearInOrder == Spec => EventsInOrder
<1>1. SocketCore /\ [Next]_vars =>
        [\A r \in Regs : \A e \in due[r] \ due'[r] :
           r \in table'[at[r]] => \A d \in due[r] : d >= e]_vars
  <2> SUFFICES ASSUME SocketCore, Next, NEW r \in Regs, NEW e \in due[r] \ due'[r],
                      r \in table'[at[r]]
               PROVE  \A d \in due[r] : d >= e
    BY DEF vars
  <2>1. PICK t \in Threads : Dispatch(t)
    BY DueStep
  <2>2. /\ queue[t] # <<>>
        /\ due' = [x \in Regs |-> IF x \in table[t] THEN due[x] \ {Head(queue[t])} ELSE due[x]]
    BY <2>1 DEF Dispatch, Broadcast
  <2>3. r \in table[t] /\ e = Head(queue[t])
    BY <2>2
  <2>4. at[r] = t /\ queue[t] \in Seq(Nat) /\ Ascending(queue[t]) /\ due[r] \subseteq ToSet(queue[t])
    <3>1. at[r] = t
      BY <2>3 DEF SocketCore, TableIsOwn
    <3> QED
      BY <3>1 DEF SocketCore, TypeOK, DueIsQueued
  <2>5. /\ Head(queue[t]) \in Nat /\ ToSet(queue[t]) \subseteq Nat
        /\ \A d \in ToSet(queue[t]) : Head(queue[t]) <= d
    BY <2>2, <2>4, AscendingTail, TailSet, InSet
  <2> QED
    BY <2>3, <2>4, <2>5
<1> QED
  BY <1>1, SocketAlways, PTL DEF Spec, EventsInOrder

=============================================================================
