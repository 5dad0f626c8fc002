--------------------------- MODULE SocketListeners ---------------------------
(***************************************************************************)
(* The event socket of a client (filen-sdk-rs/src/socket): registrations   *)
(* of event listeners, made from any thread, and the websocket task that   *)
(* connects, keeps the routing table and dispatches events.                *)
(*                                                                         *)
(* A registration hands its callback to the task over a bounded channel    *)
(* and waits for its id on a oneshot; the guard it waits in can be dropped *)
(* at any moment.  Each registration here is one call with a listener for  *)
(* every event type.  Pauses and backoff are untimed, and the ids a new    *)
(* connection answers are sent in any order.                               *)
(***************************************************************************)
EXTENDS Naturals, Sequences, SequencesExt

CONSTANTS
    Regs,        \* calls of add_event_listener and add_event_listener_sync
    SyncRegs,    \* those of add_event_listener_sync
    Threads,     \* websocket tasks spawned over time
    None,
    CAPACITY,    \* of the request channel
    MAX_EVENTS   \* bound: events the server sends

ASSUME RegsAssumption == SyncRegs \subseteq Regs /\ None \notin Regs \cup Threads
ASSUME BoundsAssumption == CAPACITY \in Nat \ {0} /\ MAX_EVENTS \in Nat

VARIABLES
    cur,      \* WebSocketHandle: the task spawned last
    st,       \* st[r]: where a registration, then its handle, is
    at,       \* at[r]: the task it was sent to
    ack,      \* ack[r]: what its oneshot holds
    cancel,   \* the registrations whose canceller was sent
    th,       \* th[t]: where a task is
    table,    \* table[t]: the listeners in its routing table
    newIds,   \* newIds[t]: those whose id waits for a connection
    busy,     \* busy[t]: acknowledged, its canceller not looked at yet
    chan,     \* chan[t]: the request channel
    queue,    \* queue[t]: events in decryption, in order of arrival
    counted,  \* the tasks whose connection is counted in socket_connections
    told,     \* listeners told of the connection by an AuthSuccess
    cut,      \* history: the registrations under way when their task ended
    next,     \* history: the next event
    due       \* due[r]: history, events that arrived for r and were not broadcast

regVars  == <<st, at, ack, cancel, cut>>
taskVars == <<th, table, newIds, busy, queue, counted, told>>
vars == <<cur, regVars, taskVars, chan, next, due>>

Request(kind, r) == [kind |-> kind, reg |-> r]

(* Who holds a strong sender of the channel, and who an open oneshot *)
Sends(r)    == st[r] \in {"sending", "waiting", "cancelling", "held", "removing"}
Receives(r) == st[r] \in {"sending", "waiting", "cancelling", "closing"}

Closed(t) == \A r \in Regs : at[r] = t => ~Sends(r)

Running(t) == th[t] \notin {"unborn", "ended"}

Init ==
    /\ cur = None
    /\ st = [r \in Regs |-> "idle"] /\ at = [r \in Regs |-> None]
    /\ ack = [r \in Regs |-> "none"] /\ cancel = {} /\ cut = {}
    /\ th = [t \in Threads |-> "unborn"] /\ table = [t \in Threads |-> {}]
    /\ newIds = [t \in Threads |-> {}] /\ busy = [t \in Threads |-> None]
    /\ chan = [t \in Threads |-> <<>>] /\ queue = [t \in Threads |-> <<>>]
    /\ counted = {} /\ told = {}
    /\ next = 1 /\ due = [r \in Regs |-> {}]

-----------------------------------------------------------------------------
(* The registering side. *)

(* Faulty variant: any sender left will do *)
Upgradable == cur # None /\ ~Closed(cur)

(* live_sender: the task last spawned, unless it ended or nobody sends to it *)
Live == cur # None /\ ~Closed(cur) /\ th[cur] # "ended"

Register(r) ==
    /\ st[r] = "idle"
    /\ st' = [st EXCEPT ![r] = "sending"]
    /\ IF Live
       THEN at' = [at EXCEPT ![r] = cur] /\ UNCHANGED <<cur, th>>
       ELSE \E t \in Threads :
              /\ th[t] = "unborn"
              /\ th' = [th EXCEPT ![t] = "starting"]
              /\ at' = [at EXCEPT ![r] = t] /\ cur' = t
    /\ UNCHANGED <<ack, cancel, cut, table, newIds, busy, queue, counted, told, chan, next, due>>

SendRequest(r) ==
    /\ st[r] = "sending"
    /\ \/ /\ th[at[r]] # "ended" /\ Len(chan[at[r]]) < CAPACITY
          /\ chan' = [chan EXCEPT ![at[r]] = Append(@, Request("add", r))]
          /\ st' = [st EXCEPT ![r] = "waiting"]
       \/ /\ th[at[r]] = "ended"
          /\ st' = [st EXCEPT ![r] = "failed"]
          /\ UNCHANGED chan
    /\ UNCHANGED <<cur, at, ack, cancel, cut, taskVars, next, due>>

TakeAck(r) ==
    /\ st[r] = "waiting" /\ ack[r] # "none"
    /\ st' = [st EXCEPT ![r] = IF ack[r] = "id" THEN "held" ELSE "failed"]
    /\ UNCHANGED <<cur, at, ack, cancel, cut, taskVars, chan, next, due>>

(* The guard is dropped: it cancels, looks for an id, closes its oneshot *)
GuardCancels(r) ==
    /\ \/ st[r] = "sending" /\ st' = [st EXCEPT ![r] = "gone"] /\ UNCHANGED cancel
       \/ st[r] = "waiting" /\ st' = [st EXCEPT ![r] = "cancelling"] /\ cancel' = cancel \cup {r}
    /\ UNCHANGED <<cur, at, ack, cut, taskVars, chan, next, due>>

GuardLooks(r) ==
    /\ st[r] = "cancelling"
    /\ st' = [st EXCEPT ![r] = IF ack[r] = "id" THEN "removing" ELSE "closing"]
    /\ UNCHANGED <<cur, at, ack, cancel, cut, taskVars, chan, next, due>>

GuardCloses(r) ==
    /\ st[r] = "closing"
    /\ st' = [st EXCEPT ![r] = "gone"]
    /\ UNCHANGED <<cur, at, ack, cancel, cut, taskVars, chan, next, due>>

DropHandle(r) ==
    /\ st[r] = "held"
    /\ st' = [st EXCEPT ![r] = "removing"]
    /\ UNCHANGED <<cur, at, ack, cancel, cut, taskVars, chan, next, due>>

(* Faulty variant: a full channel drops the removal *)
SendRemoveOnce(r) ==
    /\ st[r] = "removing"
    /\ chan' = IF Len(chan[at[r]]) < CAPACITY
               THEN [chan EXCEPT ![at[r]] = Append(@, Request("remove", r))] ELSE chan
    /\ st' = [st EXCEPT ![r] = "gone"]
    /\ UNCHANGED <<cur, at, ack, cancel, cut, taskVars, next, due>>

(* guarantee_send_remove_listener: a full channel is waited for elsewhere *)
SendRemove(r) ==
    /\ st[r] = "removing"
    /\ \/ /\ th[at[r]] # "ended" /\ Len(chan[at[r]]) < CAPACITY
          /\ chan' = [chan EXCEPT ![at[r]] = Append(@, Request("remove", r))]
       \/ th[at[r]] = "ended" /\ UNCHANGED chan
    /\ st' = [st EXCEPT ![r] = "gone"]
    /\ UNCHANGED <<cur, at, ack, cancel, cut, taskVars, next, due>>

(* reconnect_socket: one try_send *)
AskReconnect ==
    /\ Live /\ Len(chan[cur]) < CAPACITY
    /\ chan' = [chan EXCEPT ![cur] = Append(@, Request("reconnect", None))]
    /\ UNCHANGED <<cur, regVars, taskVars, next, due>>

-----------------------------------------------------------------------------
(* The task: handle_request, in every state that reads the channel. *)

Without(t, r) ==
    /\ table' = [table EXCEPT ![t] = @ \ {r}]
    /\ due' = [due EXCEPT ![r] = {}]
    /\ told' = told \ {r}

(* add_listener of a manager that is connected, add_listener_sync, and the  *)
(* ids into_connected sends: refused by a closed oneshot, or sent, and its  *)
(* canceller looked at next                                                *)
Acknowledge(t, r) ==
    IF Receives(r)
    THEN /\ ack' = [ack EXCEPT ![r] = "id"]
         /\ busy' = [busy EXCEPT ![t] = r]
         /\ table' = [table EXCEPT ![t] = @ \cup {r}]
         /\ UNCHANGED <<told, due>>
    ELSE Without(t, r) /\ UNCHANGED <<ack, busy>>

AddListener(t, r) ==
    IF r \in SyncRegs \/ th[t] = "connected"
    THEN Acknowledge(t, r) /\ UNCHANGED newIds
    ELSE /\ table' = [table EXCEPT ![t] = @ \cup {r}]
         /\ newIds' = [newIds EXCEPT ![t] = @ \cup {r}]
         /\ UNCHANGED <<ack, busy, told, due>>

RemoveListener(t, r) ==
    /\ Without(t, r)
    /\ newIds' = [newIds EXCEPT ![t] = @ \ {r}]
    /\ UNCHANGED <<ack, busy>>

Reads(t) == th[t] \in {"connecting", "pausing", "connected"} /\ busy[t] = None

TakeRequest(t) ==
    /\ Reads(t) /\ chan[t] # <<>>
    /\ LET q == Head(chan[t]) IN
         /\ \/ q.kind = "add" /\ AddListener(t, q.reg)
            \/ q.kind = "remove" /\ RemoveListener(t, q.reg)
            \/ q.kind = "reconnect" /\ UNCHANGED <<ack, busy, table, newIds, told, due>>
         /\ th' = IF q.kind = "reconnect" /\ th[t] = "pausing"
                  THEN [th EXCEPT ![t] = "connecting"] ELSE th
    /\ chan' = [chan EXCEPT ![t] = Tail(@)]
    /\ UNCHANGED <<cur, st, at, cancel, cut, queue, counted, next>>

(* Faulty variant: a new listener is not told of the connection *)
NoReplay(t) ==
    /\ busy[t] # None
    /\ busy' = [busy EXCEPT ![t] = None]
    /\ IF busy[t] \in cancel THEN Without(t, busy[t]) ELSE UNCHANGED <<table, due, told>>
    /\ UNCHANGED <<cur, regVars, th, newIds, queue, counted, chan, next>>

(* A registration cancelled meanwhile is undone; a connected manager tells *)
(* its new listener of the connection                                      *)
CheckCanceller(t) ==
    /\ busy[t] # None
    /\ busy' = [busy EXCEPT ![t] = None]
    /\ IF busy[t] \in cancel THEN Without(t, busy[t])
       ELSE /\ told' = IF th[t] = "connected" THEN told \cup {busy[t]} ELSE told
            /\ UNCHANGED <<table, due>>
    /\ UNCHANGED <<cur, regVars, th, newIds, queue, counted, chan, next>>

-----------------------------------------------------------------------------
(* The task: connecting.  The channel is read first in every select. *)

Quiet(t) == chan[t] = <<>> /\ ~Closed(t) /\ busy[t] = None

Moves(t, from, to) == th[t] = from /\ th' = [th EXCEPT ![t] = to]

(* Faulty variant: only the ids not yet sent are answered *)
EndsSilently(t, answer) ==
    /\ th' = [th EXCEPT ![t] = "ended"]
    /\ ack' = [r \in Regs |-> IF r \in newIds[t] THEN answer ELSE ack[r]]
    /\ table' = [table EXCEPT ![t] = {}] /\ newIds' = [newIds EXCEPT ![t] = {}]
    /\ chan' = [chan EXCEPT ![t] = <<>>] /\ queue' = [queue EXCEPT ![t] = <<>>]
    /\ due' = [r \in Regs |-> IF at[r] = t THEN {} ELSE due[r]]
    /\ told' = {r \in told : at[r] # t} /\ counted' = counted \ {t}
    /\ cut' = cut \cup {r \in Regs : at[r] = t /\ st[r] \in {"sending", "waiting"}}
    /\ UNCHANGED <<cur, st, at, cancel, busy, next>>

(* The task ends: what it held is dropped, and who waits for it hears so *)
Ends(t, answer) ==
    /\ th' = [th EXCEPT ![t] = "ended"]
    /\ ack' = [r \in Regs |-> IF at[r] = t /\ ack[r] = "none" /\ st[r] # "sending"
                              THEN IF r \in newIds[t] THEN answer ELSE "closed"
                              ELSE ack[r]]
    /\ table' = [table EXCEPT ![t] = {}] /\ newIds' = [newIds EXCEPT ![t] = {}]
    /\ chan' = [chan EXCEPT ![t] = <<>>] /\ queue' = [queue EXCEPT ![t] = <<>>]
    /\ due' = [r \in Regs |-> IF at[r] = t THEN {} ELSE due[r]]
    /\ told' = {r \in told : at[r] # t} /\ counted' = counted \ {t}
    /\ cut' = cut \cup {r \in Regs : at[r] = t /\ st[r] \in {"sending", "waiting"}}
    /\ UNCHANGED <<cur, st, at, cancel, busy, next>>

Starts(t) ==
    /\ Moves(t, "starting", "connecting")
    /\ UNCHANGED <<cur, regVars, table, newIds, busy, queue, counted, told, chan, next, due>>

(* The worker cannot be started, and the channel is dropped *)
NeverStarts(t) ==
    /\ th[t] = "starting"
    /\ Ends(t, "closed")

ConnectFails(t) ==
    /\ Quiet(t) /\ Moves(t, "connecting", "pausing")
    /\ UNCHANGED <<cur, regVars, table, newIds, busy, queue, counted, told, chan, next, due>>

AuthFails(t) ==
    /\ Quiet(t) /\ th[t] = "connecting"
    /\ Ends(t, "unauthenticated")

PauseElapses(t) ==
    /\ Quiet(t) /\ Moves(t, "pausing", "connecting")
    /\ UNCHANGED <<cur, regVars, table, newIds, busy, queue, counted, told, chan, next, due>>

ConnectSucceeds(t) ==
    /\ Quiet(t) /\ Moves(t, "connecting", "promoting")
    /\ UNCHANGED <<cur, regVars, table, newIds, busy, queue, counted, told, chan, next, due>>

(* into_connected: the ids, the count, then the broadcast *)
PromoteNext(t) ==
    /\ th[t] = "promoting" /\ busy[t] = None
    /\ \E r \in newIds[t] :
         /\ Acknowledge(t, r)
         /\ newIds' = [newIds EXCEPT ![t] = @ \ {r}]
    /\ UNCHANGED <<cur, st, at, cancel, cut, th, queue, counted, chan, next>>

Count(t) ==
    /\ Moves(t, "promoting", "announcing")
    /\ newIds[t] = {} /\ busy[t] = None
    /\ counted' = counted \cup {t}
    /\ UNCHANGED <<cur, regVars, table, newIds, busy, queue, told, chan, next, due>>

Announce(t) ==
    /\ Moves(t, "announcing", "connected")
    /\ told' = told \cup table[t]
    /\ UNCHANGED <<cur, regVars, table, newIds, busy, queue, counted, chan, next, due>>

-----------------------------------------------------------------------------
(* The task: connected. *)

(* An event somebody listens for is queued for decryption *)
ReceiveEvent(t) ==
    /\ Quiet(t) /\ th[t] = "connected" /\ next <= MAX_EVENTS
    /\ next' = next + 1
    /\ IF table[t] = {} THEN UNCHANGED <<queue, due>>
       ELSE /\ queue' = [queue EXCEPT ![t] = Append(@, next)]
            /\ due' = [r \in Regs |-> IF r \in table[t] THEN due[r] \cup {next} ELSE due[r]]
    /\ UNCHANGED <<cur, regVars, th, table, newIds, busy, counted, told, chan>>

Broadcast(t, e) ==
    /\ due' = [r \in Regs |-> IF r \in table[t] THEN due[r] \ {e} ELSE due[r]]
    /\ UNCHANGED <<cur, regVars, th, table, newIds, busy, counted, told, chan, next>>

(* Faulty variant: events go out as they are decrypted *)
DispatchAny(t) ==
    /\ th[t] \in {"connected", "draining", "finishing"} /\ busy[t] = None
    /\ \E e \in ToSet(queue[t]) :
         /\ queue' = [queue EXCEPT ![t] = SelectSeq(@, LAMBDA x : x # e)]
         /\ Broadcast(t, e)

(* The oldest event is broadcast once decrypted, or skipped if it cannot be; *)
(* those still in decryption when a session ends as well                    *)
Dispatch(t) ==
    /\ th[t] \in {"connected", "draining", "finishing"} /\ busy[t] = None
    /\ th[t] = "connected" => Quiet(t)
    /\ queue[t] # <<>>
    /\ queue' = [queue EXCEPT ![t] = Tail(@)]
    /\ Broadcast(t, Head(queue[t]))

(* Closed by the server, a receive error, or no frame in time *)
SessionEnds(t) ==
    /\ Quiet(t) /\ Moves(t, "connected", "draining")
    /\ UNCHANGED <<cur, regVars, table, newIds, busy, queue, counted, told, chan, next, due>>

(* Faulty variant: a session drops the events in decryption *)
DemoteAtOnce(t) ==
    /\ Moves(t, "draining", "pausing")
    /\ queue' = [queue EXCEPT ![t] = <<>>]
    /\ told' = told \ table[t] /\ counted' = counted \ {t}
    /\ UNCHANGED <<cur, regVars, table, newIds, busy, chan, next, due>>

Demote(t) ==
    /\ queue[t] = <<>>
    /\ Moves(t, "draining", "pausing")
    /\ told' = told \ table[t] /\ counted' = counted \ {t}
    /\ UNCHANGED <<cur, regVars, table, newIds, busy, queue, chan, next, due>>

(* Every sender is gone: the task ends, a session after its last events *)
Hangup(t) ==
    /\ Reads(t) /\ chan[t] = <<>> /\ Closed(t)
    /\ IF th[t] = "connected"
       THEN /\ th' = [th EXCEPT ![t] = "finishing"]
            /\ UNCHANGED <<cur, regVars, table, newIds, busy, queue, counted, told, chan, next, due>>
       ELSE Ends(t, "closed")

Finish(t) ==
    /\ th[t] = "finishing" /\ queue[t] = <<>>
    /\ Ends(t, "closed")

-----------------------------------------------------------------------------
Registration(r) ==
    \/ Register(r) \/ SendRequest(r) \/ TakeAck(r)
    \/ GuardCancels(r) \/ GuardLooks(r) \/ GuardCloses(r)
    \/ DropHandle(r) \/ SendRemove(r)

Connecting(t) == ConnectFails(t) \/ AuthFails(t) \/ ConnectSucceeds(t)

(* What the task does of itself once it can *)
Works(t) ==
    \/ Starts(t) \/ NeverStarts(t) \/ TakeRequest(t) \/ CheckCanceller(t)
    \/ Connecting(t) \/ PauseElapses(t) \/ PromoteNext(t) \/ Count(t) \/ Announce(t)
    \/ Dispatch(t) \/ Demote(t) \/ Hangup(t) \/ Finish(t)

Task(t) == Works(t) \/ ReceiveEvent(t) \/ SessionEnds(t)

Next ==
    \/ \E r \in Regs : Registration(r)
    \/ \E t \in Threads : Task(t)
    \/ AskReconnect

(* A task that can go on is polled; a future that is ready is polled or    *)
(* dropped; destructors and removal tasks run to their end.  The channel   *)
(* lets its senders in by turn, hence the strong fairness.  Connection     *)
(* attempts end (CONNECT_TIMEOUT), in whatever way.                        *)
Fairness ==
    /\ \A t \in Threads : WF_vars(Works(t))
    /\ \A r \in Regs : SF_vars(SendRequest(r)) /\ WF_vars(TakeAck(r)) /\ WF_vars(GuardLooks(r))
                       /\ WF_vars(GuardCloses(r)) /\ SF_vars(SendRemove(r))

Spec == Init /\ [][Next]_vars /\ Fairness

-----------------------------------------------------------------------------
(* Properties. *)

RegStates == {"idle", "sending", "waiting", "cancelling", "closing", "held", "removing",
              "gone", "failed"}

TaskStates == {"unborn", "starting", "connecting", "pausing", "promoting", "announcing",
               "connected", "draining", "finishing", "ended"}

Requests == {Request(k, r) : k \in {"add", "remove"}, r \in Regs} \cup {Request("reconnect", None)}

TypeOK ==
    /\ cur \in Threads \cup {None}
    /\ st \in [Regs -> RegStates] /\ at \in [Regs -> Threads \cup {None}]
    /\ ack \in [Regs -> {"none", "id", "unauthenticated", "closed"}]
    /\ cancel \subseteq Regs /\ cut \subseteq Regs /\ told \subseteq Regs /\ counted \subseteq Threads
    /\ th \in [Threads -> TaskStates]
    /\ table \in [Threads -> SUBSET Regs] /\ newIds \in [Threads -> SUBSET Regs]
    /\ busy \in [Threads -> Regs \cup {None}]
    /\ chan \in [Threads -> Seq(Requests)] /\ queue \in [Threads -> Seq(Nat)]
    /\ \A t \in Threads : Len(chan[t]) <= CAPACITY
    /\ next \in Nat /\ due \in [Regs -> SUBSET Nat]

(* A listener whose handle is held is in its task's routing table for as   *)
(* long as the task runs: no cancellation of another registration, no      *)
(* reconnect and no late removal takes it out                              *)
HeldIsListening ==
    \A r \in Regs : st[r] = "held" /\ th[at[r]] # "ended" => r \in table[at[r]]

Queued(t, kind, r) == Request(kind, r) \in ToSet(chan[t])

(* A listener nobody has a handle of is on its way out: its removal is     *)
(* queued, its canceller about to be looked at, or its id still unsent and *)
(* its oneshot closed (ListenerRegisterGuard, guarantee_send_remove_listener) *)
NoListenerLeaks ==
    \A t \in Threads : \A r \in table[t] :
      st[r] \in {"closing", "gone", "failed"} =>
        \/ r \in newIds[t] \/ busy[t] = r
        \/ Queued(t, "remove", r)
        \/ st[r] = "closing" /\ ack[r] = "none"

(* A client has one socket that anybody listens on: a task is succeeded     *)
(* only once it ended or nobody sends to it.  And a registration fails only *)
(* if its task ended during the call: handles that keep the senders of an   *)
(* earlier, ended task alive never make it fail (live_sender)               *)
OneTaskServes ==
    /\ \A t, u \in Threads : Running(t) /\ ~Closed(t) /\ Running(u) /\ ~Closed(u) => t = u
    /\ \A r \in Regs : st[r] = "failed" => r \in cut

(* Every listener hears AuthSuccess before the events of a connection,     *)
(* whether it was added before or after it was made, and never before the  *)
(* connection is counted                                                   *)
ToldInTime ==
    /\ \A t \in Threads : th[t] = "connected" /\ busy[t] = None => table[t] \subseteq told
    /\ \A r \in told : at[r] \in counted

(* A listener gets its events in the order they arrived *)
EventsInOrder ==
    [][\A r \in Regs : \A e \in due[r] \ due'[r] :
         r \in table'[at[r]] => \A d \in due[r] : d >= e]_vars

(* An event that arrived is not lost to a reconnect *)
EventsSurvive ==
    \A r \in Regs : due[r] # {} => th[at[r]] \in {"connected", "draining", "finishing"}

(* add_event_listener_sync resolves without a connection; any other call   *)
(* resolves once its task has a session or ends; and a task every sender   *)
(* of which is gone ends.  A registration is made once and senders do not  *)
(* come back, so each comes to rest for good (add_listener, run_task).     *)
CallsAndTasksEnd ==
    <>[](/\ \A r \in SyncRegs : st[r] \notin {"sending", "waiting"}
         /\ \A r \in Regs : st[r] \in {"sending", "waiting"} => th[at[r]] \notin {"connected", "ended"}
         /\ \A t \in Threads : ~(Running(t) /\ Closed(t)))

(* What a task has in each of its places; one that has ended has nothing *)
TaskShape ==
    /\ cur # None => th[cur] # "unborn"
    /\ \A t \in Threads :
         /\ table[t] # {} => th[t] \notin {"unborn", "starting", "ended"}
         /\ chan[t] # <<>> => Running(t)
         /\ newIds[t] # {} => th[t] \in {"connecting", "pausing", "promoting"}
         /\ busy[t] # None => th[t] \in {"connecting", "pausing", "promoting", "connected"}
         /\ queue[t] # <<>> => th[t] \in {"connected", "draining", "finishing"}
         /\ t \in counted <=> th[t] \in {"announcing", "connected", "draining", "finishing"}

(* What a registration's state says of its oneshot, its canceller and its task *)
RegShape ==
    \A r \in Regs :
      /\ st[r] = "idle" <=> at[r] = None
      /\ at[r] # None => th[at[r]] # "unborn"
      /\ st[r] \in {"idle", "sending"} => ack[r] = "none"
      /\ st[r] \in {"held", "removing"} => ack[r] = "id"
      /\ st[r] \in {"cancelling", "closing"} => r \in cancel
      /\ r \in cancel => st[r] \in {"cancelling", "closing", "removing", "gone"}
      /\ st[r] = "failed" \/ ack[r] \in {"unauthenticated", "closed"} => th[at[r]] = "ended"

AskedOnce(q) == \A i, j \in DOMAIN q : q[i].kind = "add" /\ q[i] = q[j] => i = j

Ascending(q) == \A i, j \in DOMAIN q : i < j => q[i] < q[j]

(* A request to add is on its way once, before the task has its listener,   *)
(* and a request to remove after it                                         *)
RequestsInOrder ==
    \A t \in Threads :
      /\ AskedOnce(chan[t])
      /\ \A r \in Regs :
           /\ Queued(t, "add", r) => /\ at[r] = t /\ ack[r] = "none" /\ r \notin table[t]
                                     /\ st[r] \in {"waiting", "cancelling", "closing", "gone"}
           /\ Queued(t, "remove", r) => at[r] = t /\ ack[r] = "id" /\ st[r] = "gone"

(* A listener is in the table of its own task alone, and is there until it  *)
(* is answered or for as long as its answer stands                          *)
TableIsOwn ==
    /\ \A t \in Threads :
         /\ \A r \in table[t] : /\ at[r] = t /\ st[r] \notin {"idle", "sending"}
                                /\ r \in newIds[t] \/ ack[r] = "id"
         /\ \A r \in newIds[t] : r \in table[t] /\ ack[r] = "none"
         /\ busy[t] # None => busy[t] \in table[t] /\ ack[busy[t]] = "id"
    /\ \A r \in Regs : st[r] = "waiting" /\ ack[r] = "id" /\ th[at[r]] # "ended" => r \in table[at[r]]

(* Whoever cancels while the task answers is found out by the one or the other *)
CancelIsSeen ==
    \A t \in Threads : \A r \in table[t] :
      /\ st[r] = "closing" /\ ack[r] = "id" => busy[t] = r
      /\ st[r] = "gone" /\ busy[t] = r => r \in cancel \/ Queued(t, "remove", r)

(* Events wait in order for those who listen *)
DueIsQueued ==
    /\ \A t \in Threads : Ascending(queue[t]) /\ \A e \in ToSet(queue[t]) : e < next
    /\ \A r \in Regs : due[r] # {} => /\ at[r] # None /\ r \in table[at[r]]
                                      /\ due[r] \subseteq ToSet(queue[at[r]])

(* Who listens to a connection was told of it, apart from the one just being *)
(* added, and who was told listens to one                                    *)
ListenersAreTold ==
    /\ \A t \in Threads : th[t] = "connected" => table[t] \ {busy[t]} \subseteq told
    /\ \A r \in told : at[r] \in counted /\ r \in table[at[r]]

(* The routing tables hold the listeners somebody has a handle of, nobody  *)
(* else's for good, and what these are owed is told them or still under way *)
(* (inductive)                                                              *)
RegistrationInvariant ==
    /\ TypeOK /\ TaskShape /\ RegShape /\ RequestsInOrder /\ TableIsOwn /\ CancelIsSeen
    /\ DueIsQueued /\ ListenersAreTold
    /\ HeldIsListening /\ NoListenerLeaks /\ ToldInTime /\ EventsSurvive

(* Only the task spawned last is listened on, and whoever is about to hear  *)
(* that its registration failed was under way when its task ended           *)
ServingInvariant ==
    /\ \A t \in Threads : Running(t) /\ ~Closed(t) => t = cur
    /\ \A r \in Regs :
         /\ st[r] = "failed" => r \in cut
         /\ st[r] \in {"sending", "waiting"} /\ th[at[r]] = "ended" /\ ack[r] # "id" => r \in cut
=============================================================================
