----------------------------- MODULE BatchWindow -----------------------------
(***************************************************************************)
(* Calls to one route that arrive together and go out as one bulk request. *)
(* The first call goes alone and opens a window; the next ones join it, and *)
(* when its deadline passes one of them, the flusher, sends them all.  A   *)
(* flusher that is dropped hands the job to another member.                *)
(*                                                                         *)
(* Source: filen-sdk-rs/src/auth/http/batch/mod.rs, with bulk::send and    *)
(* bulk::answered (api/v3/bulk/mod.rs) and post_batched                    *)
(* and the retry of an attempt (auth/http/mod.rs).                         *)
(*                                                                         *)
(* One key of the batcher's map: keys share nothing.  A deadline is named  *)
(* by the window it was set for; the window that replaces a full one has   *)
(* the same.  Each caller calls once, and callers are numbered as they     *)
(* call.  An answer carries the item the server ran and the number of      *)
(* callers by then, which dates it.                                        *)
(***************************************************************************)
EXTENDS Naturals, Sequences, FiniteSets, SequencesExt

CONSTANTS
    MAX_CALLS,
    Items,
    CAP,        \* items of one bulk request
    MAX_FAULTS  \* dropped callers, attempts sent again and requests that go wrong

ASSUME BatchAssumption ==
    /\ MAX_CALLS \in Nat /\ Items # {}
    /\ CAP \in Nat \ {0} /\ MAX_FAULTS \in Nat

Callers == 1 .. MAX_CALLS

VARIABLES
    dedupe,   \* whether identical items of the route share a slot
    windows,  \* every window opened, oldest first
    open,     \* the window in the map, 0 for none
    due,      \* deadlines that have passed
    calls,    \* each caller's call
    ran,      \* how often the server ran the caller's item
    replayed, \* callers whose item an accepted replay may run again
    faults

vars == <<dedupe, windows, open, due, calls, ran, replayed, faults>>

NoCall == [pc |-> "idle", item |-> CHOOSE i \in Items : TRUE, window |-> 0, slot |-> 0,
           got |-> <<>>]

\* outcome: the once-cell, "None" until the flusher sets it.
Window(deadline) ==
    [deadline |-> deadline, phase |-> "Open", slots |-> <<>>, body |-> <<>>, index |-> <<>>,
     outcome |-> "None", answers |-> <<>>, asOf |-> 0]

Called == Cardinality({c \in Callers : calls[c].pc # "idle"})

Faults(n) == faults + n <= MAX_FAULTS /\ faults' = faults + n

Fault == Faults(1)

----------------------------------------------------------------------------
(* join.                                                                   *)

\* The slots that hold the item and may be shared.
Same(w, item) == {s \in DOMAIN w.slots : dedupe /\ w.slots[s].item = item}

Full(w, item) == w.phase = "Open" /\ Same(w, item) = {} /\ Len(w.slots) >= CAP

Admits(w, item) == w.phase = "Open" /\ ~Full(w, item)

try_push(w, item) ==
    IF Same(w, item) # {}
    THEN LET s == CHOOSE x \in Same(w, item) : TRUE
         IN [slot |-> s, window |-> [w EXCEPT !.slots[s].waiters = @ + 1]]
    ELSE [slot |-> Len(w.slots) + 1,
          window |-> [w EXCEPT !.slots = Append(@, [item |-> item, waiters |-> 1])]]

\* What is in the map once the windows past their deadline are pruned.  The
\* clock was read before the lock, so one that passed since is still there.
Listed == {open} \cup (IF open # 0 /\ windows[open].deadline \in due THEN {0} ELSE {})

Become(c, pc, item, w, slot) ==
    calls' = [calls EXCEPT ![c] = [NoCall EXCEPT !.pc = pc, !.item = item, !.window = w, !.slot = slot]]

\* No window, or one taken by its flush: the caller leads a window of its own.
Lead(c, item, w) ==
    /\ w # 0 => windows[w].phase # "Open"
    /\ windows' = Append(windows, Window(Len(windows) + 1))
    /\ open' = Len(windows')
    /\ Become(c, "single", item, 0, 0)

Member(c, item, w) ==
    /\ w # 0 /\ Admits(windows[w], item)
    /\ LET pushed == try_push(windows[w], item)
       IN /\ windows' = [windows EXCEPT ![w] = pushed.window]
          /\ open' = w
          /\ Become(c, "waiting", item, w, pushed.slot)

\* A full window's next caller opens one with the same deadline.
Overflow(c, item, w) ==
    /\ w # 0 /\ Full(windows[w], item)
    /\ LET pushed == try_push(Window(windows[w].deadline), item)
       IN /\ windows' = Append(windows, pushed.window)
          /\ open' = Len(windows')
          /\ Become(c, "waiting", item, Len(windows'), pushed.slot)

join(c) ==
    /\ c = Called + 1
    /\ \E item \in Items, w \in Listed :
         Lead(c, item, w) \/ Member(c, item, w) \/ Overflow(c, item, w)
    /\ UNCHANGED <<dedupe, due, ran, replayed, faults>>

----------------------------------------------------------------------------
(* flush, under the once-cell.                                             *)

\* Mutant for CallsEnd: a member dropped while it sends keeps the job.
Flushers_kept(w) == {c \in Callers : /\ calls[c].window = w
                                    /\ calls[c].pc \in {"flushing", "posting", "dropped"}}

Flushers(w) == {c \in Callers : calls[c].window = w /\ calls[c].pc \in {"flushing", "posting"}}

\* get_or_init: one member at a time runs the flush while nothing is set.
BeginFlush(c) ==
    /\ calls[c].pc = "waiting"
    /\ windows[calls[c].window].outcome = "None"
    /\ Flushers(calls[c].window) = {}
    /\ calls' = [calls EXCEPT ![c].pc = "flushing"]
    /\ UNCHANGED <<dedupe, windows, open, due, ran, replayed, faults>>

DeadlinePasses ==
    /\ \E w \in DOMAIN windows :
         /\ windows[w].deadline \notin due
         /\ \A v \in 1 .. w - 1 : windows[v].deadline \in due
         /\ due' = due \cup {windows[w].deadline}
    /\ UNCHANGED <<dedupe, windows, open, calls, ran, replayed, faults>>

Waiters(w) == FoldLeft(LAMBDA n, slot : n + slot.waiters, 0, w.slots)

\* A slot nobody waits on is left out of the request.
Wanted(w) == {s \in DOMAIN w.slots : w.slots[s].waiters > 0}

Position(w, s) == IF s \in Wanted(w) THEN Cardinality({t \in Wanted(w) : t <= s}) ELSE 0

\* Mutant for AnswerIsOwn: numbered after its item is pushed.
index_of_late(w) == [s \in DOMAIN w.slots |-> IF s \in Wanted(w) THEN Position(w, s) + 1 ELSE 0]

index_of(w) == [s \in DOMAIN w.slots |-> Position(w, s)]

\* Closed once: a member taking over finds the request as it was fixed.
take(w) ==
    IF w.phase # "Open" THEN w
    ELSE IF Waiters(w) < 2 THEN [w EXCEPT !.phase = "Alone"]
    ELSE [w EXCEPT !.phase = "Sent",
            !.index = index_of(w),
            !.body = [p \in 1 .. Cardinality(Wanted(w)) |->
                        w.slots[CHOOSE s \in Wanted(w) : Position(w, s) = p].item]]

\* The map lets go of this window, and not of a newer one.
forget(w) == open' = IF open = w THEN 0 ELSE open

TakeWindow(c) ==
    /\ calls[c].pc = "flushing"
    /\ windows[calls[c].window].deadline \in due
    /\ LET w == calls[c].window
           taken == take(windows[w])
       IN IF taken.phase = "Alone"
          THEN /\ windows' = [windows EXCEPT ![w] = [taken EXCEPT !.outcome = "Alone"]]
               /\ forget(w)
               /\ calls' = [calls EXCEPT ![c].pc = "waiting"]
          ELSE /\ windows' = [windows EXCEPT ![w] = taken]
               /\ calls' = [calls EXCEPT ![c].pc = "posting"]
               /\ UNCHANGED open
    /\ UNCHANGED <<dedupe, due, ran, replayed, faults>>

\* The callers whose items window w's request carries.
Carried(w) == {c \in Callers : /\ calls[c].window = w
                               /\ windows[w].index[calls[c].slot] # 0}

\* A request that went wrong may have run its first items.
RanFirst(w) == {{c \in Carried(w) : windows[w].index[calls[c].slot] <= n} :
                    n \in 0 .. Len(windows[w].body)}

Run(callers) == ran' = [c \in Callers |-> IF c \in callers THEN ran[c] + 1 ELSE ran[c]]

SetOutcome(c, outcome, answers) ==
    LET w == calls[c].window
    IN /\ windows' = [windows EXCEPT ![w].outcome = outcome, ![w].answers = answers,
                                     ![w].asOf = Called]
       /\ forget(w)
       /\ calls' = [calls EXCEPT ![c].pc = "waiting"]

\* Every item answered, some perhaps with internal_error.
BulkAnswered(c) ==
    /\ calls[c].pc = "posting"
    /\ LET w == calls[c].window
           body == windows[w].body
       IN \E bad \in SUBSET DOMAIN body :
            /\ Faults(Cardinality(bad))
            /\ SetOutcome(c, "Answers", [p \in DOMAIN body |-> [item |-> body[p], ok |-> p \notin bad]])
            /\ Run(Carried(w))
            /\ replayed' = replayed \cup {d \in Carried(w) : windows[w].index[calls[d].slot] \in bad}
    /\ UNCHANGED <<dedupe, due>>

\* Nothing ran, or the count of results is not that of the items: alone.
classify(error) == IF error = "lost" THEN "Failed" ELSE "Alone"

BulkFailed(c) ==
    /\ calls[c].pc = "posting"
    /\ Fault
    /\ LET w == calls[c].window
       IN \E error \in {"refused", "mismatched", "lost"}, some \in RanFirst(w) :
            /\ error = "refused" => some = {}
            /\ SetOutcome(c, classify(error), <<>>)
            /\ Run(some)
            /\ replayed' = IF error = "mismatched" THEN replayed \cup some ELSE replayed
    /\ UNCHANGED <<dedupe, due>>

\* An attempt ran some items and its answer was lost, or was a 5xx: the stack
\* sends the same body again.
Resent(c) ==
    /\ calls[c].pc = "posting"
    /\ Fault
    /\ \E some \in RanFirst(calls[c].window) \ {{}} : Run(some) /\ replayed' = replayed \cup some
    /\ UNCHANGED <<dedupe, windows, open, due, calls>>

\* Mutant for LeftIsNotSent: the slot keeps its waiter.
Leave_counted(w, slot) == w

\* The caller's future is dropped.  Before the window closes that takes it off
\* its slot; a request already posted may run all the same.
Leave(w, slot) == IF w.phase = "Open" THEN [w EXCEPT !.slots[slot].waiters = @ - 1] ELSE w

Drop(c) ==
    /\ calls[c].pc \in {"waiting", "flushing", "posting"}
    /\ Fault
    /\ LET w == calls[c].window
           closed == windows[w].phase # "Open"
       IN /\ windows' = [windows EXCEPT ![w] = Leave(@, calls[c].slot)]
          /\ calls' = [calls EXCEPT ![c].pc = IF closed THEN "dropped" ELSE "left"]
          /\ IF calls[c].pc # "posting" THEN UNCHANGED <<ran, replayed>>
             ELSE \E some \in RanFirst(w) : Run(some) /\ replayed' = replayed \cup some
    /\ UNCHANGED <<dedupe, open, due>>

----------------------------------------------------------------------------
(* The reply.                                                              *)

\* Where the slot's answer is, 0 for none.
answer_at(w, slot) == IF w.index[slot] \in DOMAIN w.answers THEN w.index[slot] ELSE 0

Receive(c) ==
    /\ calls[c].pc = "waiting"
    /\ LET w == windows[calls[c].window]
           at == IF w.outcome = "Answers" THEN answer_at(w, calls[c].slot) ELSE 0
       IN /\ w.outcome # "None"
          /\ calls' = [calls EXCEPT
               ![c].pc = CASE w.outcome = "Failed" -> "failed"
                           [] at # 0 /\ w.answers[at].ok -> "answered"
                           [] OTHER -> "single",
               ![c].got = IF at # 0 THEN <<w.answers[at].item, w.asOf>> ELSE @]
    /\ UNCHANGED <<dedupe, windows, open, due, ran, replayed, faults>>

\* post_batched: the single call, whose attempts may be sent again as well.
Single(c) ==
    /\ calls[c].pc = "single"
    /\ calls' = [calls EXCEPT ![c].pc = "answered", ![c].got = <<calls[c].item, Called>>]
    /\ \E again \in {0, 1} :
         /\ Faults(again)
         /\ ran' = [ran EXCEPT ![c] = @ + 1 + again]
         /\ replayed' = IF again = 1 THEN replayed \cup {c} ELSE replayed
    /\ UNCHANGED <<dedupe, windows, open, due>>

----------------------------------------------------------------------------

Init ==
    /\ dedupe \in BOOLEAN
    /\ windows = <<>> /\ open = 0 /\ due = {}
    /\ calls = [c \in Callers |-> NoCall]
    /\ ran = [c \in Callers |-> 0]
    /\ replayed = {} /\ faults = 0

Step(c) ==
    \/ BeginFlush(c) \/ TakeWindow(c) \/ BulkAnswered(c) \/ BulkFailed(c)
    \/ Receive(c) \/ Single(c)

Next == DeadlinePasses \/ \E c \in Callers : join(c) \/ Step(c) \/ Resent(c) \/ Drop(c)

\* Timers fire and a future that is not dropped is polled; requests end.
Fairness == WF_vars(DeadlinePasses) /\ \A c \in Callers : WF_vars(Step(c))

Spec == Init /\ [][Next]_vars /\ Fairness

----------------------------------------------------------------------------
(* Properties.                                                             *)

Slots == [item : Items, waiters : Nat]
Answers == [item : Items, ok : BOOLEAN]
Windows ==
    [deadline : Nat, phase : {"Open", "Sent", "Alone"}, slots : Seq(Slots), body : Seq(Items),
     index : Seq(Nat), outcome : {"None", "Answers", "Alone", "Failed"}, answers : Seq(Answers),
     asOf : Nat]
Calls ==
    [pc : {"idle", "single", "waiting", "flushing", "posting", "answered", "failed", "left",
           "dropped"},
     item : Items, window : Nat, slot : Nat, got : {<<>>} \cup (Items \X Nat)]

\* A bulk request, and so a window, holds at most CAP items.
TypeOK ==
    /\ dedupe \in BOOLEAN
    /\ windows \in Seq(Windows) /\ calls \in [Callers -> Calls]
    /\ open \in 0 .. Len(windows) /\ due \subseteq DOMAIN windows
    /\ \A w \in DOMAIN windows : /\ windows[w].deadline \in DOMAIN windows
                                 /\ Len(windows[w].slots) <= CAP
    /\ ran \in [Callers -> Nat] /\ replayed \subseteq Callers /\ faults \in Nat

\* Whoever sent the request, and whoever left its window on the way, each caller
\* gets the answer to its own item, and one the server gave after the call was
\* made (Batcher::call, Window::try_push).
AnswerIsOwn ==
    \A c \in Callers : calls[c].pc = "answered" =>
        calls[c].got[1] = calls[c].item /\ c <= calls[c].got[2]

\* A write whose caller left before the window closed is never sent
\* (Waiter::drop, Window::take).
LeftIsNotSent == \A c \in Callers : ~dedupe /\ calls[c].pc = "left" => ran[c] = 0

\* An item runs twice only where a replay is accepted: the stack sent its request
\* again, its sender was dropped, the results did not match the items, or its own
\* answer was internal_error (batched.rs, classify, is_attempt_retryable).
RunTwiceByDesign == \A c \in Callers : ~dedupe /\ ran[c] > 1 => c \in replayed

\* A call that is not dropped ends, whichever flushers are dropped before it
\* and however late it joined (Window::outcome).
CallsEnd ==
    <>[](\A c \in Callers : calls[c].pc \in {"idle", "answered", "failed", "left", "dropped"})

\* Callers are numbered as they call; one that has not called has nothing.
CallsInOrder ==
    /\ \E n \in 0 .. MAX_CALLS : \A c \in Callers : calls[c].pc # "idle" <=> c <= n
    /\ \A c \in Callers : calls[c].pc = "idle" => calls[c].window = 0 /\ ran[c] = 0

InWindow(c, w) == w # 0 /\ calls[c].window = w

\* A caller in a window has a slot of it that holds its item, and until the
\* outcome is set it is there, sending, or given up.  One member sends at a
\* time, and before the outcome (Window::try_push, Window::outcome).
MembersHaveSlots ==
    \A c \in Callers :
      /\ calls[c].pc \in {"waiting", "flushing", "posting", "left", "dropped"} =>
           calls[c].window # 0
      /\ calls[c].window # 0 => calls[c].window \in DOMAIN windows
      /\ \A w \in DOMAIN windows : InWindow(c, w) =>
           /\ calls[c].slot \in DOMAIN windows[w].slots
           /\ windows[w].slots[calls[c].slot].item = calls[c].item
           /\ windows[w].outcome = "None" =>
                calls[c].pc \in {"waiting", "flushing", "posting", "left", "dropped"}
           /\ calls[c].pc \in {"flushing", "posting"} =>
                /\ windows[w].outcome = "None"
                /\ \A d \in Callers : InWindow(d, w) /\ calls[d].pc \in {"flushing", "posting"} => d = c
           /\ calls[c].pc = "posting" => windows[w].phase = "Sent"

\* A request fixed is the window's wanted items in order, its answers are in
\* that order, and nobody joined since (Window::take, bulk::answered).
RequestIsFixed ==
    \A w \in DOMAIN windows :
      /\ windows[w].phase = "Open" => windows[w].outcome = "None"
      /\ windows[w].phase = "Sent" =>
           /\ DOMAIN windows[w].index = DOMAIN windows[w].slots
           /\ \A s \in DOMAIN windows[w].slots : windows[w].index[s] # 0 =>
                /\ windows[w].index[s] \in DOMAIN windows[w].body
                /\ windows[w].body[windows[w].index[s]] = windows[w].slots[s].item
      /\ windows[w].outcome = "Answers" =>
           /\ windows[w].phase = "Sent"
           /\ DOMAIN windows[w].answers = DOMAIN windows[w].body
           /\ \A p \in DOMAIN windows[w].body : windows[w].answers[p].item = windows[w].body[p]
           /\ \A c \in Callers : InWindow(c, w) => c <= windows[w].asOf

\* An item not replayed has run at most once, and not at all while its caller
\* may still send it: alone, or with a window that is not answered.
RunsOnce ==
    \A c \in Callers :
      /\ c \notin replayed => ran[c] <= 1 /\ (calls[c].pc = "single" => ran[c] = 0)
      /\ \A w \in DOMAIN windows : InWindow(c, w) =>
           /\ windows[w].phase = "Open" => ran[c] = 0
           /\ c \notin replayed /\ windows[w].outcome = "None" => ran[c] = 0
           /\ c \notin replayed /\ calls[c].pc = "waiting" /\ windows[w].outcome = "Alone" => ran[c] = 0
           /\ c \notin replayed /\ calls[c].pc = "waiting" /\ windows[w].outcome = "Answers" =>
                \/ ran[c] = 0
                \/ /\ windows[w].index[calls[c].slot] # 0
                   /\ windows[w].answers[windows[w].index[calls[c].slot]].ok

WaitingAt(w, s) ==
    {c \in Callers : InWindow(c, w) /\ calls[c].slot = s /\ calls[c].pc # "left"}

\* Until the window closes a slot counts the callers that wait on it, so it is
\* wanted exactly while there is one (Window::try_push, Waiter::drop).
WaitersAreCounted ==
    \A w \in DOMAIN windows : windows[w].phase = "Open" =>
      \A s \in DOMAIN windows[w].slots :
        windows[w].slots[s].waiters = Cardinality(WaitingAt(w, s))

\* Where items are not shared a slot is one caller's, and the request leaves
\* out the one whose caller left (Window::try_push, Window::take).
SlotsAreOwn ==
    ~dedupe => \A c \in Callers : \A w \in DOMAIN windows : InWindow(c, w) =>
      /\ \A d \in Callers : InWindow(d, w) /\ calls[d].slot = calls[c].slot => d = c
      /\ windows[w].phase = "Sent" /\ calls[c].pc = "left" =>
           windows[w].index[calls[c].slot] = 0

\* What a window holds is what its callers wait for: no item too many, none whose
\* caller left, and none run again but by an accepted replay.  Inductive with
\* AnswerIsOwn.
BatchInvariant ==
    /\ TypeOK /\ CallsInOrder /\ MembersHaveSlots /\ RequestIsFixed /\ RunsOnce
    /\ WaitersAreCounted /\ SlotsAreOwn /\ LeftIsNotSent /\ RunTwiceByDesign
=============================================================================
