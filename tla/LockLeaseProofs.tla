--------------------------- MODULE LockLeaseProofs ---------------------------
(* Proofs about LockLease, for any locks, times, clocks and server. *)
EXTENDS LockLease, TLAPS

USE LockAssumption, TimesAssumption, EnvironmentAssumption

LEMMA StampTypes ==
    ASSUME TypeOK, NEW l \in Locks
    PROVE  Stamp(l) \in Confirmation /\ NoStamp \in Confirmation /\ Age(l) \in Int
  BY DEF TypeOK, Stamp, NoStamp, Confirmation, Age, AgeOf

LEMMA RequestTypes ==
    ASSUME NEW l \in Locks
    PROVE  <<"acquire", l>> \in Requests /\ <<"refresh", l>> \in Requests
           /\ <<"release", l>> \in Requests
  BY DEF Requests

LEMMA NoPollType == NoPoll \in PollState
  BY DEF NoPoll, PollState, Answers, NoStamp, Confirmation

LEMMA KeepIdleType ==
    ASSUME NEW st \in {"sleeping", "done"}, NEW wake \in Nat
    PROVE  KeepIdle(st, wake) \in KeepState
  BY DEF KeepIdle, KeepState, Answers, NoStamp, Confirmation

LEMMA AskIdleType ==
    ASSUME NEW st \in {"none", "pausing", "ok", "lost", "error"}
    PROVE  AskIdle(st) \in AskState
  BY DEF AskIdle, AskState, Answers, NoStamp, Confirmation

LEMMA SendTypes ==
    ASSUME NEW sent \in Confirmation, NEW seen \in Confirmation, NEW wake \in Nat
    PROVE  /\ [sent |-> sent, answer |-> "none"] \in PollState
           /\ [st |-> "asking", wake |-> wake, sent |-> sent, answer |-> "none"] \in KeepState
           /\ [st |-> "asking", wake |-> wake, sent |-> sent, answer |-> "none", seen |-> seen]
                 \in AskState
  BY DEF PollState, KeepState, AskState, Answers

LEMMA AnswerTypes ==
    ASSUME NEW answer \in {"yes", "no"}
    PROVE  /\ \A p \in PollState : [p EXCEPT !.answer = answer] \in PollState
           /\ \A k \in KeepState : [k EXCEPT !.answer = answer] \in KeepState
           /\ \A q \in AskState : [q EXCEPT !.answer = answer] \in AskState
  BY DEF PollState, KeepState, AskState, Answers

LEMMA WaitTypes ==
    ASSUME NEW q \in AskState, NEW wake \in Nat, NEW seen \in Confirmation
    PROVE  [q EXCEPT !.wake = wake, !.seen = seen] \in AskState
  BY DEF AskState

LEMMA SentTypes ==
    /\ \A p \in PollState : p.sent \in Confirmation
    /\ \A k \in KeepState : k.sent \in Confirmation
    /\ \A q \in AskState : q.sent \in Confirmation
  BY DEF PollState, KeepState, AskState

LEMMA EffectTypes ==
    ASSUME TypeOK, NEW l \in Locks
    PROVE  /\ MarkLost(l) => valid' \in [Locks -> BOOLEAN] /\ wire' \subseteq Requests
           /\ DropLease(l) => /\ phase' \in [Locks -> {"idle", "polling", "held", "gone"}]
                              /\ wire' \subseteq Requests
           /\ LetGo(l) => /\ phase' \in [Locks -> {"idle", "polling", "held", "gone"}]
                          /\ wire' \subseteq Requests
<1> <<"release", l>> \in Requests
  BY RequestTypes
<1>1. MarkLost(l) => valid' \in [Locks -> BOOLEAN] /\ wire' \subseteq Requests
  BY DEF TypeOK, MarkLost
<1>2. DropLease(l) => /\ phase' \in [Locks -> {"idle", "polling", "held", "gone"}]
                      /\ wire' \subseteq Requests
  BY DEF TypeOK, DropLease
<1> QED
  BY <1>1, <1>2 DEF LetGo, TypeOK

LEMMA KeepTypes ==
    ASSUME TypeOK, NEW l \in Locks
    PROVE  /\ KeepEnds(l) => keep' \in [Locks -> KeepState]
           /\ \A until \in Nat : KeepSleeps(l, until) => keep' \in [Locks -> KeepState]
  BY KeepIdleType DEF TypeOK, KeepEnds, KeepSleeps

LEMMA AskTypes ==
    ASSUME TypeOK, NEW l \in Locks,
           NEW result \in {"none", "ok", "lost", "error"}, AskEnds(l, result)
    PROVE  ask' \in [Locks -> AskState]
  BY AskIdleType DEF TypeOK, AskEnds

LEMMA LookTypes ==
    ASSUME TypeOK, NEW l \in Locks, Look(l)
    PROVE  ask' \in [Locks -> AskState] /\ valid' \in [Locks -> BOOLEAN] /\ wire' \subseteq Requests
<1>1. CASE ~valid[l] /\ AskEnds(l, "lost") /\ UNCHANGED <<valid, wire>>
  BY <1>1, AskTypes DEF TypeOK
<1>2. CASE valid[l] /\ Age(l) < BUDGET /\ AskEnds(l, "ok") /\ UNCHANGED <<valid, wire>>
  BY <1>2, AskTypes DEF TypeOK
<1>3. CASE valid[l] /\ Age(l) >= TTL /\ AskEnds(l, "lost") /\ MarkLost(l)
  BY <1>3, AskTypes, EffectTypes
<1>4. CASE /\ Age(l) \in BUDGET..(TTL - 1)
           /\ ask' = [ask EXCEPT ![l] = [st |-> "asking", wake |-> mono[l] + (TTL - Age(l)),
                                 sent |-> Stamp(l), answer |-> "none", seen |-> confirmed[l]]]
           /\ wire' = wire \cup {<<"refresh", l>>}
           /\ UNCHANGED valid
  <2>1. mono[l] + (TTL - Age(l)) \in Nat
    BY <1>4 DEF TypeOK
  <2> QED
    BY <1>4, <2>1, StampTypes, SendTypes, RequestTypes DEF TypeOK
<1> QED
  BY <1>1, <1>2, <1>3, <1>4 DEF Look

LEMMA TypeStep == TypeOK /\ [Next]_vars => TypeOK'
<1> SUFFICES ASSUME TypeOK, [Next]_vars PROVE TypeOK'
  OBVIOUS
<1> USE DEF TypeOK, clocks, lease
<1>1. ASSUME NEW S \in SUBSET Suspending, Tick(S) PROVE TypeOK'
  BY <1>1 DEF Tick
<1>2. ASSUME NEW l \in Locks, NEW d \in WallSteps[l], SetWallClock(l, d) PROVE TypeOK'
  BY <1>2 DEF SetWallClock
<1>3. ASSUME NEW l \in Locks, ServePoll(l) PROVE TypeOK'
  BY <1>3, AnswerTypes DEF ServePoll, ServeAcquire, Granted
<1>4. ASSUME NEW l \in Locks, ServeKeepAlive(l) PROVE TypeOK'
  BY <1>4, AnswerTypes DEF ServeKeepAlive, ServeRefresh, Granted
<1>5. ASSUME NEW l \in Locks, ServeConfirm(l) PROVE TypeOK'
  BY <1>5, AnswerTypes DEF ServeConfirm, ServeRefresh, Granted
<1>6. ASSUME NEW l \in Locks, ServeUnawaited(l) PROVE TypeOK'
  BY <1>6 DEF ServeUnawaited, ServeAcquire, ServeRefresh, ServeRelease, Granted
<1>7. ASSUME NEW l \in Locks, Acquire(l) PROVE TypeOK'
  BY <1>7, StampTypes, SendTypes, RequestTypes DEF Acquire, StartPoll
<1>8. ASSUME NEW l \in Locks, PollGranted(l) PROVE TypeOK'
  BY <1>8, NoPollType, KeepIdleType, SentTypes DEF PollGranted
<1>9. ASSUME NEW l \in Locks, PollAgain(l) PROVE TypeOK'
  BY <1>9, StampTypes, SendTypes, RequestTypes DEF PollAgain, StartPoll
<1>10. ASSUME NEW l \in Locks, PollAbandoned(l) PROVE TypeOK'
  BY <1>10, NoPollType, RequestTypes DEF PollAbandoned
<1>11. ASSUME NEW l \in Locks, DropLock(l) PROVE TypeOK'
  BY <1>11, EffectTypes, AskIdleType DEF DropLock
<1>12. ASSUME NEW l \in Locks, KeepNotDue(l) PROVE TypeOK'
  BY <1>12, StampTypes, KeepIdleType DEF KeepNotDue, KeepWakes, KeepSleeps
<1>13. ASSUME NEW l \in Locks, KeepFindsLost(l) PROVE TypeOK'
  BY <1>13, EffectTypes, KeepTypes DEF KeepFindsLost, Alive
<1>14. ASSUME NEW l \in Locks, KeepFindsDropped(l) PROVE TypeOK'
  BY <1>14, KeepIdleType DEF KeepFindsDropped, KeepEnds
<1>15. ASSUME NEW l \in Locks, KeepSends(l) PROVE TypeOK'
  <2>1. mono[l] + (TTL - Age(l)) \in Nat
    BY <1>15, StampTypes DEF KeepSends
  <2>2. keep' \in [Locks -> KeepState]
    BY <1>15, <2>1, StampTypes, SendTypes DEF KeepSends
  <2>3. wire' \subseteq Requests
    BY <1>15, RequestTypes DEF KeepSends
  <2> QED
    BY <1>15, <2>2, <2>3 DEF KeepSends
<1>16. ASSUME NEW l \in Locks, KeepConfirmed(l) PROVE TypeOK'
  BY <1>16, EffectTypes, KeepTypes, SentTypes DEF KeepConfirmed, Recorded
<1>17. ASSUME NEW l \in Locks, KeepRefused(l) PROVE TypeOK'
  BY <1>17, EffectTypes, KeepTypes DEF KeepRefused
<1>18. ASSUME NEW l \in Locks, KeepUnanswered(l) PROVE TypeOK'
  BY <1>18, EffectTypes, KeepTypes DEF KeepUnanswered
<1>19. ASSUME NEW l \in Locks, Confirm(l) PROVE TypeOK'
  BY <1>19, LookTypes DEF Confirm
<1>20. ASSUME NEW l \in Locks, AskConfirmed(l) PROVE TypeOK'
  BY <1>20, AskIdleType, SentTypes DEF AskConfirmed, AskEnds, Recorded
<1>21. ASSUME NEW l \in Locks, AskRefused(l) PROVE TypeOK'
  BY <1>21, AskIdleType, RequestTypes DEF AskRefused, AskEnds, MarkLost
<1>22. ASSUME NEW l \in Locks, AskFails(l) PROVE TypeOK'
  <2>1. [AskIdle("pausing") EXCEPT !.wake = mono[l] + RETRY, !.seen = confirmed[l]] \in AskState
    <3>1. AskIdle("pausing") \in AskState /\ mono[l] + RETRY \in Nat /\ confirmed[l] \in Confirmation
      BY AskIdleType
    <3> QED
      BY <3>1, WaitTypes
  <2>2. ask' \in [Locks -> AskState]
    BY <1>22, <2>1, AskTypes DEF AskFails
  <2> QED
    BY <1>22, <2>2 DEF AskFails
<1>23. ASSUME NEW l \in Locks, AskLooksAgain(l) PROVE TypeOK'
  BY <1>23, LookTypes DEF AskLooksAgain
<1>24. ASSUME NEW l \in Locks, AskOvertaken(l) PROVE TypeOK'
  <2>1. CASE AskEnds(l, "lost") /\ UNCHANGED <<valid, wire>>
    BY <1>24, <2>1, AskTypes DEF AskOvertaken
  <2>2. CASE AskEnds(l, "ok") /\ UNCHANGED <<valid, wire>>
    BY <1>24, <2>2, AskTypes DEF AskOvertaken
  <2>3. CASE AskEnds(l, "lost") /\ MarkLost(l)
    BY <1>24, <2>3, AskTypes, EffectTypes DEF AskOvertaken
  <2>4. CASE /\ Age(l) \in BUDGET..(TTL - 1)
             /\ ask' = [ask EXCEPT ![l] = [@ EXCEPT !.wake = mono[l] + (TTL - Age(l)),
                                                    !.seen = confirmed[l]]]
             /\ UNCHANGED <<valid, wire>>
    <3>1. mono[l] + (TTL - Age(l)) \in Nat
      BY <2>4
    <3>2. ask' \in [Locks -> AskState]
      BY <2>4, <3>1, WaitTypes
    <3> QED
      BY <1>24, <2>4, <3>2 DEF AskOvertaken
  <2> QED
    BY <1>24, <2>1, <2>2, <2>3, <2>4 DEF AskOvertaken
<1>25. ASSUME NEW l \in Locks, ConfirmReturns(l) PROVE TypeOK'
  BY <1>25, AskIdleType DEF ConfirmReturns, AskEnds
<1>26. CASE UNCHANGED vars
  BY <1>26 DEF vars
<1> QED
  BY <1>1, <1>2, <1>3, <1>4, <1>5, <1>6, <1>7, <1>8, <1>9, <1>10, <1>11, <1>12, <1>13, <1>14, <1>15, <1>16, <1>17, <1>18, <1>19, <1>20, <1>21, <1>22, <1>23, <1>24, <1>25, <1>26
  DEF Next, Environment, Server, Client, KeepAlive, ConfirmCall

LEMMA AskSends ==
    ASSUME TypeOK, NEW l \in Locks, Look(l) \/ AskOvertaken(l) \/ AskFails(l), NEW m \in Locks
    PROVE  ask'[m].sent \in {ask[m].sent, NoStamp, Stamp(m)}
<1> USE DEF TypeOK, AskState
<1>1. CASE \E result : AskEnds(l, result)
  BY <1>1 DEF AskEnds, AskIdle
<1>2. CASE Look(l)
  <2>1. CASE ask' = [ask EXCEPT ![l] = [st |-> "asking", wake |-> mono[l] + (TTL - Age(l)),
                                  sent |-> Stamp(l), answer |-> "none", seen |-> confirmed[l]]]
    BY <2>1
  <2> QED
    BY <1>1, <1>2, <2>1 DEF Look
<1>3. CASE AskOvertaken(l)
  <2>1. CASE ask' = [ask EXCEPT ![l] = [@ EXCEPT !.wake = mono[l] + (TTL - Age(l)),
                                                 !.seen = confirmed[l]]]
    BY <2>1
  <2> QED
    BY <1>1, <1>3, <2>1 DEF AskOvertaken
<1>4. CASE AskFails(l)
  <2>1. CASE ask' = [ask EXCEPT ![l] = [AskIdle("pausing") EXCEPT !.wake = mono[l] + RETRY,
                                                                 !.seen = confirmed[l]]]
    BY <2>1 DEF AskIdle
  <2> QED
    BY <1>1, <1>4, <2>1 DEF AskFails
<1> QED
  BY <1>2, <1>3, <1>4

LEMMA KeepKeeps ==
    ASSUME TypeOK, NEW l \in Locks, KeepUnanswered(l), NEW m \in Locks
    PROVE  keep'[m].sent \in {keep[m].sent, NoStamp}
<1>1. CASE \E until : KeepSleeps(l, until)
  BY <1>1 DEF KeepSleeps, KeepIdle, TypeOK
<1> QED
  BY <1>1 DEF KeepUnanswered

LEMMA AskSendsCover ==
    ASSUME TypeOK, ClocksCover, UNCHANGED <<clocks, poll, confirmed, keep>>,
           \A m \in Locks : ask'[m].sent \in {ask[m].sent, NoStamp, Stamp(m)}
    PROVE  ClocksCover'
<1>1. ASSUME NEW m \in Locks PROVE AgeCovers(m, ask[m].sent)'
  <2>1. CASE ask'[m].sent = ask[m].sent
    BY <2>1 DEF ClocksCover, AgeCovers, clocks
  <2>2. CASE ask'[m].sent = NoStamp
    BY <2>2 DEF ClocksCover, AgeCovers, clocks
  <2>3. CASE ask'[m].sent = Stamp(m)
    BY <2>3 DEF TypeOK, AgeCovers, Stamp, clocks
  <2> QED
    BY <2>1, <2>2, <2>3
<1> QED
  BY <1>1 DEF ClocksCover, AgeCovers, clocks

LEMMA ClocksStep == TypeOK /\ ClocksCover /\ [Next]_vars => ClocksCover'
<1> SUFFICES ASSUME TypeOK, ClocksCover, [Next]_vars PROVE ClocksCover'
  OBVIOUS
<1> USE DEF TypeOK, ClocksCover, AgeCovers, NoStamp, Confirmation,
            PollState, KeepState, AskState, clocks, lease
<1>1. ASSUME NEW S \in SUBSET Suspending, Tick(S) PROVE ClocksCover'
  BY <1>1 DEF Tick
<1>2. ASSUME NEW l \in Locks, NEW d \in WallSteps[l], SetWallClock(l, d) PROVE ClocksCover'
  BY <1>2, ClockAssumption DEF SetWallClock

<1>3. ASSUME NEW l \in Locks, ServePoll(l) PROVE ClocksCover'
  BY <1>3 DEF ServePoll, ServeAcquire, Granted
<1>4. ASSUME NEW l \in Locks, ServeKeepAlive(l) PROVE ClocksCover'
  BY <1>4 DEF ServeKeepAlive, ServeRefresh, Granted
<1>5. ASSUME NEW l \in Locks, ServeConfirm(l) PROVE ClocksCover'
  BY <1>5 DEF ServeConfirm, ServeRefresh, Granted
<1>6. ASSUME NEW l \in Locks, ServeUnawaited(l) PROVE ClocksCover'
  BY <1>6 DEF ServeUnawaited, ServeAcquire, ServeRefresh, ServeRelease, Granted
<1>7. ASSUME NEW l \in Locks, Acquire(l) PROVE ClocksCover'
  BY <1>7 DEF Acquire, StartPoll, Stamp
<1>8. ASSUME NEW l \in Locks, PollGranted(l) PROVE ClocksCover'
  BY <1>8 DEF PollGranted, NoPoll, KeepIdle
<1>9. ASSUME NEW l \in Locks, PollAgain(l) PROVE ClocksCover'
  BY <1>9 DEF PollAgain, StartPoll, Stamp
<1>10. ASSUME NEW l \in Locks, PollAbandoned(l) PROVE ClocksCover'
  BY <1>10 DEF PollAbandoned, NoPoll
<1>11. ASSUME NEW l \in Locks, DropLock(l) PROVE ClocksCover'
  BY <1>11 DEF DropLock, DropLease, AskIdle
<1>12. ASSUME NEW l \in Locks, KeepNotDue(l) PROVE ClocksCover'
  BY <1>12 DEF KeepNotDue, KeepWakes, KeepSleeps, KeepIdle
<1>13. ASSUME NEW l \in Locks, KeepFindsLost(l) PROVE ClocksCover'
  BY <1>13 DEF KeepFindsLost, KeepEnds, KeepIdle, MarkLost
<1>14. ASSUME NEW l \in Locks, KeepFindsDropped(l) PROVE ClocksCover'
  BY <1>14 DEF KeepFindsDropped, KeepEnds, KeepIdle
<1>15. ASSUME NEW l \in Locks, KeepSends(l) PROVE ClocksCover'
  BY <1>15 DEF KeepSends, Stamp
<1>16. ASSUME NEW l \in Locks, KeepConfirmed(l) PROVE ClocksCover'
  BY <1>16 DEF KeepConfirmed, KeepSleeps, KeepIdle, LetGo, DropLease, Recorded
<1>17. ASSUME NEW l \in Locks, KeepRefused(l) PROVE ClocksCover'
  BY <1>17 DEF KeepRefused, KeepEnds, KeepIdle, MarkLost, DropLease
<1>18. ASSUME NEW l \in Locks, KeepUnanswered(l) PROVE ClocksCover'
  BY <1>18, KeepKeeps DEF KeepUnanswered
<1>19. ASSUME NEW l \in Locks, Confirm(l) PROVE ClocksCover'
  <2>1. \A m \in Locks : ask'[m].sent \in {ask[m].sent, NoStamp, Stamp(m)}
    BY <1>19, AskSends DEF Confirm
  <2>2. UNCHANGED <<clocks, poll, confirmed, keep>>
    BY <1>19 DEF Confirm
  <2> QED
    BY <2>1, <2>2, AskSendsCover
<1>20. ASSUME NEW l \in Locks, AskConfirmed(l) PROVE ClocksCover'
  BY <1>20 DEF AskConfirmed, AskEnds, AskIdle, Recorded
<1>21. ASSUME NEW l \in Locks, AskRefused(l) PROVE ClocksCover'
  BY <1>21 DEF AskRefused, AskEnds, AskIdle, MarkLost
<1>22. ASSUME NEW l \in Locks, AskFails(l) PROVE ClocksCover'
  <2>1. \A m \in Locks : ask'[m].sent \in {ask[m].sent, NoStamp, Stamp(m)}
    BY <1>22, AskSends
  <2>2. UNCHANGED <<clocks, poll, confirmed, keep>>
    BY <1>22 DEF AskFails
  <2> QED
    BY <2>1, <2>2, AskSendsCover
<1>23. ASSUME NEW l \in Locks, AskLooksAgain(l) PROVE ClocksCover'
  <2>1. \A m \in Locks : ask'[m].sent \in {ask[m].sent, NoStamp, Stamp(m)}
    BY <1>23, AskSends DEF AskLooksAgain
  <2>2. UNCHANGED <<clocks, poll, confirmed, keep>>
    BY <1>23 DEF AskLooksAgain
  <2> QED
    BY <2>1, <2>2, AskSendsCover
<1>24. ASSUME NEW l \in Locks, AskOvertaken(l) PROVE ClocksCover'
  <2>1. \A m \in Locks : ask'[m].sent \in {ask[m].sent, NoStamp, Stamp(m)}
    BY <1>24, AskSends
  <2>2. UNCHANGED <<clocks, poll, confirmed, keep>>
    BY <1>24 DEF AskOvertaken
  <2> QED
    BY <2>1, <2>2, AskSendsCover
<1>25. ASSUME NEW l \in Locks, ConfirmReturns(l) PROVE ClocksCover'
  BY <1>25 DEF ConfirmReturns, AskEnds, AskIdle
<1>26. CASE UNCHANGED vars
  BY <1>26 DEF vars
<1> QED
  BY <1>1, <1>2, <1>3, <1>4, <1>5, <1>6, <1>7, <1>8, <1>9, <1>10, <1>11, <1>12, <1>13, <1>14, <1>15, <1>16, <1>17, <1>18, <1>19, <1>20, <1>21, <1>22, <1>23, <1>24, <1>25, <1>26
  DEF Next, Environment, Server, Client, KeepAlive, ConfirmCall

LEMMA LookEffect ==
    ASSUME TypeOK, NEW l \in Locks, Look(l)
    PROVE  /\ \A m \in Locks : m # l => ask'[m] = ask[m]
           /\ \/ UNCHANGED <<valid, wire>>
              \/ MarkLost(l)
              \/ UNCHANGED valid /\ wire' = wire \cup {<<"refresh", l>>}
<1>1. \A m \in Locks : m # l => ask'[m] = ask[m]
  BY DEF TypeOK, Look, AskEnds
<1> QED
  BY <1>1 DEF Look

LEMMA LifecycleStep ==
    TypeOK /\ Lifecycle /\ ReleaseFreesNothingUsed /\ [Next]_vars
        => (Lifecycle /\ ReleaseFreesNothingUsed)'
<1> SUFFICES ASSUME TypeOK, Lifecycle, ReleaseFreesNothingUsed, [Next]_vars
             PROVE  (Lifecycle /\ ReleaseFreesNothingUsed)'
  OBVIOUS
<1> USE DEF TypeOK, Lifecycle, ReleaseFreesNothingUsed, KeepState, AskState, clocks, lease
<1>1. ASSUME NEW S \in SUBSET Suspending, Tick(S) PROVE (Lifecycle /\ ReleaseFreesNothingUsed)'
  BY <1>1 DEF Tick
<1>2. ASSUME NEW l \in Locks, NEW d \in WallSteps[l], SetWallClock(l, d)
      PROVE  (Lifecycle /\ ReleaseFreesNothingUsed)'
  BY <1>2 DEF SetWallClock

<1>3. ASSUME NEW l \in Locks, ServePoll(l) PROVE (Lifecycle /\ ReleaseFreesNothingUsed)'
  BY <1>3 DEF ServePoll, ServeAcquire, Granted
<1>4. ASSUME NEW l \in Locks, ServeKeepAlive(l) PROVE (Lifecycle /\ ReleaseFreesNothingUsed)'
  BY <1>4 DEF ServeKeepAlive, ServeRefresh, Granted
<1>5. ASSUME NEW l \in Locks, ServeConfirm(l) PROVE (Lifecycle /\ ReleaseFreesNothingUsed)'
  BY <1>5 DEF ServeConfirm, ServeRefresh, Granted
<1>6. ASSUME NEW l \in Locks, ServeUnawaited(l) PROVE (Lifecycle /\ ReleaseFreesNothingUsed)'
  BY <1>6 DEF ServeUnawaited, ServeAcquire, ServeRefresh, ServeRelease, Granted
<1>7. ASSUME NEW l \in Locks, Acquire(l) PROVE (Lifecycle /\ ReleaseFreesNothingUsed)'
  BY <1>7 DEF Acquire, StartPoll
<1>8. ASSUME NEW l \in Locks, PollGranted(l) PROVE (Lifecycle /\ ReleaseFreesNothingUsed)'
  BY <1>8 DEF PollGranted, NoPoll, KeepIdle
<1>9. ASSUME NEW l \in Locks, PollAgain(l) PROVE (Lifecycle /\ ReleaseFreesNothingUsed)'
  BY <1>9 DEF PollAgain, StartPoll
<1>10. ASSUME NEW l \in Locks, PollAbandoned(l) PROVE (Lifecycle /\ ReleaseFreesNothingUsed)'
  BY <1>10 DEF PollAbandoned, NoPoll
<1>11. ASSUME NEW l \in Locks, DropLock(l) PROVE (Lifecycle /\ ReleaseFreesNothingUsed)'
  BY <1>11, SMTT(30) DEF DropLock, DropLease, AskIdle
<1>12. ASSUME NEW l \in Locks, KeepNotDue(l) PROVE (Lifecycle /\ ReleaseFreesNothingUsed)'
  BY <1>12 DEF KeepNotDue, KeepWakes, KeepSleeps, KeepIdle
<1>13. ASSUME NEW l \in Locks, KeepFindsLost(l) PROVE (Lifecycle /\ ReleaseFreesNothingUsed)'
  BY <1>13 DEF KeepFindsLost, KeepEnds, KeepIdle, MarkLost, Alive, KeepWakes
<1>14. ASSUME NEW l \in Locks, KeepFindsDropped(l) PROVE (Lifecycle /\ ReleaseFreesNothingUsed)'
  BY <1>14 DEF KeepFindsDropped, KeepEnds, KeepIdle
<1>15. ASSUME NEW l \in Locks, KeepSends(l) PROVE (Lifecycle /\ ReleaseFreesNothingUsed)'
  BY <1>15 DEF KeepSends, Stamp, Alive, KeepWakes
<1>16. ASSUME NEW l \in Locks, KeepConfirmed(l) PROVE (Lifecycle /\ ReleaseFreesNothingUsed)'
  BY <1>16, SMTT(30) DEF KeepConfirmed, KeepSleeps, KeepIdle, LetGo, DropLease, Recorded
<1>17. ASSUME NEW l \in Locks, KeepRefused(l) PROVE (Lifecycle /\ ReleaseFreesNothingUsed)'
  <2>1. keep'[l].st = "done" /\ \A m \in Locks : m # l => keep'[m] = keep[m]
    BY <1>17 DEF KeepRefused, KeepEnds, KeepIdle
  <2>2. phase[l] = "held" /\ UNCHANGED <<users, ask>>
    BY <1>17 DEF KeepRefused
  <2>3. CASE users[l]
    <3>1. MarkLost(l) /\ UNCHANGED phase
      BY <1>17, <2>3 DEF KeepRefused
    <3> QED
      BY <2>1, <2>2, <3>1 DEF MarkLost
  <2>4. CASE ~users[l]
    <3>1. DropLease(l) /\ UNCHANGED valid
      BY <1>17, <2>4 DEF KeepRefused
    <3> QED
      BY <2>1, <2>2, <2>4, <3>1 DEF DropLease
  <2> QED
    BY <2>3, <2>4
<1>18. ASSUME NEW l \in Locks, KeepUnanswered(l) PROVE (Lifecycle /\ ReleaseFreesNothingUsed)'
  <2>1. \A m \in Locks : keep'[m].st = "asking" => m # l /\ keep[m].st = "asking"
    BY <1>18 DEF KeepUnanswered, KeepSleeps, KeepIdle
  <2>2. \A m \in Locks : m # l => keep'[m] = keep[m]
    BY <1>18 DEF KeepUnanswered, KeepSleeps
  <2>3. phase[l] = "held" /\ UNCHANGED <<valid, users, ask>>
    BY <1>18 DEF KeepUnanswered
  <2>4. CASE users[l]
    <3>1. UNCHANGED <<phase, wire>>
      BY <1>18, <2>4 DEF KeepUnanswered, LetGo
    <3> QED
      BY <2>1, <2>2, <2>3, <3>1
  <2>5. CASE ~users[l]
    <3>1. DropLease(l)
      BY <1>18, <2>5 DEF KeepUnanswered, LetGo
    <3> QED
      BY <2>1, <2>2, <2>3, <2>5, <3>1 DEF DropLease
  <2> QED
    BY <2>4, <2>5
<1>19. ASSUME NEW l \in Locks, Confirm(l) PROVE (Lifecycle /\ ReleaseFreesNothingUsed)'
  <2>1. phase[l] = "held" /\ users[l] /\ Look(l) /\ UNCHANGED <<phase, users, keep>>
    BY <1>19 DEF Confirm
  <2>2. \A m \in Locks : m # l => ask'[m] = ask[m]
    BY <2>1, LookEffect
  <2>3. CASE UNCHANGED <<valid, wire>>
    BY <2>1, <2>2, <2>3
  <2>4. CASE MarkLost(l)
    BY <2>1, <2>2, <2>4 DEF MarkLost
  <2>5. CASE UNCHANGED valid /\ wire' = wire \cup {<<"refresh", l>>}
    BY <2>1, <2>2, <2>5
  <2> QED
    BY <2>1, <2>3, <2>4, <2>5, LookEffect
<1>20. ASSUME NEW l \in Locks, AskConfirmed(l) PROVE (Lifecycle /\ ReleaseFreesNothingUsed)'
  BY <1>20 DEF AskConfirmed, AskEnds, AskIdle, Recorded
<1>21. ASSUME NEW l \in Locks, AskRefused(l) PROVE (Lifecycle /\ ReleaseFreesNothingUsed)'
  BY <1>21 DEF AskRefused, AskEnds, AskIdle, MarkLost
<1>22. ASSUME NEW l \in Locks, AskFails(l) PROVE (Lifecycle /\ ReleaseFreesNothingUsed)'
  BY <1>22 DEF AskFails, AskEnds, AskIdle
<1>23. ASSUME NEW l \in Locks, AskLooksAgain(l) PROVE (Lifecycle /\ ReleaseFreesNothingUsed)'
  <2>1. phase[l] = "held" /\ users[l] /\ Look(l) /\ UNCHANGED <<phase, users, keep>>
    BY <1>23 DEF AskLooksAgain
  <2>2. \A m \in Locks : m # l => ask'[m] = ask[m]
    BY <2>1, LookEffect
  <2>3. CASE UNCHANGED <<valid, wire>>
    BY <2>1, <2>2, <2>3
  <2>4. CASE MarkLost(l)
    BY <2>1, <2>2, <2>4 DEF MarkLost
  <2>5. CASE UNCHANGED valid /\ wire' = wire \cup {<<"refresh", l>>}
    BY <2>1, <2>2, <2>5
  <2> QED
    BY <2>1, <2>3, <2>4, <2>5, LookEffect
<1>24. ASSUME NEW l \in Locks, AskOvertaken(l) PROVE (Lifecycle /\ ReleaseFreesNothingUsed)'
  <2>1. \A m \in Locks : ask'[m].st # "none" => ask[m].st # "none"
    <3>1. ask[l].st # "none"
      BY <1>24 DEF AskOvertaken
    <3>2. \A m \in Locks : m # l => ask'[m] = ask[m]
      BY <1>24 DEF AskOvertaken, AskEnds
    <3> QED
      BY <3>1, <3>2
  <2>2. CASE UNCHANGED <<valid, wire>>
    BY <1>24, <2>1, <2>2 DEF AskOvertaken
  <2>3. CASE MarkLost(l)
    BY <1>24, <2>1, <2>3 DEF AskOvertaken, MarkLost
  <2> QED
    BY <1>24, <2>2, <2>3 DEF AskOvertaken
<1>25. ASSUME NEW l \in Locks, ConfirmReturns(l) PROVE (Lifecycle /\ ReleaseFreesNothingUsed)'
  BY <1>25 DEF ConfirmReturns, AskEnds, AskIdle
<1>26. CASE UNCHANGED vars
  BY <1>26 DEF vars
<1> QED
  BY <1>1, <1>2, <1>3, <1>4, <1>5, <1>6, <1>7, <1>8, <1>9, <1>10, <1>11, <1>12, <1>13, <1>14, <1>15, <1>16, <1>17, <1>18, <1>19, <1>20, <1>21, <1>22, <1>23, <1>24, <1>25, <1>26
  DEF Next, Environment, Server, Client, KeepAlive, ConfirmCall

LEMMA AgeBound ==
    ASSUME TypeOK, ClocksCover, NEW l \in Locks
    PROVE  Age(l) >= now - confirmed[l].real
  BY DEF TypeOK, ClocksCover, AgeCovers, Age, AgeOf, Confirmation

LEMMA TrustedStands ==
    ASSUME TypeOK, ClocksCover, NEW l \in Locks, phase[l] = "held", Trusted(l)
    PROVE  Standing(l)
  BY AgeBound, StampTypes DEF Trusted, Standing, TypeOK, Confirmation

LEMMA AskForgets ==
    ASSUME TypeOK, NEW l \in Locks, Look(l) \/ AskOvertaken(l) \/ AskFails(l), NEW m \in Locks
    PROVE  /\ ask'[m].st = "asking" /\ ask'[m].answer = "yes" =>
                 ask[m].st = "asking" /\ ask[m].answer = "yes" /\ ask'[m].sent = ask[m].sent
           /\ valid'[m] => valid[m]
<1> USE DEF TypeOK, AskState
<1> DEFINE Forgets ==
      ask'[m].st = "asking" /\ ask'[m].answer = "yes" =>
          ask[m].st = "asking" /\ ask[m].answer = "yes" /\ ask'[m].sent = ask[m].sent
<1>1. ASSUME NEW result \in {"ok", "lost", "error"}, AskEnds(l, result) PROVE Forgets
  BY <1>1 DEF AskEnds, AskIdle
<1>2. ASSUME MarkLost(l) PROVE valid'[m] => valid[m]
  BY <1>2 DEF MarkLost
<1>3. CASE Look(l)
  <2>1. ASSUME ask' = [ask EXCEPT ![l] = [st |-> "asking", wake |-> mono[l] + (TTL - Age(l)),
                                  sent |-> Stamp(l), answer |-> "none", seen |-> confirmed[l]]]
        PROVE  Forgets
    BY <2>1
  <2>2. Forgets
    BY <1>1, <1>3, <2>1 DEF Look
  <2>3. valid'[m] => valid[m]
    BY <1>2, <1>3 DEF Look
  <2> QED
    BY <2>2, <2>3
<1>4. CASE AskOvertaken(l)
  <2>1. ASSUME ask' = [ask EXCEPT ![l] = [@ EXCEPT !.wake = mono[l] + (TTL - Age(l)),
                                                 !.seen = confirmed[l]]]
        PROVE  Forgets
    BY <2>1
  <2>2. Forgets
    BY <1>1, <1>4, <2>1 DEF AskOvertaken
  <2>3. valid'[m] => valid[m]
    BY <1>2, <1>4 DEF AskOvertaken
  <2> QED
    BY <2>2, <2>3
<1>5. CASE AskFails(l)
  <2>1. ASSUME ask' = [ask EXCEPT ![l] = [AskIdle("pausing") EXCEPT !.wake = mono[l] + RETRY,
                                                                 !.seen = confirmed[l]]]
        PROVE  Forgets
    BY <2>1 DEF AskIdle
  <2>2. Forgets
    BY <1>1, <1>5, <2>1 DEF AskFails
  <2>3. valid'[m] => valid[m]
    BY <1>5 DEF AskFails, lease
  <2> QED
    BY <2>2, <2>3
<1> QED
  BY <1>3, <1>4, <1>5

LEMMA AskKeepsMatch ==
    ASSUME TypeOK, LeasesMatch, NEW l \in Locks, Look(l) \/ AskOvertaken(l) \/ AskFails(l),
           UNCHANGED <<clocks, server, phase, poll, confirmed, keep>>
    PROVE  LeasesMatch'
<1>1. \A m \in Locks :
         /\ ask'[m].st = "asking" /\ ask'[m].answer = "yes" =>
               ask[m].st = "asking" /\ ask[m].answer = "yes" /\ ask'[m].sent = ask[m].sent
         /\ valid'[m] => valid[m]
  BY AskForgets
<1> QED
  BY <1>1 DEF LeasesMatch, Standing, CountsOn, clocks

(* A lease the server can grant to l is nobody else's to count on *)
LEMMA NobodyElse ==
    ASSUME TypeOK, LeasesMatch, NEW l \in Locks, Unheld \/ Holds(l), NEW m \in Locks, m # l
    PROVE  /\ ~Standing(m)
           /\ ~(phase[m] = "polling" /\ poll[m].answer = "yes" /\ now < poll[m].sent.real + TTL)
<1> USE DEF TypeOK, LeasesMatch, Standing, CountsOn, Confirmation, PollState
<1>1. CASE Holds(l)
  BY <1>1 DEF Holds
<1>2. CASE Unheld
  BY <1>2 DEF Unheld
<1> QED
  BY <1>1, <1>2

(* What a step that processes a request of l, and answers it, leaves true  *)
Unharmed(l, answer) ==
    /\ \A m \in Locks :
          /\ Standing(m) => server'.holder = m
                            /\ server'.expires >= confirmed[m].real + TTL
          /\ Standing(m) /\ keep[m].st = "asking" /\ keep[m].answer = "yes"
                => server'.expires >= keep[m].sent.real + TTL
          /\ Standing(m) /\ ask[m].st = "asking" /\ ask[m].answer = "yes"
                => server'.expires >= ask[m].sent.real + TTL
          /\ phase[m] = "polling" /\ poll[m].answer = "yes" /\ now < poll[m].sent.real + TTL
                => server'.holder = m /\ server'.expires >= poll[m].sent.real + TTL
    /\ Standing(l) /\ answer = "yes" => server'.expires >= now + TTL

LEMMA GrantHarmsNobody ==
    ASSUME TypeOK, ClocksCover, LeasesMatch, NEW l \in Locks, NEW answer,
           Granted(l), Unheld \/ Holds(l)
    PROVE  Unharmed(l, answer) /\ server'.holder = l /\ server'.expires = now + TTL
<1>1. \A m \in Locks : m # l =>
         /\ ~Standing(m)
         /\ ~(phase[m] = "polling" /\ poll[m].answer = "yes" /\ now < poll[m].sent.real + TTL)
  BY NobodyElse
<1>2. server'.holder = l /\ server'.expires = now + TTL
  BY DEF Granted
<1>3. \A m \in Locks : /\ confirmed[m].real <= now /\ poll[m].sent.real <= now
                       /\ keep[m].sent.real <= now /\ ask[m].sent.real <= now
  BY DEF ClocksCover, AgeCovers
<1> QED
  BY <1>1, <1>2, <1>3 DEF Unharmed, TypeOK, Confirmation, PollState, KeepState, AskState

LEMMA NoGrantHarmsNobody ==
    ASSUME TypeOK, LeasesMatch, NEW l \in Locks, NEW answer,
           UNCHANGED server, answer = "no" \/ ~Holds(l)
    PROVE  Unharmed(l, answer)
<1>1. Standing(l) => Holds(l)
  BY DEF LeasesMatch, CountsOn, Standing, Holds, TypeOK, Confirmation
<1> QED
  BY <1>1 DEF Unharmed, LeasesMatch, CountsOn

LEMMA ServeHarmsNobody ==
    ASSUME TypeOK, ClocksCover, LeasesMatch, NEW l \in Locks, NEW answer,
           ServeAcquire(l, answer) \/ ServeRefresh(l, answer)
    PROVE  Unharmed(l, answer)
  BY GrantHarmsNobody, NoGrantHarmsNobody DEF ServeAcquire, ServeRefresh

LEMMA ServePollMatch ==
    ASSUME TypeOK, ClocksCover, Lifecycle, LeasesMatch, NEW l \in Locks, ServePoll(l)
    PROVE  LeasesMatch'
<1>1. PICK answer \in {"yes", "no"} :
         ServeAcquire(l, answer) /\ poll' = [poll EXCEPT ![l] = [@ EXCEPT !.answer = answer]]
  BY DEF ServePoll
<1>2. Unharmed(l, answer)
  BY <1>1, ServeHarmsNobody
<1>3. answer = "yes" => server'.holder = l /\ server'.expires = now + TTL
  BY <1>1, GrantHarmsNobody DEF ServeAcquire
<1>4. \A m \in Locks : /\ poll'[m].sent = poll[m].sent
                       /\ m # l => poll'[m].answer = poll[m].answer
                       /\ m = l => poll'[m].answer = answer
  BY <1>1 DEF TypeOK, PollState
<1>5. poll[l].sent.real <= now
  BY DEF ClocksCover, AgeCovers
<1> QED
  BY <1>2, <1>3, <1>4, <1>5
  DEF ServePoll, Unharmed, LeasesMatch, Standing, CountsOn, clocks, lease,
      TypeOK, PollState, Confirmation

LEMMA ServeKeepAliveMatch ==
    ASSUME TypeOK, ClocksCover, Lifecycle, LeasesMatch, NEW l \in Locks, ServeKeepAlive(l)
    PROVE  LeasesMatch'
<1>1. PICK answer \in {"yes", "no"} :
         ServeRefresh(l, answer) /\ keep' = [keep EXCEPT ![l] = [@ EXCEPT !.answer = answer]]
  BY DEF ServeKeepAlive
<1>2. Unharmed(l, answer)
  BY <1>1, ServeHarmsNobody
<1>3. \A m \in Locks : /\ keep'[m].sent = keep[m].sent /\ keep'[m].st = keep[m].st
                       /\ m # l => keep'[m].answer = keep[m].answer
                       /\ m = l => keep'[m].answer = answer
  BY <1>1 DEF TypeOK, KeepState
<1>4. keep[l].sent.real <= now
  BY DEF ClocksCover, AgeCovers
<1>5. UNCHANGED <<now, phase, poll, valid, confirmed, ask>>
  BY DEF ServeKeepAlive, clocks, lease
<1>6. ASSUME NEW m \in Locks, Standing(m), keep[m].st = "asking", keep'[m].answer = "yes"
      PROVE  server'.holder = m /\ server'.expires >= keep[m].sent.real + TTL
  <2>1. CASE m = l
    <3>1. server'.holder = l /\ server'.expires >= now + TTL
      BY <1>2, <1>3, <1>6, <2>1 DEF Unharmed
    <3>2. server'.expires \in Nat
      BY <1>1 DEF ServeRefresh, Granted, TypeOK
    <3> QED
      BY <1>4, <2>1, <3>1, <3>2 DEF TypeOK, KeepState, Confirmation
  <2>2. CASE m # l
    BY <1>2, <1>3, <1>6, <2>2 DEF Unharmed
  <2> QED
    BY <2>1, <2>2
<1> QED
  BY <1>2, <1>3, <1>5, <1>6 DEF Unharmed, LeasesMatch, Standing, CountsOn

LEMMA ServeConfirmMatch ==
    ASSUME TypeOK, ClocksCover, Lifecycle, LeasesMatch, NEW l \in Locks, ServeConfirm(l)
    PROVE  LeasesMatch'
<1>1. PICK answer \in {"yes", "no"} :
         ServeRefresh(l, answer) /\ ask' = [ask EXCEPT ![l] = [@ EXCEPT !.answer = answer]]
  BY DEF ServeConfirm
<1>2. Unharmed(l, answer)
  BY <1>1, ServeHarmsNobody
<1>3. \A m \in Locks : /\ ask'[m].sent = ask[m].sent /\ ask'[m].st = ask[m].st
                       /\ m # l => ask'[m].answer = ask[m].answer
                       /\ m = l => ask'[m].answer = answer
  BY <1>1 DEF TypeOK, AskState
<1>4. ask[l].sent.real <= now
  BY DEF ClocksCover, AgeCovers
<1>5. UNCHANGED <<now, phase, poll, valid, confirmed, keep>>
  BY DEF ServeConfirm, clocks, lease
<1>6. ASSUME NEW m \in Locks, Standing(m), ask[m].st = "asking", ask'[m].answer = "yes"
      PROVE  server'.holder = m /\ server'.expires >= ask[m].sent.real + TTL
  <2>1. CASE m = l
    <3>1. server'.holder = l /\ server'.expires >= now + TTL
      BY <1>2, <1>3, <1>6, <2>1 DEF Unharmed
    <3>2. server'.expires \in Nat
      BY <1>1 DEF ServeRefresh, Granted, TypeOK
    <3> QED
      BY <1>4, <2>1, <3>1, <3>2 DEF TypeOK, AskState, Confirmation
  <2>2. CASE m # l
    BY <1>2, <1>3, <1>6, <2>2 DEF Unharmed
  <2> QED
    BY <2>1, <2>2
<1> QED
  BY <1>2, <1>3, <1>5, <1>6 DEF Unharmed, LeasesMatch, Standing, CountsOn

LEMMA ServeUnawaitedMatch ==
    ASSUME TypeOK, ClocksCover, Lifecycle, ReleaseFreesNothingUsed, LeasesMatch,
           NEW l \in Locks, ServeUnawaited(l)
    PROVE  LeasesMatch'
<1>1. CASE \E answer \in {"yes", "no"} : ServeAcquire(l, answer) \/ ServeRefresh(l, answer)
  <2>1. PICK answer \in {"yes", "no"} : Unharmed(l, answer)
    BY <1>1, ServeHarmsNobody
  <2> QED
    BY <2>1 DEF ServeUnawaited, Unharmed, LeasesMatch, Standing, CountsOn, clocks, lease
<1>2. CASE <<"release", l>> \in wire /\ ServeRelease(l)
  <2>1. ~Standing(l) /\ phase[l] # "polling"
    BY <1>2 DEF ReleaseFreesNothingUsed, Standing, Lifecycle
  <2> QED
    BY <1>2, <2>1
    DEF ServeUnawaited, ServeRelease, LeasesMatch, Standing, CountsOn, clocks, lease, TypeOK
<1> QED
  BY <1>1, <1>2 DEF ServeUnawaited

LEMMA MatchStep ==
    TypeOK /\ ClocksCover /\ Lifecycle /\ ReleaseFreesNothingUsed /\ LeasesMatch /\ [Next]_vars
        => LeasesMatch'
<1> SUFFICES ASSUME TypeOK, ClocksCover, Lifecycle, ReleaseFreesNothingUsed, LeasesMatch,
                    [Next]_vars
             PROVE  LeasesMatch'
  OBVIOUS
<1> USE DEF TypeOK, Lifecycle, LeasesMatch, Standing, CountsOn, Confirmation,
            PollState, KeepState, AskState, clocks, lease
<1>1. ASSUME NEW S \in SUBSET Suspending, Tick(S) PROVE LeasesMatch'
  BY <1>1 DEF Tick
<1>2. ASSUME NEW l \in Locks, NEW d \in WallSteps[l], SetWallClock(l, d) PROVE LeasesMatch'
  BY <1>2 DEF SetWallClock

<1>3. ASSUME NEW l \in Locks, ServePoll(l) PROVE LeasesMatch'
  BY <1>3, ServePollMatch
<1>4. ASSUME NEW l \in Locks, ServeKeepAlive(l) PROVE LeasesMatch'
  BY <1>4, ServeKeepAliveMatch
<1>5. ASSUME NEW l \in Locks, ServeConfirm(l) PROVE LeasesMatch'
  BY <1>5, ServeConfirmMatch
<1>6. ASSUME NEW l \in Locks, ServeUnawaited(l) PROVE LeasesMatch'
  BY <1>6, ServeUnawaitedMatch
<1>7. ASSUME NEW l \in Locks, Acquire(l) PROVE LeasesMatch'
  BY <1>7 DEF Acquire, StartPoll
<1>8. ASSUME NEW l \in Locks, PollGranted(l) PROVE LeasesMatch'
  <2>1. \A m \in Locks : m # l =>
           /\ phase'[m] = phase[m] /\ confirmed'[m] = confirmed[m] /\ keep'[m] = keep[m]
           /\ poll'[m] = poll[m]
    BY <1>8 DEF PollGranted
  <2>2. /\ phase'[l] = "held" /\ confirmed'[l] = poll[l].sent
        /\ keep'[l].st = "sleeping" /\ phase[l] = "polling"
    BY <1>8 DEF PollGranted, KeepIdle
  <2>3. ask[l].st = "none" /\ ask' = ask
    BY <1>8 DEF PollGranted
  <2> QED
    BY <1>8, <2>1, <2>2, <2>3 DEF PollGranted
<1>9. ASSUME NEW l \in Locks, PollAgain(l) PROVE LeasesMatch'
  BY <1>9 DEF PollAgain, StartPoll
<1>10. ASSUME NEW l \in Locks, PollAbandoned(l) PROVE LeasesMatch'
  BY <1>10 DEF PollAbandoned, NoPoll
<1>11. ASSUME NEW l \in Locks, DropLock(l) PROVE LeasesMatch'
  BY <1>11 DEF DropLock, DropLease, AskIdle
<1>12. ASSUME NEW l \in Locks, KeepNotDue(l) PROVE LeasesMatch'
  BY <1>12 DEF KeepNotDue, KeepWakes, KeepSleeps, KeepIdle
<1>13. ASSUME NEW l \in Locks, KeepFindsLost(l) PROVE LeasesMatch'
  BY <1>13 DEF KeepFindsLost, KeepEnds, KeepIdle, MarkLost
<1>14. ASSUME NEW l \in Locks, KeepFindsDropped(l) PROVE LeasesMatch'
  BY <1>14 DEF KeepFindsDropped, KeepEnds, KeepIdle
<1>15. ASSUME NEW l \in Locks, KeepSends(l) PROVE LeasesMatch'
  BY <1>15 DEF KeepSends, Stamp
<1>16. ASSUME NEW l \in Locks, KeepConfirmed(l) PROVE LeasesMatch'
  BY <1>16, TrustedStands DEF KeepConfirmed, KeepSleeps, KeepIdle, LetGo, DropLease, Recorded
<1>17. ASSUME NEW l \in Locks, KeepRefused(l) PROVE LeasesMatch'
  BY <1>17 DEF KeepRefused, KeepEnds, KeepIdle, MarkLost, DropLease
<1>18. ASSUME NEW l \in Locks, KeepUnanswered(l) PROVE LeasesMatch'
  <2>1. \A m \in Locks : keep'[m].st = "asking" => keep'[m] = keep[m]
    BY <1>18 DEF KeepUnanswered, KeepSleeps, KeepIdle
  <2>2. \A m \in Locks : phase'[m] \in {phase[m], "gone"}
    BY <1>18 DEF KeepUnanswered, LetGo, DropLease
  <2> QED
    BY <1>18, <2>1, <2>2 DEF KeepUnanswered
<1>19. ASSUME NEW l \in Locks, Confirm(l) PROVE LeasesMatch'
  <2>1. Look(l) /\ UNCHANGED <<clocks, server, phase, poll, confirmed, keep>>
    BY <1>19 DEF Confirm
  <2> QED
    BY <2>1, AskKeepsMatch
<1>20. ASSUME NEW l \in Locks, AskConfirmed(l) PROVE LeasesMatch'
  BY <1>20, TrustedStands DEF AskConfirmed, AskEnds, AskIdle, Recorded
<1>21. ASSUME NEW l \in Locks, AskRefused(l) PROVE LeasesMatch'
  BY <1>21 DEF AskRefused, AskEnds, AskIdle, MarkLost
<1>22. ASSUME NEW l \in Locks, AskFails(l) PROVE LeasesMatch'
  <2>1. AskFails(l) /\ UNCHANGED <<clocks, server, phase, poll, confirmed, keep>>
    BY <1>22 DEF AskFails
  <2> QED
    BY <2>1, AskKeepsMatch
<1>23. ASSUME NEW l \in Locks, AskLooksAgain(l) PROVE LeasesMatch'
  <2>1. Look(l) /\ UNCHANGED <<clocks, server, phase, poll, confirmed, keep>>
    BY <1>23 DEF AskLooksAgain
  <2> QED
    BY <2>1, AskKeepsMatch
<1>24. ASSUME NEW l \in Locks, AskOvertaken(l) PROVE LeasesMatch'
  <2>1. AskOvertaken(l) /\ UNCHANGED <<clocks, server, phase, poll, confirmed, keep>>
    BY <1>24 DEF AskOvertaken
  <2> QED
    BY <2>1, AskKeepsMatch
<1>25. ASSUME NEW l \in Locks, ConfirmReturns(l) PROVE LeasesMatch'
  BY <1>25 DEF ConfirmReturns, AskEnds, AskIdle
<1>26. CASE UNCHANGED vars
  BY <1>26 DEF vars
<1> QED
  BY <1>1, <1>2, <1>3, <1>4, <1>5, <1>6, <1>7, <1>8, <1>9, <1>10, <1>11, <1>12, <1>13, <1>14, <1>15, <1>16, <1>17, <1>18, <1>19, <1>20, <1>21, <1>22, <1>23, <1>24, <1>25, <1>26
  DEF Next, Environment, Server, Client, KeepAlive, ConfirmCall

-----------------------------------------------------------------------------
LEMMA InitInvariant == Init => LeaseInvariant
<1> SUFFICES ASSUME Init PROVE LeaseInvariant
  OBVIOUS
<1>1. TypeOK
  BY NoPollType, KeepIdleType, AskIdleType DEF Init, TypeOK, Requests, NoStamp, Confirmation
<1>2. ClocksCover
  BY DEF Init, ClocksCover, AgeCovers, NoStamp, NoPoll, KeepIdle, AskIdle
<1>3. Lifecycle /\ ReleaseFreesNothingUsed /\ LeasesMatch
  BY DEF Init, Lifecycle, ReleaseFreesNothingUsed, LeasesMatch, Standing, KeepIdle, AskIdle
<1> QED
  BY <1>1, <1>2, <1>3 DEF LeaseInvariant

LEMMA StepInvariant == LeaseInvariant /\ [Next]_vars => LeaseInvariant'
  BY TypeStep, ClocksStep, LifecycleStep, MatchStep DEF LeaseInvariant

(* The client's picture of its lease and the server's agree in every       *)
(* reachable state, for any number of locks and any times and clocks       *)
THEOREM LeaseInvariantHolds == Spec => []LeaseInvariant
  BY InitInvariant, StepInvariant, PTL DEF Spec

(* Every reachable state is well typed *)
THEOREM TypeCorrect == Spec => []TypeOK
<1>1. LeaseInvariant => TypeOK
  BY DEF LeaseInvariant
<1> QED
  BY <1>1, LeaseInvariantHolds, PTL

LEMMA ValidStands ==
    ASSUME LeaseInvariant, NEW l \in Locks, IsValid(l)
    PROVE  Standing(l) /\ Holds(l) /\ server.expires - now > TTL - BUDGET
<1> USE DEF LeaseInvariant
<1>1. now - confirmed[l].real < BUDGET
  BY AgeBound, StampTypes DEF IsValid, TypeOK, Confirmation
<1>2. Standing(l)
  BY <1>1 DEF IsValid, Standing, TypeOK, Confirmation
<1> QED
  BY <1>1, <1>2 DEF LeasesMatch, CountsOn, Holds, TypeOK, Confirmation

(* is_valid reads true only while the server holds the lease, with the     *)
(* write margin left                                                       *)
THEOREM ValidLocksAreHeld == Spec => []ValidIsHeld
<1>1. LeaseInvariant => ValidIsHeld
  BY ValidStands DEF ValidIsHeld
<1> QED
  BY <1>1, LeaseInvariantHolds, PTL

(* No two locks on the resource are valid at once *)
THEOREM ValidLocksExclude == Spec => []MutualExclusion
<1>1. LeaseInvariant => MutualExclusion
  BY ValidStands DEF MutualExclusion, Holds
<1> QED
  BY <1>1, LeaseInvariantHolds, PTL

(* A release never frees a lease somebody relies on *)
THEOREM ReleasesAreSafe == Spec => []ReleaseFreesNothingUsed
<1>1. LeaseInvariant => ReleaseFreesNothingUsed
  BY DEF LeaseInvariant
<1> QED
  BY <1>1, LeaseInvariantHolds, PTL

-----------------------------------------------------------------------------
(* A held lock's confirmation changes, or its loss flag rises, only on an  *)
(* answer that is trusted                                                  *)
ConfirmsOnlyTrusted ==
    \A m \in Locks : phase[m] = "held" =>
        \/ Trusted(m)
        \/ confirmed'[m] = confirmed[m] /\ (valid'[m] => valid[m]) /\ now' >= now

LEMMA ConfirmationStep == TypeOK /\ [Next]_vars => ConfirmsOnlyTrusted
<1> SUFFICES ASSUME TypeOK, [Next]_vars PROVE ConfirmsOnlyTrusted
  OBVIOUS
<1> USE DEF TypeOK, ConfirmsOnlyTrusted, clocks, lease
<1>1. ASSUME NEW S \in SUBSET Suspending, Tick(S) PROVE ConfirmsOnlyTrusted
  BY <1>1 DEF Tick
<1>2. ASSUME NEW l \in Locks, NEW d \in WallSteps[l], SetWallClock(l, d) PROVE ConfirmsOnlyTrusted
  BY <1>2 DEF SetWallClock

<1>3. ASSUME NEW l \in Locks, ServePoll(l) PROVE ConfirmsOnlyTrusted
  BY <1>3 DEF ServePoll, ServeAcquire, Granted
<1>4. ASSUME NEW l \in Locks, ServeKeepAlive(l) PROVE ConfirmsOnlyTrusted
  BY <1>4 DEF ServeKeepAlive, ServeRefresh, Granted
<1>5. ASSUME NEW l \in Locks, ServeConfirm(l) PROVE ConfirmsOnlyTrusted
  BY <1>5 DEF ServeConfirm, ServeRefresh, Granted
<1>6. ASSUME NEW l \in Locks, ServeUnawaited(l) PROVE ConfirmsOnlyTrusted
  BY <1>6 DEF ServeUnawaited, ServeAcquire, ServeRefresh, ServeRelease, Granted
<1>7. ASSUME NEW l \in Locks, Acquire(l) PROVE ConfirmsOnlyTrusted
  BY <1>7 DEF Acquire, StartPoll
<1>8. ASSUME NEW l \in Locks, PollGranted(l) PROVE ConfirmsOnlyTrusted
  BY <1>8 DEF PollGranted, NoPoll, KeepIdle
<1>9. ASSUME NEW l \in Locks, PollAgain(l) PROVE ConfirmsOnlyTrusted
  BY <1>9 DEF PollAgain, StartPoll
<1>10. ASSUME NEW l \in Locks, PollAbandoned(l) PROVE ConfirmsOnlyTrusted
  BY <1>10 DEF PollAbandoned, NoPoll
<1>11. ASSUME NEW l \in Locks, DropLock(l) PROVE ConfirmsOnlyTrusted
  BY <1>11 DEF DropLock, DropLease, AskIdle
<1>12. ASSUME NEW l \in Locks, KeepNotDue(l) PROVE ConfirmsOnlyTrusted
  BY <1>12 DEF KeepNotDue, KeepWakes, KeepSleeps, KeepIdle
<1>13. ASSUME NEW l \in Locks, KeepFindsLost(l) PROVE ConfirmsOnlyTrusted
  BY <1>13 DEF KeepFindsLost, KeepEnds, KeepIdle, MarkLost
<1>14. ASSUME NEW l \in Locks, KeepFindsDropped(l) PROVE ConfirmsOnlyTrusted
  BY <1>14 DEF KeepFindsDropped, KeepEnds, KeepIdle
<1>15. ASSUME NEW l \in Locks, KeepSends(l) PROVE ConfirmsOnlyTrusted
  BY <1>15 DEF KeepSends, Stamp
<1>16. ASSUME NEW l \in Locks, KeepConfirmed(l) PROVE ConfirmsOnlyTrusted
  BY <1>16 DEF KeepConfirmed, KeepSleeps, KeepIdle, LetGo, DropLease, Recorded
<1>17. ASSUME NEW l \in Locks, KeepRefused(l) PROVE ConfirmsOnlyTrusted
  BY <1>17 DEF KeepRefused, KeepEnds, KeepIdle, MarkLost, DropLease
<1>18. ASSUME NEW l \in Locks, KeepUnanswered(l) PROVE ConfirmsOnlyTrusted
  BY <1>18 DEF KeepUnanswered, KeepSleeps, KeepIdle, LetGo, DropLease
<1>19. ASSUME NEW l \in Locks, Confirm(l) PROVE ConfirmsOnlyTrusted
  BY <1>19 DEF Confirm, Look, AskEnds, AskIdle, MarkLost, Stamp
<1>20. ASSUME NEW l \in Locks, AskConfirmed(l) PROVE ConfirmsOnlyTrusted
  BY <1>20 DEF AskConfirmed, AskEnds, AskIdle, Recorded
<1>21. ASSUME NEW l \in Locks, AskRefused(l) PROVE ConfirmsOnlyTrusted
  BY <1>21 DEF AskRefused, AskEnds, AskIdle, MarkLost
<1>22. ASSUME NEW l \in Locks, AskFails(l) PROVE ConfirmsOnlyTrusted
  BY <1>22 DEF AskFails, AskEnds, AskIdle
<1>23. ASSUME NEW l \in Locks, AskLooksAgain(l) PROVE ConfirmsOnlyTrusted
  BY <1>23 DEF AskLooksAgain, Look, AskEnds, AskIdle, MarkLost, Stamp
<1>24. ASSUME NEW l \in Locks, AskOvertaken(l) PROVE ConfirmsOnlyTrusted
  BY <1>24 DEF AskOvertaken, AskEnds, AskIdle, MarkLost
<1>25. ASSUME NEW l \in Locks, ConfirmReturns(l) PROVE ConfirmsOnlyTrusted
  BY <1>25 DEF ConfirmReturns, AskEnds, AskIdle
<1>26. CASE UNCHANGED vars
  BY <1>26 DEF vars
<1> QED
  BY <1>1, <1>2, <1>3, <1>4, <1>5, <1>6, <1>7, <1>8, <1>9, <1>10, <1>11, <1>12, <1>13, <1>14, <1>15, <1>16, <1>17, <1>18, <1>19, <1>20, <1>21, <1>22, <1>23, <1>24, <1>25, <1>26
  DEF Next, Environment, Server, Client, KeepAlive, ConfirmCall

(* A lease does not stand again *)
LEMMA NoRevival ==
    ASSUME LeaseInvariant, [Next]_vars, NEW l \in Locks, phase[l] = "held", Standing(l)'
    PROVE  Standing(l)
<1> USE DEF LeaseInvariant
<1>1. CASE Trusted(l)
  BY <1>1, TrustedStands
<1>2. CASE confirmed'[l] = confirmed[l] /\ (valid'[l] => valid[l]) /\ now' >= now
  BY <1>2, TypeStep DEF Standing, TypeOK, Confirmation
<1> QED
  BY <1>1, <1>2, ConfirmationStep DEF ConfirmsOnlyTrusted

(* A lapsed or lost lease never stands again *)
THEOREM LeasesLapseForGood == Spec => LapsedForGood
<1>1. LeaseInvariant /\ [Next]_vars =>
         [\A l \in Locks : phase[l] = "held" /\ ~Standing(l) => ~Standing(l)']_vars
  BY NoRevival
<1> QED
  BY <1>1, LeaseInvariantHolds, PTL DEF Spec, LapsedForGood

-----------------------------------------------------------------------------
(* confirm turns to Ok on an answer of the server or for a valid lock *)
OkOnlyConfirmed ==
    \A m \in Locks : ask[m].st # "ok" /\ ask'[m].st = "ok" =>
        \/ AskConfirmed(m)
        \/ IsValid(m) /\ UNCHANGED <<clocks, server, confirmed>>

LEMMA LookOk ==
    ASSUME TypeOK, NEW l \in Locks, phase[l] = "held", Look(l) \/ AskOvertaken(l) \/ AskFails(l),
           NEW m \in Locks, ask[m].st # "ok", ask'[m].st = "ok"
    PROVE  IsValid(m)
<1> USE DEF TypeOK, AskState
<1>1. m = l /\ AskEnds(l, "ok")
  <2>1. ASSUME NEW result \in {"lost", "error"}, AskEnds(l, result) PROVE FALSE
    BY <2>1 DEF AskEnds, AskIdle
  <2>2. ASSUME ask' = [ask EXCEPT ![l] = [st |-> "asking", wake |-> mono[l] + (TTL - Age(l)),
                                 sent |-> Stamp(l), answer |-> "none", seen |-> confirmed[l]]]
        PROVE  FALSE
    BY <2>2
  <2>3. ASSUME ask' = [ask EXCEPT ![l] = [@ EXCEPT !.wake = mono[l] + (TTL - Age(l)),
                                                   !.seen = confirmed[l]]]
        PROVE  FALSE
    BY <2>3
  <2>4. ASSUME ask' = [ask EXCEPT ![l] = [AskIdle("pausing") EXCEPT !.wake = mono[l] + RETRY,
                                                                   !.seen = confirmed[l]]]
        PROVE  FALSE
    BY <2>4 DEF AskIdle
  <2>5. AskEnds(l, "ok")
    BY <2>1, <2>2, <2>3, <2>4 DEF Look, AskOvertaken, AskFails
  <2> QED
    BY <2>5 DEF AskEnds
<1>2. ASSUME NEW result \in {"lost", "error"}, AskEnds(l, result) PROVE FALSE
  BY <1>1, <1>2 DEF AskEnds, AskIdle
<1>3. ask'[l].st = "ok"
  BY <1>1
<1>4. CASE Look(l)
  <2>1. ASSUME ask' = [ask EXCEPT ![l] = [st |-> "asking", wake |-> mono[l] + (TTL - Age(l)),
                                 sent |-> Stamp(l), answer |-> "none", seen |-> confirmed[l]]]
        PROVE  FALSE
    BY <2>1, <1>3
  <2>2. valid[l] /\ Age(l) < BUDGET
    BY <1>2, <1>4, <2>1 DEF Look
  <2> QED
    BY <1>1, <2>2 DEF IsValid
<1>5. CASE AskOvertaken(l)
  <2>1. ASSUME ask' = [ask EXCEPT ![l] = [@ EXCEPT !.wake = mono[l] + (TTL - Age(l)),
                                                   !.seen = confirmed[l]]]
        PROVE  FALSE
    BY <1>1, <2>1
  <2>2. valid[l] /\ Age(l) < BUDGET
    BY <1>2, <1>5, <2>1 DEF AskOvertaken
  <2> QED
    BY <1>1, <2>2 DEF IsValid
<1>6. CASE AskFails(l)
  <2>1. ASSUME ask' = [ask EXCEPT ![l] = [AskIdle("pausing") EXCEPT !.wake = mono[l] + RETRY,
                                                                   !.seen = confirmed[l]]]
        PROVE  FALSE
    BY <2>1, <1>3 DEF AskIdle
  <2> QED
    BY <1>2, <1>6, <2>1 DEF AskFails
<1> QED
  BY <1>4, <1>5, <1>6

LEMMA OkStep == TypeOK /\ Lifecycle /\ [Next]_vars => OkOnlyConfirmed
<1> SUFFICES ASSUME TypeOK, Lifecycle, [Next]_vars PROVE OkOnlyConfirmed
  OBVIOUS
<1> USE DEF TypeOK, AskState, OkOnlyConfirmed, clocks, lease
<1>1. ASSUME NEW S \in SUBSET Suspending, Tick(S) PROVE OkOnlyConfirmed
  BY <1>1 DEF Tick
<1>2. ASSUME NEW l \in Locks, NEW d \in WallSteps[l], SetWallClock(l, d) PROVE OkOnlyConfirmed
  BY <1>2 DEF SetWallClock

<1>3. ASSUME NEW l \in Locks, ServePoll(l) PROVE OkOnlyConfirmed
  BY <1>3 DEF ServePoll, ServeAcquire, Granted
<1>4. ASSUME NEW l \in Locks, ServeKeepAlive(l) PROVE OkOnlyConfirmed
  BY <1>4 DEF ServeKeepAlive, ServeRefresh, Granted
<1>5. ASSUME NEW l \in Locks, ServeConfirm(l) PROVE OkOnlyConfirmed
  <2>1. \A m \in Locks : ask'[m].st = ask[m].st
    BY <1>5 DEF ServeConfirm
  <2> QED
    BY <2>1
<1>6. ASSUME NEW l \in Locks, ServeUnawaited(l) PROVE OkOnlyConfirmed
  BY <1>6 DEF ServeUnawaited, ServeAcquire, ServeRefresh, ServeRelease, Granted
<1>7. ASSUME NEW l \in Locks, Acquire(l) PROVE OkOnlyConfirmed
  BY <1>7 DEF Acquire, StartPoll
<1>8. ASSUME NEW l \in Locks, PollGranted(l) PROVE OkOnlyConfirmed
  BY <1>8 DEF PollGranted, NoPoll, KeepIdle
<1>9. ASSUME NEW l \in Locks, PollAgain(l) PROVE OkOnlyConfirmed
  BY <1>9 DEF PollAgain, StartPoll
<1>10. ASSUME NEW l \in Locks, PollAbandoned(l) PROVE OkOnlyConfirmed
  BY <1>10 DEF PollAbandoned, NoPoll
<1>11. ASSUME NEW l \in Locks, DropLock(l) PROVE OkOnlyConfirmed
  BY <1>11 DEF DropLock, DropLease, AskIdle
<1>12. ASSUME NEW l \in Locks, KeepNotDue(l) PROVE OkOnlyConfirmed
  BY <1>12 DEF KeepNotDue, KeepWakes, KeepSleeps, KeepIdle
<1>13. ASSUME NEW l \in Locks, KeepFindsLost(l) PROVE OkOnlyConfirmed
  BY <1>13 DEF KeepFindsLost, KeepEnds, KeepIdle, MarkLost
<1>14. ASSUME NEW l \in Locks, KeepFindsDropped(l) PROVE OkOnlyConfirmed
  BY <1>14 DEF KeepFindsDropped, KeepEnds, KeepIdle
<1>15. ASSUME NEW l \in Locks, KeepSends(l) PROVE OkOnlyConfirmed
  BY <1>15 DEF KeepSends, Stamp
<1>16. ASSUME NEW l \in Locks, KeepConfirmed(l) PROVE OkOnlyConfirmed
  BY <1>16 DEF KeepConfirmed, KeepSleeps, KeepIdle, LetGo, DropLease, Recorded
<1>17. ASSUME NEW l \in Locks, KeepRefused(l) PROVE OkOnlyConfirmed
  BY <1>17 DEF KeepRefused, KeepEnds, KeepIdle, MarkLost, DropLease
<1>18. ASSUME NEW l \in Locks, KeepUnanswered(l) PROVE OkOnlyConfirmed
  BY <1>18 DEF KeepUnanswered, KeepSleeps, KeepIdle, LetGo, DropLease
<1>19. ASSUME NEW l \in Locks, Confirm(l) PROVE OkOnlyConfirmed
  <2>1. phase[l] = "held" /\ Look(l) /\ UNCHANGED <<clocks, server, confirmed>>
    BY <1>19 DEF Confirm, Lifecycle
  <2> QED
    BY <2>1, LookOk
<1>20. ASSUME NEW l \in Locks, AskConfirmed(l) PROVE OkOnlyConfirmed
  <2>1. \A m \in Locks : m # l => ask'[m] = ask[m]
    BY <1>20 DEF AskConfirmed, AskEnds
  <2> QED
    BY <1>20, <2>1
<1>21. ASSUME NEW l \in Locks, AskRefused(l) PROVE OkOnlyConfirmed
  BY <1>21 DEF AskRefused, AskEnds, AskIdle, MarkLost
<1>22. ASSUME NEW l \in Locks, AskFails(l) PROVE OkOnlyConfirmed
  <2>1. phase[l] = "held" /\ AskFails(l) /\ UNCHANGED <<clocks, server, confirmed>>
    BY <1>22 DEF AskFails, Lifecycle
  <2> QED
    BY <2>1, LookOk
<1>23. ASSUME NEW l \in Locks, AskLooksAgain(l) PROVE OkOnlyConfirmed
  <2>1. phase[l] = "held" /\ Look(l) /\ UNCHANGED <<clocks, server, confirmed>>
    BY <1>23 DEF AskLooksAgain, Lifecycle
  <2> QED
    BY <2>1, LookOk
<1>24. ASSUME NEW l \in Locks, AskOvertaken(l) PROVE OkOnlyConfirmed
  <2>1. phase[l] = "held" /\ AskOvertaken(l) /\ UNCHANGED <<clocks, server, confirmed>>
    BY <1>24 DEF AskOvertaken, Lifecycle
  <2> QED
    BY <2>1, LookOk
<1>25. ASSUME NEW l \in Locks, ConfirmReturns(l) PROVE OkOnlyConfirmed
  BY <1>25 DEF ConfirmReturns, AskEnds, AskIdle
<1>26. CASE UNCHANGED vars
  BY <1>26 DEF vars
<1> QED
  BY <1>1, <1>2, <1>3, <1>4, <1>5, <1>6, <1>7, <1>8, <1>9, <1>10, <1>11, <1>12, <1>13, <1>14, <1>15, <1>16, <1>17, <1>18, <1>19, <1>20, <1>21, <1>22, <1>23, <1>24, <1>25, <1>26
  DEF Next, Environment, Server, Client, KeepAlive, ConfirmCall

LEMMA AgeBoundNext ==
    ASSUME LeaseInvariant', NEW l \in Locks
    PROVE  Age(l)' >= now' - confirmed'[l].real /\ Age(l)' \in Int
  BY DEF LeaseInvariant, TypeOK, ClocksCover, AgeCovers, Age, AgeOf, Confirmation

(* When confirm returns Ok the server holds the lease, and with the write  *)
(* margin left unless the answer itself took longer than the budget        *)
THEOREM ConfirmedLocksAreHeld == Spec => ConfirmMeansHeld
<1>1. LeaseInvariant /\ [Next]_vars =>
         [\A l \in Locks : ask[l].st # "ok" /\ ask'[l].st = "ok" =>
             /\ Holds(l)'
             /\ Age(l)' < BUDGET => (server.expires - now)' > TTL - BUDGET]_vars
  <2> SUFFICES ASSUME LeaseInvariant, [Next]_vars,
                      NEW l \in Locks, ask[l].st # "ok", ask'[l].st = "ok"
               PROVE  /\ Holds(l)'
                      /\ Age(l)' < BUDGET => (server.expires - now)' > TTL - BUDGET
    OBVIOUS
  <2>1. CASE IsValid(l) /\ UNCHANGED <<clocks, server, confirmed>>
    BY <2>1, ValidStands DEF Holds, clocks
  <2>2. CASE AskConfirmed(l)
    <3>1. /\ phase[l] = "held" /\ Trusted(l) /\ ask[l].st = "asking" /\ ask[l].answer = "yes"
          /\ UNCHANGED <<now, mono, wall, server>>
          /\ confirmed'[l] \in {confirmed[l], ask[l].sent}
      BY <2>2 DEF AskConfirmed, Recorded, LeaseInvariant, Lifecycle, clocks, TypeOK
    <3>2. /\ Standing(l) /\ CountsOn(l, confirmed[l]) /\ CountsOn(l, ask[l].sent)
      BY <3>1, TrustedStands DEF LeaseInvariant, LeasesMatch
    <3>3. server'.expires >= confirmed'[l].real + TTL
      BY <3>1, <3>2 DEF CountsOn
    <3>4. Holds(l)'
      BY <3>1, <3>2 DEF Holds, CountsOn, Standing, LeaseInvariant, TypeOK, Confirmation
    <3>5. LeaseInvariant'
      BY StepInvariant
    <3>6. Age(l)' >= now' - confirmed'[l].real
      BY <3>5, AgeBoundNext
    <3>7. Age(l)' \in Int /\ now' \in Int /\ confirmed'[l].real \in Int /\ server'.expires \in Int
      BY <3>5, AgeBoundNext DEF LeaseInvariant, TypeOK, Confirmation
    <3> QED
      BY <3>3, <3>4, <3>6, <3>7
  <2> QED
    BY <2>1, <2>2, OkStep DEF OkOnlyConfirmed, LeaseInvariant
<1> QED
  BY <1>1, LeaseInvariantHolds, PTL DEF Spec, ConfirmMeansHeld

-----------------------------------------------------------------------------
(* The leases as tenancies. *)

Outcomes == [idle |-> {"polling"}, polling |-> {"polling", "held", "gone"},
             held |-> {"gone"}, gone |-> {}]

(* The lock l goes on in its life, with no clock and no other lock touched *)
Turns(l) ==
    /\ phase'[l] \in Outcomes[phase[l]]
    /\ UNCHANGED <<now, mono, wall>>
    /\ \A m \in Locks \ {l} : /\ phase'[m] = phase[m] /\ valid'[m] = valid[m]
                              /\ confirmed'[m] = confirmed[m]

OnePhase == UNCHANGED phase \/ \E l \in Locks : Turns(l)

LEMMA PhaseStep == TypeOK /\ Lifecycle /\ [Next]_vars => OnePhase
<1> SUFFICES ASSUME TypeOK, Lifecycle, [Next]_vars PROVE OnePhase
  OBVIOUS
<1> USE DEF TypeOK, OnePhase, clocks, lease
<1>1. ASSUME NEW S \in SUBSET Suspending, Tick(S) PROVE OnePhase
  BY <1>1 DEF Tick
<1>2. ASSUME NEW l \in Locks, NEW d \in WallSteps[l], SetWallClock(l, d) PROVE OnePhase
  BY <1>2 DEF SetWallClock

<1>3. ASSUME NEW l \in Locks, ServePoll(l) PROVE OnePhase
  BY <1>3 DEF ServePoll, ServeAcquire, Granted
<1>4. ASSUME NEW l \in Locks, ServeKeepAlive(l) PROVE OnePhase
  BY <1>4 DEF ServeKeepAlive, ServeRefresh, Granted
<1>5. ASSUME NEW l \in Locks, ServeConfirm(l) PROVE OnePhase
  BY <1>5 DEF ServeConfirm, ServeRefresh, Granted
<1>6. ASSUME NEW l \in Locks, ServeUnawaited(l) PROVE OnePhase
  BY <1>6 DEF ServeUnawaited, ServeAcquire, ServeRefresh, ServeRelease, Granted
<1>7. ASSUME NEW l \in Locks, Acquire(l) PROVE OnePhase
  <2>1. Turns(l)
    BY <1>7 DEF Acquire, StartPoll, Turns, Outcomes
  <2> QED
    BY <2>1
<1>8. ASSUME NEW l \in Locks, PollGranted(l) PROVE OnePhase
  <2>1. Turns(l)
    BY <1>8 DEF PollGranted, NoPoll, KeepIdle, Turns, Outcomes
  <2> QED
    BY <2>1
<1>9. ASSUME NEW l \in Locks, PollAgain(l) PROVE OnePhase
  <2>1. Turns(l)
    BY <1>9 DEF PollAgain, StartPoll, Turns, Outcomes
  <2> QED
    BY <2>1
<1>10. ASSUME NEW l \in Locks, PollAbandoned(l) PROVE OnePhase
  <2>1. Turns(l)
    BY <1>10 DEF PollAbandoned, NoPoll, Turns, Outcomes
  <2> QED
    BY <2>1
<1>11. ASSUME NEW l \in Locks, DropLock(l) PROVE OnePhase
  <2>1. UNCHANGED phase \/ Turns(l)
    BY <1>11 DEF DropLock, DropLease, AskIdle, Turns, Outcomes
  <2> QED
    BY <2>1
<1>12. ASSUME NEW l \in Locks, KeepNotDue(l) PROVE OnePhase
  BY <1>12 DEF KeepNotDue, KeepWakes, KeepSleeps, KeepIdle
<1>13. ASSUME NEW l \in Locks, KeepFindsLost(l) PROVE OnePhase
  BY <1>13 DEF KeepFindsLost, KeepEnds, KeepIdle, MarkLost
<1>14. ASSUME NEW l \in Locks, KeepFindsDropped(l) PROVE OnePhase
  BY <1>14 DEF KeepFindsDropped, KeepEnds, KeepIdle
<1>15. ASSUME NEW l \in Locks, KeepSends(l) PROVE OnePhase
  BY <1>15 DEF KeepSends, Stamp
<1>16. ASSUME NEW l \in Locks, KeepConfirmed(l) PROVE OnePhase
  <2>1. phase[l] = "held"
    BY <1>16 DEF KeepConfirmed, Lifecycle
  <2>2. \/ UNCHANGED phase
        \/ phase' = [phase EXCEPT ![l] = "gone"] /\ UNCHANGED <<now, mono, wall>>
    BY <1>16 DEF KeepConfirmed, LetGo, DropLease
  <2>3. \A m \in Locks \ {l} : valid'[m] = valid[m] /\ confirmed'[m] = confirmed[m]
    BY <1>16 DEF KeepConfirmed, LetGo, DropLease
  <2>4. UNCHANGED phase \/ Turns(l)
    BY <2>1, <2>2, <2>3 DEF Turns, Outcomes
  <2> QED
    BY <2>4
<1>17. ASSUME NEW l \in Locks, KeepRefused(l) PROVE OnePhase
  <2>1. phase[l] = "held"
    BY <1>17 DEF KeepRefused, Lifecycle
  <2>2. \/ UNCHANGED phase
        \/ phase' = [phase EXCEPT ![l] = "gone"] /\ UNCHANGED <<now, mono, wall>>
    BY <1>17 DEF KeepRefused, MarkLost, DropLease
  <2>3. \A m \in Locks \ {l} : valid'[m] = valid[m] /\ confirmed'[m] = confirmed[m]
    BY <1>17 DEF KeepRefused, MarkLost, DropLease
  <2>4. UNCHANGED phase \/ Turns(l)
    BY <2>1, <2>2, <2>3 DEF Turns, Outcomes
  <2> QED
    BY <2>4
<1>18. ASSUME NEW l \in Locks, KeepUnanswered(l) PROVE OnePhase
  <2>1. phase[l] = "held"
    BY <1>18 DEF KeepUnanswered, Lifecycle
  <2>2. \/ UNCHANGED phase
        \/ phase' = [phase EXCEPT ![l] = "gone"] /\ UNCHANGED <<now, mono, wall>>
    BY <1>18 DEF KeepUnanswered, LetGo, DropLease
  <2>3. \A m \in Locks \ {l} : valid'[m] = valid[m] /\ confirmed'[m] = confirmed[m]
    BY <1>18 DEF KeepUnanswered, LetGo, DropLease
  <2>4. UNCHANGED phase \/ Turns(l)
    BY <2>1, <2>2, <2>3 DEF Turns, Outcomes
  <2> QED
    BY <2>4
<1>19. ASSUME NEW l \in Locks, Confirm(l) PROVE OnePhase
  BY <1>19 DEF Confirm, Look, AskEnds, AskIdle, MarkLost, Stamp
<1>20. ASSUME NEW l \in Locks, AskConfirmed(l) PROVE OnePhase
  BY <1>20 DEF AskConfirmed, AskEnds, AskIdle, Recorded
<1>21. ASSUME NEW l \in Locks, AskRefused(l) PROVE OnePhase
  BY <1>21 DEF AskRefused, AskEnds, AskIdle, MarkLost
<1>22. ASSUME NEW l \in Locks, AskFails(l) PROVE OnePhase
  BY <1>22 DEF AskFails, AskEnds, AskIdle
<1>23. ASSUME NEW l \in Locks, AskLooksAgain(l) PROVE OnePhase
  BY <1>23 DEF AskLooksAgain, Look, AskEnds, AskIdle, MarkLost, Stamp
<1>24. ASSUME NEW l \in Locks, AskOvertaken(l) PROVE OnePhase
  BY <1>24 DEF AskOvertaken, AskEnds, AskIdle, MarkLost
<1>25. ASSUME NEW l \in Locks, ConfirmReturns(l) PROVE OnePhase
  BY <1>25 DEF ConfirmReturns, AskEnds, AskIdle
<1>26. CASE UNCHANGED vars
  BY <1>26 DEF vars
<1> QED
  BY <1>1, <1>2, <1>3, <1>4, <1>5, <1>6, <1>7, <1>8, <1>9, <1>10, <1>11, <1>12, <1>13, <1>14, <1>15, <1>16, <1>17, <1>18, <1>19, <1>20, <1>21, <1>22, <1>23, <1>24, <1>25, <1>26
  DEF Next, Environment, Server, Client, KeepAlive, ConfirmCall

Tenants == {l \in Locks : Standing(l)}
Using   == {l \in Locks : IsValid(l)}
Over    == {l \in Locks : phase[l] \in {"held", "gone"} /\ ~Standing(l)}

(* At most one lease stands, and only that one is in use *)
OneTenancy == Using \subseteq Tenants /\ \A l, m \in Tenants : l = m

LEMMA OneTenant == LeaseInvariant => OneTenancy
  BY ValidStands DEF OneTenancy, Tenants, Using, LeaseInvariant, LeasesMatch, CountsOn

LEMMA OneTenantNext == LeaseInvariant' => OneTenancy'
  BY OneTenant, PTL

(* A step in which no lock goes on in its life: the tenant stays or goes *)
LEMMA SamePhaseFenced ==
    ASSUME LeaseInvariant, LeaseInvariant', [Next]_vars, UNCHANGED phase
    PROVE  \/ UNCHANGED <<Tenants, Using, Over>>
           \/ Tenants # {} /\ Using' \in {{}, Tenants} /\ UNCHANGED <<Tenants, Over>>
           \/ Tenants # {} /\ Tenants' = {} /\ Using' = {} /\ Over' = Over \cup Tenants
<1>1. /\ Using \subseteq Tenants /\ \A l, m \in Tenants : l = m
      /\ Using' \subseteq Tenants' /\ \A l, m \in Tenants' : l = m
  BY OneTenant, OneTenantNext DEF OneTenancy
<1>2. Tenants' \subseteq Tenants
  BY NoRevival DEF Tenants, Standing
<1>3. CASE Tenants' = Tenants
  <2>1. Over' = Over
    BY <1>3 DEF Over, Tenants
  <2>2. Using' \in {{}, Tenants}
    BY <1>1, <1>3
  <2>3. Tenants = {} => Using' = Using
    BY <1>1, <1>3
  <2> QED
    BY <1>3, <2>1, <2>2, <2>3
<1>4. CASE Tenants' # Tenants
  <2>1. Tenants # {} /\ Tenants' = {} /\ Using' = {}
    BY <1>1, <1>2, <1>4
  <2>2. Over' = Over \cup Tenants
    BY <2>1 DEF Over, Tenants, Standing
  <2> QED
    BY <2>1, <2>2
<1> QED
  BY <1>3, <1>4

(* A step in which l goes on in its life: it is admitted, rejected or, as  *)
(* the tenant, evicted                                                     *)
LEMMA TurnFenced ==
    ASSUME LeaseInvariant, LeaseInvariant', [Next]_vars, NEW l \in Locks, Turns(l)
    PROVE  \/ UNCHANGED <<Tenants, Using, Over>>
           \/ Tenants # {} /\ Tenants' = {} /\ Using' = {} /\ Over' = Over \cup Tenants
           \/ /\ Tenants = {} /\ l \notin Over
              /\ Tenants' = {l} /\ Using' \in {{}, {l}} /\ UNCHANGED Over
           \/ /\ l \notin Tenants \cup Over
              /\ Over' = Over \cup {l} /\ UNCHANGED <<Tenants, Using>>
<1>1. /\ Using \subseteq Tenants /\ \A m, n \in Tenants : m = n
      /\ Using' \subseteq Tenants' /\ \A m, n \in Tenants' : m = n
  BY OneTenant, OneTenantNext DEF OneTenancy
<1>2. \A m \in Locks \ {l} : /\ m \in Tenants' <=> m \in Tenants
                             /\ m \in Using' <=> m \in Using
                             /\ m \in Over' <=> m \in Over
  BY DEF Turns, Tenants, Using, Over, Standing, IsValid, Age, AgeOf
<1>3. /\ Tenants \subseteq Locks /\ Using \subseteq Locks /\ Over \subseteq Locks
      /\ Tenants' \subseteq Locks /\ Using' \subseteq Locks /\ Over' \subseteq Locks
  BY DEF Tenants, Using, Over
<1>4. CASE phase[l] \in {"idle", "polling"} /\ phase'[l] = "polling"
  <2>1. l \notin Tenants \cup Over /\ l \notin Tenants' \cup Over'
    BY <1>4 DEF Tenants, Over, Standing
  <2> QED
    BY <1>1, <1>2, <1>3, <2>1
<1>5. CASE phase[l] = "polling" /\ phase'[l] \in {"held", "gone"}
  <2>1. l \notin Tenants \cup Over
    BY <1>5 DEF Tenants, Over, Standing
  <2>2. (l \in Tenants' /\ l \notin Over') \/ (l \notin Tenants' /\ l \in Over')
    BY <1>5 DEF Tenants, Over, Standing
  <2>3. CASE l \in Tenants' /\ l \notin Over'
    <3>1. Tenants' = {l}
      BY <1>1, <1>3, <2>3
    <3>2. Tenants = {}
      BY <1>2, <1>3, <2>1, <3>1
    <3>3. Over' = Over /\ Using' \in {{}, {l}}
      BY <1>1, <1>2, <1>3, <2>1, <2>3, <3>1
    <3> QED
      BY <2>1, <3>1, <3>2, <3>3
  <2>4. CASE l \notin Tenants' /\ l \in Over'
    <3>1. UNCHANGED <<Tenants, Using>>
      BY <1>1, <1>2, <1>3, <2>1, <2>4
    <3>2. Over' = Over \cup {l}
      BY <1>2, <1>3, <2>4
    <3> QED
      BY <2>1, <3>1, <3>2
  <2> QED
    BY <2>2, <2>3, <2>4
<1>6. CASE phase[l] = "held" /\ phase'[l] = "gone"
  <2>1. l \notin Tenants' /\ l \in Over'
    BY <1>6 DEF Tenants, Over, Standing
  <2>2. CASE l \in Tenants
    <3>1. Tenants = {l} /\ Tenants' = {} /\ Using' = {}
      BY <1>1, <1>2, <1>3, <2>1, <2>2
    <3>2. Over' = Over \cup {l}
      BY <1>2, <1>3, <2>1
    <3> QED
      BY <3>1, <3>2
  <2>3. CASE l \notin Tenants
    <3>1. l \in Over
      BY <1>6, <2>3 DEF Tenants, Over
    <3> QED
      BY <1>1, <1>2, <1>3, <2>1, <2>3, <3>1
  <2> QED
    BY <2>2, <2>3
<1>7. phase[l] \in {"idle", "polling", "held", "gone"}
  BY DEF LeaseInvariant, TypeOK
<1> QED
  BY <1>4, <1>5, <1>6, <1>7 DEF Turns, Outcomes

(* Seen as tenancies, the leases keep what module FencedUse promises: one  *)
(* tenant at a time, the only one in use, and no tenancy comes back.  The  *)
(* lock protocol implements it step by step (acquire_lock, refresh_loop,   *)
(* confirm, Drop for SharedLease).                                         *)
THEOREM LeasesImplementFencedUse == Spec => LeasesAreFenced
<1>1. Init => Fenced!Init
  BY DEF Init, Fenced!Init, Standing, IsValid
<1>2. LeaseInvariant /\ LeaseInvariant' /\ [Next]_vars =>
        [Fenced!Next]_<<{l \in Locks : Standing(l)}, {l \in Locks : IsValid(l)},
            {l \in Locks : phase[l] \in {"held", "gone"} /\ ~Standing(l)}>>
  <2> SUFFICES ASSUME LeaseInvariant, LeaseInvariant', [Next]_vars
               PROVE  [Fenced!Next]_<<Tenants, Using, Over>>
    BY DEF Tenants, Using, Over
  <2>1. CASE UNCHANGED phase
    BY <2>1, SamePhaseFenced
    DEF Tenants, Using, Over, Fenced!Next, Fenced!PauseOrResume, Fenced!Evict
  <2>2. ASSUME NEW l \in Locks, Turns(l)
        PROVE  [Fenced!Next]_<<Tenants, Using, Over>>
    BY <2>2, TurnFenced
    DEF Tenants, Using, Over, Fenced!Next, Fenced!Evict, Fenced!Admit, Fenced!Reject
  <2> QED
    BY <2>1, <2>2, PhaseStep DEF OnePhase, LeaseInvariant
<1> QED
  BY <1>1, <1>2, LeaseInvariantHolds, PTL DEF Spec, LeasesAreFenced, Fenced!Spec
=============================================================================
