--------------------------- MODULE ReviewLoopProofs ---------------------------
(***************************************************************************)
(* What holds of the review loop for any sessions, requests and polls.     *)
(***************************************************************************)
EXTENDS ReviewLoop, SelectionProofs, FiniteSetTheorems, TLAPS

USE DEF sessionVars, presenceVars, pollVars

LEMMA TypeInit == Init => TypeOK
  BY ReviewLoopAssumption DEF Init, TypeOK, Status, CallState, PollState, Answer, Nothing

LEMMA AnswerType ==
  ASSUME NEW a \in Answer
  PROVE  /\ [a EXCEPT !.ended = TRUE] \in Answer
         /\ [a EXCEPT !.timedOut = TRUE] \in Answer
         /\ [a EXCEPT !.ended = TRUE].feedback = a.feedback
         /\ [a EXCEPT !.timedOut = TRUE].feedback = a.feedback
  BY DEF Answer

LEMMA ThreadType ==
  ASSUME TypeOK, NEW k \in Keys, NEW who \in Feedback \union Polls,
         appendConversation(k, who)
  PROVE  thread' \in [Keys -> Seq(Feedback \union Polls)]
  <1> DEFINE Speakers == Feedback \union Polls
  <1>1. thread \in [Keys -> Seq(Speakers)] /\ who \in Speakers
    BY DEF TypeOK
  <1> HIDE DEF Speakers
  <1>2. Append(thread[k], who) \in Seq(Speakers)
    BY <1>1
  <1>3. thread' \in [Keys -> Seq(Speakers)]
    BY <1>1, <1>2 DEF appendConversation
  <1> QED BY <1>3 DEF Speakers

\* Signals stay natural numbers, and a closing scope keeps the poll variables typed.
LEMMA WakeType ==
  ASSUME TypeOK, NEW h \in Calls, publishIfEnd(h)
  PROVE  signals' \in [Polls -> Nat]
  <1>1. CASE h \in Ends
    <2>1. publishWake(SessionOf[h])
      BY <1>1 DEF publishIfEnd
    <2>2. signals \in [Polls -> Nat]
      BY DEF TypeOK
    <2> QED BY <2>1, <2>2 DEF publishWake
  <1>2. CASE h \notin Ends
    BY <1>2 DEF TypeOK, publishIfEnd
  <1> QED BY <1>1, <1>2

LEMMA CloseType ==
  ASSUME TypeOK, NEW p \in Polls, NEW next \in PollState, NEW d \in BOOLEAN,
         closePoll(p, next, d)
  PROVE  /\ poll' \in [Polls -> PollState]
         /\ signals' \in [Polls -> Nat]
         /\ openPolls' \in [Keys -> Nat]
         /\ lastDelivery' \in [Keys -> BOOLEAN]
  <1>1. SessionOf[p] \in Keys
    BY ReviewLoopAssumption
  <1>2. openPolls' \in [Keys -> Nat]
    BY <1>1 DEF TypeOK, closePoll, exitPoll
  <1> QED BY <1>1, <1>2 DEF TypeOK, closePoll, exitPoll

LEMMA TypeStep == TypeOK /\ [Next]_vars => TypeOK'
  <1> SUFFICES ASSUME TypeOK, [Next]_vars PROVE TypeOK'
    OBVIOUS
  <1> USE ReviewLoopAssumption DEF TypeOK, Status, CallState, PollState, Answer,
          Calls, Ends, ChromeEnds, Feedback
  <1>1. ASSUME NEW h \in Calls, OpenArrives(h) PROVE TypeOK'
    BY <1>1 DEF OpenArrives
  <1>2. ASSUME NEW h \in Calls, SendArrives(h) PROVE TypeOK'
    BY <1>2 DEF SendArrives
  <1>3. ASSUME NEW h \in Calls, ChromeEndArrives(h) PROVE TypeOK'
    BY <1>3 DEF ChromeEndArrives
  <1>4. ASSUME NEW h \in Calls, AgentEndArrives(h) PROVE TypeOK'
    BY <1>4 DEF AgentEndArrives
  <1>5. ASSUME NEW h \in Calls, SendBody(h) PROVE TypeOK'
    BY <1>5 DEF SendBody, queueFeedback, appendConversation, publishWake, Decodes
  <1>6. ASSUME NEW h \in Calls, LateEndBody(h) PROVE TypeOK'
    BY <1>6 DEF LateEndBody
  <1>7. ASSUME NEW h \in Calls, RiderBody(h) PROVE TypeOK'
    BY <1>7 DEF RiderBody, queueFeedback, appendConversation, Decodes
  <1>8. ASSUME NEW h \in Calls, PlainEndBody(h) PROVE TypeOK'
    BY <1>8 DEF PlainEndBody
  <1>9. ASSUME NEW h \in Calls, StartSave(h) PROVE TypeOK'
    BY <1>9 DEF StartSave, NextSessions, StatusAfter
  <1>10. ASSUME NEW h \in Calls, SkipSave(h) PROVE TypeOK'
    BY <1>10, WakeType DEF SkipSave
  <1>11. ASSUME NEW h \in Calls, FinishSave(h) PROVE TypeOK'
    BY <1>11, WakeType DEF FinishSave, NextSessions, StatusAfter
  <1>12. ASSUME NEW h \in Calls, LoseSave(h) PROVE TypeOK'
    BY <1>12 DEF LoseSave
  <1>13. ASSUME NEW h \in Calls, BodyFails(h) PROVE TypeOK'
    BY <1>13 DEF BodyFails
  <1>14. ASSUME NEW h \in Calls, WaitFails(h) PROVE TypeOK'
    BY <1>14 DEF WaitFails
  <1>15. ASSUME NEW p \in Polls, PollRefused(p) PROVE TypeOK'
    BY <1>15 DEF PollRefused
  <1>16. ASSUME NEW p \in Polls, PollArrives(p) PROVE TypeOK'
    <2>1. SessionOf[p] \in Keys
      OBVIOUS
    <2>2. thread' \in [Keys -> Seq(Feedback \union Polls)]
      <3>1. CASE p \in ReplyingPolls
        BY <1>16, <2>1, <3>1, ThreadType DEF PollArrives
      <3>2. CASE p \notin ReplyingPolls
        BY <1>16, <3>2 DEF PollArrives
      <3> QED BY <3>1, <3>2
    <2>3. openPolls' \in [Keys -> Nat] /\ UNCHANGED lastDelivery
      BY <1>16, <2>1 DEF PollArrives, enterPoll
    <2> QED BY <1>16, <2>2, <2>3 DEF PollArrives
  <1>17. ASSUME NEW p \in Polls, Deliver(p) PROVE TypeOK'
    <2>1. [feedback |-> queue[SessionOf[p]], ended |-> isEnded(SessionOf[p]), timedOut |-> FALSE] \in Answer
      BY DEF isEnded
    <2>2. answer' \in [Polls -> Answer]
      BY <1>17, <2>1 DEF Deliver
    <2>3. closePoll(p, "answered", TRUE)
      BY <1>17 DEF Deliver
    <2>4. queue' \in [Keys -> Seq(Feedback)]
      BY <1>17 DEF Deliver
    <2> QED BY <1>17, <2>2, <2>3, <2>4, CloseType DEF Deliver
  <1>18. ASSUME NEW p \in Polls, TellEnded(p) PROVE TypeOK'
    <2>1. [answer[p] EXCEPT !.ended = TRUE] \in Answer
      <3>1. answer[p] \in Answer
        OBVIOUS
      <3> QED BY <3>1, AnswerType
    <2>2. answer' \in [Polls -> Answer]
      BY <1>18, <2>1 DEF TellEnded
    <2>3. closePoll(p, "answered", FALSE)
      BY <1>18 DEF TellEnded
    <2> QED BY <1>18, <2>2, <2>3, CloseType DEF TellEnded
  <1>19. ASSUME NEW p \in Polls, Suspend(p) PROVE TypeOK'
    BY <1>19 DEF Suspend
  <1>20. ASSUME NEW p \in Polls, Wake(p) PROVE TypeOK'
    BY <1>20 DEF Wake
  <1>21. ASSUME NEW p \in Polls, Tick(p) PROVE TypeOK'
    BY <1>21 DEF Tick
  <1>22. ASSUME NEW p \in Polls, TimeOut(p) PROVE TypeOK'
    <2>1. [answer[p] EXCEPT !.timedOut = TRUE] \in Answer
      <3>1. answer[p] \in Answer
        OBVIOUS
      <3> QED BY <3>1, AnswerType
    <2>2. answer' \in [Polls -> Answer]
      BY <1>22, <2>1 DEF TimeOut
    <2>3. closePoll(p, "answered", FALSE)
      BY <1>22 DEF TimeOut
    <2> QED BY <1>22, <2>2, <2>3, CloseType DEF TimeOut
  <1>23. ASSUME NEW p \in Polls, KillPoll(p) PROVE TypeOK'
    BY <1>23, CloseType DEF KillPoll
  <1>24. ASSUME NEW p \in Polls, PrintAnswer(p) PROVE TypeOK'
    BY <1>24 DEF PrintAnswer
  <1>25. ASSUME NEW p \in Polls, LoseAnswer(p) PROVE TypeOK'
    BY <1>25 DEF LoseAnswer
  <1>26. CASE Restart
    BY <1>26 DEF Restart
  <1>27. CASE UNCHANGED vars
    BY <1>27 DEF vars
  <1> QED BY <1>1, <1>2, <1>3, <1>4, <1>5, <1>6, <1>7, <1>8, <1>9, <1>10, <1>11, <1>12, <1>13, <1>14, <1>15, <1>16, <1>17, <1>18, <1>19, <1>20, <1>21, <1>22, <1>23, <1>24, <1>25, <1>26, <1>27
          DEF Next, Arrives, Proceeds, Fails, PollNext, Waits

(***************************************************************************)
(* The store's memory, the state file and the requests are always of their *)
(* types, whatever is opened, sent, polled, ended, killed or restarted.    *)
(***************************************************************************)
THEOREM TypeCorrect == Spec => []TypeOK
  BY TypeInit, TypeStep, PTL DEF Spec

------------------------------------------------------------------------------
(***************************************************************************)
(* Wake-ups.  Queued Feedback is of the session it was sent to, and the    *)
(* request that carries it has passed the point where it was queued: what  *)
(* NoLostWakeup needs to be inductive, for an End that publishes wakes the *)
(* polls of its own session only.                                          *)
(***************************************************************************)
QueueKnown ==
  \A k \in Keys : \A i \in Elements(queue[k]) : i \in Submitted /\ SessionOf[i] = k

WakeInv == QueueKnown /\ NoLostWakeup

LEMMA AppendElements ==
  ASSUME NEW S, NEW q \in Seq(S), NEW x \in S
  PROVE  Elements(Append(q, x)) = Elements(q) \union {x}
  <1>1. Append(q, x) \in Seq(S) /\ Len(Append(q, x)) = Len(q) + 1
    OBVIOUS
  <1>2. \A n \in 1..Len(q) : Append(q, x)[n] = q[n]
    OBVIOUS
  <1>3. Append(q, x)[Len(q) + 1] = x
    OBVIOUS
  <1> QED BY <1>1, <1>2, <1>3 DEF Elements

\* A request that moves on without queueing, signalling or ending keeps every poll's
\* reason to sleep, provided a rider it has queued stays silent.
LEMMA QuietCall ==
  ASSUME TypeOK, WakeInv, NEW h \in Calls, NEW c \in CallState,
         call' = [call EXCEPT ![h] = c],
         h \in Submitted => h \in SendEnds /\ c \in {"saving", "failed"},
         UNCHANGED <<status, queue, poll, signals>>
  PROVE  WakeInv'
  <1>1. \A i \in Submitted : i # h => call'[i] = call[i] /\ i \in Submitted'
    BY DEF Submitted, TypeOK, Feedback, Calls, Ends, ChromeEnds
  <1>2. h \in Submitted => h \in Submitted' /\ call'[h] = c
    BY DEF Submitted, TypeOK
  <1>3. QueueKnown'
    BY <1>1, <1>2 DEF WakeInv, QueueKnown
  <1>4. \A i \in Submitted : SilentRider(i) => SilentRider(i)'
    BY <1>1, <1>2 DEF SilentRider
  <1>5. NoLostWakeup'
    BY <1>4, ReviewLoopAssumption DEF WakeInv, QueueKnown, NoLostWakeup
  <1> QED BY <1>3, <1>5 DEF WakeInv

\* A poll that does not come to rest disturbs no other poll.
LEMMA QuietPoll ==
  ASSUME TypeOK, WakeInv, NEW p \in Polls,
         poll'[p] # "waiting",
         \A q \in Polls : q # p => poll'[q] = poll[q] /\ signals'[q] = signals[q],
         \A k \in Keys : Elements(queue'[k]) \subseteq Elements(queue[k]),
         UNCHANGED <<status, call>>
  PROVE  WakeInv'
  <1>1. QueueKnown'
    BY DEF WakeInv, QueueKnown, Submitted
  <1>2. NoLostWakeup'
    BY ReviewLoopAssumption DEF WakeInv, NoLostWakeup, SilentRider
  <1> QED BY <1>1, <1>2 DEF WakeInv

LEMMA WakeInit == Init => WakeInv
  BY DEF Init, WakeInv, QueueKnown, NoLostWakeup, Elements

LEMMA WakeStep == TypeOK /\ WakeInv /\ [Next]_vars => WakeInv'
  <1> SUFFICES ASSUME TypeOK, WakeInv, [Next]_vars PROVE WakeInv'
    OBVIOUS
  <1>1. ASSUME NEW h \in Calls, OpenArrives(h) PROVE WakeInv'
    <2>1. call' = [call EXCEPT ![h] = call'[h]] /\ call'[h] \in CallState
      BY <1>1, TypeStep DEF OpenArrives, TypeOK, CallState, Status
    <2>2. h \in Submitted => h \in SendEnds /\ call'[h] \in {"saving", "failed"}
      BY <1>1 DEF OpenArrives, Submitted, TypeOK, Feedback, Calls, Ends, ChromeEnds
    <2>3. UNCHANGED <<status, queue, poll, signals>>
      BY <1>1 DEF OpenArrives
    <2> QED BY <2>1, <2>2, <2>3, QuietCall
  <1>2. ASSUME NEW h \in Calls, SendArrives(h) PROVE WakeInv'
    <2>1. call' = [call EXCEPT ![h] = call'[h]] /\ call'[h] \in CallState
      BY <1>2, TypeStep DEF SendArrives, TypeOK, CallState, Status
    <2>2. h \in Submitted => h \in SendEnds /\ call'[h] \in {"saving", "failed"}
      BY <1>2 DEF SendArrives, Submitted, TypeOK, Feedback, Calls, Ends, ChromeEnds
    <2>3. UNCHANGED <<status, queue, poll, signals>>
      BY <1>2 DEF SendArrives
    <2> QED BY <2>1, <2>2, <2>3, QuietCall
  <1>3. ASSUME NEW h \in Calls, ChromeEndArrives(h) PROVE WakeInv'
    <2>1. call' = [call EXCEPT ![h] = call'[h]] /\ call'[h] \in CallState
      <3>1. PICK c : call' = [call EXCEPT ![h] = c]
        BY <1>3 DEF ChromeEndArrives
      <3>2. call' \in [Calls -> CallState]
        BY TypeStep DEF TypeOK
      <3> QED BY <3>1, <3>2 DEF TypeOK
    <2>2. h \in Submitted => h \in SendEnds /\ call'[h] \in {"saving", "failed"}
      BY <1>3 DEF ChromeEndArrives, Submitted, TypeOK, Feedback, Calls, Ends, ChromeEnds
    <2>3. UNCHANGED <<status, queue, poll, signals>>
      BY <1>3 DEF ChromeEndArrives
    <2> QED BY <2>1, <2>2, <2>3, QuietCall
  <1>4. ASSUME NEW h \in Calls, AgentEndArrives(h) PROVE WakeInv'
    <2>1. call' = [call EXCEPT ![h] = call'[h]] /\ call'[h] \in CallState
      <3>1. PICK c : call' = [call EXCEPT ![h] = c]
        BY <1>4 DEF AgentEndArrives
      <3>2. call' \in [Calls -> CallState]
        BY TypeStep DEF TypeOK
      <3> QED BY <3>1, <3>2 DEF TypeOK
    <2>2. h \in Submitted => h \in SendEnds /\ call'[h] \in {"saving", "failed"}
      BY <1>4 DEF AgentEndArrives, Submitted, TypeOK, Feedback, Calls, Ends, ChromeEnds
    <2>3. UNCHANGED <<status, queue, poll, signals>>
      BY <1>4 DEF AgentEndArrives
    <2> QED BY <2>1, <2>2, <2>3, QuietCall
  <1>5. ASSUME NEW h \in Calls, LateEndBody(h) PROVE WakeInv'
    <2>1. call' = [call EXCEPT ![h] = call'[h]] /\ call'[h] \in CallState
      BY <1>5, TypeStep DEF LateEndBody, TypeOK, CallState, Status
    <2>2. h \in Submitted => h \in SendEnds /\ call'[h] \in {"saving", "failed"}
      BY <1>5 DEF LateEndBody, Submitted, TypeOK, Feedback, Calls, Ends, ChromeEnds
    <2>3. UNCHANGED <<status, queue, poll, signals>>
      BY <1>5 DEF LateEndBody
    <2> QED BY <2>1, <2>2, <2>3, QuietCall
  <1>6. ASSUME NEW h \in Calls, PlainEndBody(h) PROVE WakeInv'
    <2>1. call' = [call EXCEPT ![h] = call'[h]] /\ call'[h] \in CallState
      BY <1>6, TypeStep DEF PlainEndBody, TypeOK, CallState, Status
    <2>2. h \in Submitted => h \in SendEnds /\ call'[h] \in {"saving", "failed"}
      BY <1>6 DEF PlainEndBody, Submitted, TypeOK, Feedback, Calls, Ends, ChromeEnds
    <2>3. UNCHANGED <<status, queue, poll, signals>>
      BY <1>6 DEF PlainEndBody
    <2> QED BY <2>1, <2>2, <2>3, QuietCall
  <1>7. ASSUME NEW h \in Calls, StartSave(h) PROVE WakeInv'
    <2>1. call' = [call EXCEPT ![h] = call'[h]] /\ call'[h] \in CallState
      BY <1>7, TypeStep DEF StartSave, TypeOK, CallState, Status
    <2>2. h \in Submitted => h \in SendEnds /\ call'[h] \in {"saving", "failed"}
      BY <1>7 DEF StartSave, Submitted, TypeOK, Feedback, Calls, Ends, ChromeEnds
    <2>3. UNCHANGED <<status, queue, poll, signals>>
      BY <1>7 DEF StartSave
    <2> QED BY <2>1, <2>2, <2>3, QuietCall
  <1>8. ASSUME NEW h \in Calls, LoseSave(h) PROVE WakeInv'
    <2>1. call' = [call EXCEPT ![h] = call'[h]] /\ call'[h] \in CallState
      BY <1>8, TypeStep DEF LoseSave, TypeOK, CallState, Status
    <2>2. h \in Submitted => h \in SendEnds /\ call'[h] \in {"saving", "failed"}
      BY <1>8 DEF LoseSave, Submitted, TypeOK, Feedback, Calls, Ends, ChromeEnds
    <2>3. UNCHANGED <<status, queue, poll, signals>>
      BY <1>8 DEF LoseSave
    <2> QED BY <2>1, <2>2, <2>3, QuietCall
  <1>9. ASSUME NEW h \in Calls, BodyFails(h) PROVE WakeInv'
    <2>1. call' = [call EXCEPT ![h] = call'[h]] /\ call'[h] \in CallState
      BY <1>9, TypeStep DEF BodyFails, TypeOK, CallState, Status
    <2>2. h \in Submitted => h \in SendEnds /\ call'[h] \in {"saving", "failed"}
      BY <1>9 DEF BodyFails, Submitted, TypeOK, Feedback, Calls, Ends, ChromeEnds
    <2>3. UNCHANGED <<status, queue, poll, signals>>
      BY <1>9 DEF BodyFails
    <2> QED BY <2>1, <2>2, <2>3, QuietCall
  <1>10. ASSUME NEW h \in Calls, WaitFails(h) PROVE WakeInv'
    <2>1. call' = [call EXCEPT ![h] = call'[h]] /\ call'[h] \in CallState
      BY <1>10, TypeStep DEF WaitFails, TypeOK, CallState, Status
    <2>2. h \in Submitted => h \in SendEnds /\ call'[h] \in {"saving", "failed"}
      BY <1>10 DEF WaitFails, Submitted, TypeOK, Feedback, Calls, Ends, ChromeEnds
    <2>3. UNCHANGED <<status, queue, poll, signals>>
      BY <1>10 DEF WaitFails
    <2> QED BY <2>1, <2>2, <2>3, QuietCall
  <1>11. ASSUME NEW p \in Polls, PollRefused(p) PROVE WakeInv'
    <2>1. poll'[p] # "waiting"
      BY <1>11 DEF PollRefused, TypeOK
    <2>2. \A q \in Polls : q # p => poll'[q] = poll[q] /\ signals'[q] = signals[q]
      BY <1>11 DEF PollRefused, TypeOK
    <2>3. \A k \in Keys : Elements(queue'[k]) \subseteq Elements(queue[k])
      BY <1>11 DEF PollRefused, TypeOK, Elements
    <2>4. UNCHANGED <<status, call>>
      BY <1>11 DEF PollRefused
    <2> QED BY <2>1, <2>2, <2>3, <2>4, QuietPoll
  <1>12. ASSUME NEW p \in Polls, PollArrives(p) PROVE WakeInv'
    <2>1. poll'[p] # "waiting"
      BY <1>12 DEF PollArrives, TypeOK
    <2>2. \A q \in Polls : q # p => poll'[q] = poll[q] /\ signals'[q] = signals[q]
      BY <1>12 DEF PollArrives, TypeOK
    <2>3. \A k \in Keys : Elements(queue'[k]) \subseteq Elements(queue[k])
      BY <1>12 DEF PollArrives, TypeOK, Elements
    <2>4. UNCHANGED <<status, call>>
      BY <1>12 DEF PollArrives
    <2> QED BY <2>1, <2>2, <2>3, <2>4, QuietPoll
  <1>13. ASSUME NEW p \in Polls, Deliver(p) PROVE WakeInv'
    <2>1. poll'[p] # "waiting"
      BY <1>13 DEF Deliver, closePoll, TypeOK
    <2>2. \A q \in Polls : q # p => poll'[q] = poll[q] /\ signals'[q] = signals[q]
      BY <1>13 DEF Deliver, closePoll, TypeOK
    <2>3. \A k \in Keys : Elements(queue'[k]) \subseteq Elements(queue[k])
      BY <1>13 DEF Deliver, TypeOK, Elements
    <2>4. UNCHANGED <<status, call>>
      BY <1>13 DEF Deliver
    <2> QED BY <2>1, <2>2, <2>3, <2>4, QuietPoll
  <1>14. ASSUME NEW p \in Polls, TellEnded(p) PROVE WakeInv'
    <2>1. poll'[p] # "waiting"
      BY <1>14 DEF TellEnded, closePoll, TypeOK
    <2>2. \A q \in Polls : q # p => poll'[q] = poll[q] /\ signals'[q] = signals[q]
      BY <1>14 DEF TellEnded, closePoll, TypeOK
    <2>3. \A k \in Keys : Elements(queue'[k]) \subseteq Elements(queue[k])
      BY <1>14 DEF TellEnded, TypeOK, Elements
    <2>4. UNCHANGED <<status, call>>
      BY <1>14 DEF TellEnded
    <2> QED BY <2>1, <2>2, <2>3, <2>4, QuietPoll
  <1>15. ASSUME NEW p \in Polls, Wake(p) PROVE WakeInv'
    <2>1. poll'[p] # "waiting"
      BY <1>15 DEF Wake, TypeOK
    <2>2. \A q \in Polls : q # p => poll'[q] = poll[q] /\ signals'[q] = signals[q]
      BY <1>15 DEF Wake, TypeOK
    <2>3. \A k \in Keys : Elements(queue'[k]) \subseteq Elements(queue[k])
      BY <1>15 DEF Wake, TypeOK, Elements
    <2>4. UNCHANGED <<status, call>>
      BY <1>15 DEF Wake
    <2> QED BY <2>1, <2>2, <2>3, <2>4, QuietPoll
  <1>16. ASSUME NEW p \in Polls, Tick(p) PROVE WakeInv'
    <2>1. poll'[p] # "waiting"
      BY <1>16 DEF Tick, TypeOK
    <2>2. \A q \in Polls : q # p => poll'[q] = poll[q] /\ signals'[q] = signals[q]
      BY <1>16 DEF Tick, TypeOK
    <2>3. \A k \in Keys : Elements(queue'[k]) \subseteq Elements(queue[k])
      BY <1>16 DEF Tick, TypeOK, Elements
    <2>4. UNCHANGED <<status, call>>
      BY <1>16 DEF Tick
    <2> QED BY <2>1, <2>2, <2>3, <2>4, QuietPoll
  <1>17. ASSUME NEW p \in Polls, TimeOut(p) PROVE WakeInv'
    <2>1. poll'[p] # "waiting"
      BY <1>17 DEF TimeOut, closePoll, TypeOK
    <2>2. \A q \in Polls : q # p => poll'[q] = poll[q] /\ signals'[q] = signals[q]
      BY <1>17 DEF TimeOut, closePoll, TypeOK
    <2>3. \A k \in Keys : Elements(queue'[k]) \subseteq Elements(queue[k])
      BY <1>17 DEF TimeOut, TypeOK, Elements
    <2>4. UNCHANGED <<status, call>>
      BY <1>17 DEF TimeOut
    <2> QED BY <2>1, <2>2, <2>3, <2>4, QuietPoll
  <1>18. ASSUME NEW p \in Polls, KillPoll(p) PROVE WakeInv'
    <2>1. poll'[p] # "waiting"
      BY <1>18 DEF KillPoll, closePoll, TypeOK
    <2>2. \A q \in Polls : q # p => poll'[q] = poll[q] /\ signals'[q] = signals[q]
      BY <1>18 DEF KillPoll, closePoll, TypeOK
    <2>3. \A k \in Keys : Elements(queue'[k]) \subseteq Elements(queue[k])
      BY <1>18 DEF KillPoll, TypeOK, Elements
    <2>4. UNCHANGED <<status, call>>
      BY <1>18 DEF KillPoll
    <2> QED BY <2>1, <2>2, <2>3, <2>4, QuietPoll
  <1>19. ASSUME NEW p \in Polls, PrintAnswer(p) PROVE WakeInv'
    <2>1. poll'[p] # "waiting"
      BY <1>19 DEF PrintAnswer, TypeOK
    <2>2. \A q \in Polls : q # p => poll'[q] = poll[q] /\ signals'[q] = signals[q]
      BY <1>19 DEF PrintAnswer, TypeOK
    <2>3. \A k \in Keys : Elements(queue'[k]) \subseteq Elements(queue[k])
      BY <1>19 DEF PrintAnswer, TypeOK, Elements
    <2>4. UNCHANGED <<status, call>>
      BY <1>19 DEF PrintAnswer
    <2> QED BY <2>1, <2>2, <2>3, <2>4, QuietPoll
  <1>20. ASSUME NEW p \in Polls, LoseAnswer(p) PROVE WakeInv'
    <2>1. poll'[p] # "waiting"
      BY <1>20 DEF LoseAnswer, TypeOK
    <2>2. \A q \in Polls : q # p => poll'[q] = poll[q] /\ signals'[q] = signals[q]
      BY <1>20 DEF LoseAnswer, TypeOK
    <2>3. \A k \in Keys : Elements(queue'[k]) \subseteq Elements(queue[k])
      BY <1>20 DEF LoseAnswer, TypeOK, Elements
    <2>4. UNCHANGED <<status, call>>
      BY <1>20 DEF LoseAnswer
    <2> QED BY <2>1, <2>2, <2>3, <2>4, QuietPoll
  <1>21. ASSUME NEW h \in Calls, SendBody(h) PROVE WakeInv'
    <2> DEFINE k == SessionOf[h]
    <2>1. k \in Keys /\ h \in Feedback /\ h \notin SendEnds
      BY <1>21, ReviewLoopAssumption DEF SendBody, Decodes, Feedback, Ends, ChromeEnds
    <2>2. /\ queue' = [queue EXCEPT ![k] = Append(@, h)]
          /\ call' = [call EXCEPT ![h] = "done"]
          /\ publishWake(k) /\ UNCHANGED <<status, poll>>
          /\ h \in Sends
      BY <1>21 DEF SendBody, queueFeedback
    <2>3. /\ Elements(queue'[k]) = Elements(queue[k]) \union {h}
          /\ \A l \in Keys : l # k => queue'[l] = queue[l]
      BY <2>1, <2>2, AppendElements DEF TypeOK
    <2>4. h \in Submitted' /\ \A i \in Submitted : i \in Submitted'
      BY <2>1, <2>2 DEF Submitted, TypeOK
    <2>5. QueueKnown'
      BY <2>2, <2>3, <2>4 DEF WakeInv, QueueKnown
    <2>6. \A p \in Polls : poll[p] = "waiting" /\ SessionOf[p] = k => signals'[p] > 0
      BY <2>2 DEF publishWake, OpenOn, Subscribed, TypeOK
    <2>7. \A p \in Polls : SessionOf[p] # k => signals'[p] = signals[p]
      BY <2>2 DEF publishWake, OpenOn
    <2>8. \A i \in SendEnds : call'[i] = call[i]
      BY <2>1, <2>2 DEF TypeOK
    <2>9. NoLostWakeup'
      BY <2>2, <2>3, <2>6, <2>7, <2>8, ReviewLoopAssumption DEF WakeInv, NoLostWakeup, SilentRider
    <2> QED BY <2>5, <2>9 DEF WakeInv
  <1>22. ASSUME NEW h \in Calls, RiderBody(h) PROVE WakeInv'
    <2> DEFINE k == SessionOf[h]
    <2>1. k \in Keys /\ h \in Feedback
      BY <1>22, ReviewLoopAssumption DEF RiderBody, Decodes, Feedback
    <2>2. /\ queue' = [queue EXCEPT ![k] = Append(@, h)]
          /\ call' = [call EXCEPT ![h] = "locking"]
          /\ UNCHANGED <<status, poll, signals>>
          /\ h \in SendEnds
      BY <1>22 DEF RiderBody, queueFeedback
    <2>3. /\ Elements(queue'[k]) = Elements(queue[k]) \union {h}
          /\ \A l \in Keys : l # k => queue'[l] = queue[l]
      BY <2>1, <2>2, AppendElements DEF TypeOK
    <2>4. h \in Submitted' /\ \A i \in Submitted : i \in Submitted'
      BY <2>1, <2>2 DEF Submitted, TypeOK
    <2>5. QueueKnown'
      BY <2>2, <2>3, <2>4 DEF WakeInv, QueueKnown
    <2>6. SilentRider(h)' /\ \A i : SilentRider(i) => SilentRider(i)'
      BY <2>1, <2>2 DEF SilentRider, TypeOK, Calls, Ends, ChromeEnds
    <2>7. NoLostWakeup'
      BY <2>2, <2>3, <2>6, ReviewLoopAssumption DEF WakeInv, NoLostWakeup
    <2> QED BY <2>5, <2>7 DEF WakeInv
  <1>23. ASSUME NEW h \in Calls, SkipSave(h) PROVE WakeInv'
    <2> DEFINE k == SessionOf[h]
    <2>1. /\ call' = [call EXCEPT ![h] = "done"]
          /\ publishIfEnd(h) /\ UNCHANGED <<queue, poll>>
      BY <1>23 DEF SkipSave
    <2>2. \A l \in Keys : status'[l] = "ended" => status[l] = "ended" \/ (l = k /\ h \in Ends)
      BY <1>23 DEF SkipSave, NextSessions, StatusAfter, TypeOK, Calls
    <2>3. \A i \in Submitted : i \in Submitted'
      BY <2>1 DEF Submitted, TypeOK
    <2>4. QueueKnown'
      BY <2>1, <2>3 DEF WakeInv, QueueKnown
    <2>5. CASE h \in Ends
      <3>1. \A p \in Polls : poll[p] = "waiting" /\ SessionOf[p] = k => signals'[p] > 0
        BY <2>1, <2>5 DEF publishIfEnd, publishWake, OpenOn, Subscribed, TypeOK
      <3>2. \A p \in Polls : SessionOf[p] # k => signals'[p] = signals[p]
        BY <2>1, <2>5 DEF publishIfEnd, publishWake, OpenOn
      <3>3. \A i \in SendEnds : i # h => call'[i] = call[i]
        BY <2>1 DEF TypeOK
      <3>4. NoLostWakeup'
        BY <2>1, <2>2, <3>1, <3>2, <3>3, ReviewLoopAssumption
           DEF WakeInv, QueueKnown, NoLostWakeup, SilentRider
      <3> QED BY <2>4, <3>4 DEF WakeInv
    <2>6. CASE h \notin Ends
      <3>1. UNCHANGED signals /\ \A i \in SendEnds : call'[i] = call[i]
        BY <2>1, <2>6 DEF publishIfEnd, TypeOK, Ends, ChromeEnds
      <3>2. NoLostWakeup'
        BY <2>1, <2>2, <2>6, <3>1, ReviewLoopAssumption DEF WakeInv, NoLostWakeup, SilentRider
      <3> QED BY <2>4, <3>2 DEF WakeInv
    <2> QED BY <2>5, <2>6
  <1>24. ASSUME NEW h \in Calls, FinishSave(h) PROVE WakeInv'
    <2> DEFINE k == SessionOf[h]
    <2>1. /\ call' = [call EXCEPT ![h] = "done"]
          /\ publishIfEnd(h) /\ UNCHANGED <<queue, poll>>
      BY <1>24 DEF FinishSave
    <2>2. \A l \in Keys : status'[l] = "ended" => status[l] = "ended" \/ (l = k /\ h \in Ends)
      BY <1>24 DEF FinishSave, NextSessions, StatusAfter, TypeOK, Calls
    <2>3. \A i \in Submitted : i \in Submitted'
      BY <2>1 DEF Submitted, TypeOK
    <2>4. QueueKnown'
      BY <2>1, <2>3 DEF WakeInv, QueueKnown
    <2>5. CASE h \in Ends
      <3>1. \A p \in Polls : poll[p] = "waiting" /\ SessionOf[p] = k => signals'[p] > 0
        BY <2>1, <2>5 DEF publishIfEnd, publishWake, OpenOn, Subscribed, TypeOK
      <3>2. \A p \in Polls : SessionOf[p] # k => signals'[p] = signals[p]
        BY <2>1, <2>5 DEF publishIfEnd, publishWake, OpenOn
      <3>3. \A i \in SendEnds : i # h => call'[i] = call[i]
        BY <2>1 DEF TypeOK
      <3>4. NoLostWakeup'
        BY <2>1, <2>2, <3>1, <3>2, <3>3, ReviewLoopAssumption
           DEF WakeInv, QueueKnown, NoLostWakeup, SilentRider
      <3> QED BY <2>4, <3>4 DEF WakeInv
    <2>6. CASE h \notin Ends
      <3>1. UNCHANGED signals /\ \A i \in SendEnds : call'[i] = call[i]
        BY <2>1, <2>6 DEF publishIfEnd, TypeOK, Ends, ChromeEnds
      <3>2. NoLostWakeup'
        BY <2>1, <2>2, <2>6, <3>1, ReviewLoopAssumption DEF WakeInv, NoLostWakeup, SilentRider
      <3> QED BY <2>4, <3>2 DEF WakeInv
    <2> QED BY <2>5, <2>6
  <1>25. ASSUME NEW p \in Polls, Suspend(p) PROVE WakeInv'
    <2>1. queue[SessionOf[p]] = <<>> /\ status[SessionOf[p]] # "ended"
      BY <1>25 DEF Suspend, isEnded
    <2>2. Elements(queue[SessionOf[p]]) = {}
      BY <2>1 DEF Elements
    <2>3. /\ poll' = [poll EXCEPT ![p] = "waiting"]
          /\ UNCHANGED <<status, queue, call, signals>>
      BY <1>25 DEF Suspend
    <2>4. QueueKnown'
      BY <2>3 DEF WakeInv, QueueKnown, Submitted
    <2>5. NoLostWakeup'
      BY <2>1, <2>2, <2>3 DEF WakeInv, NoLostWakeup, SilentRider, TypeOK
    <2> QED BY <2>4, <2>5 DEF WakeInv
  <1>26. CASE Restart
    <2>1. \A k \in Keys : Elements(queue'[k]) = {}
      BY <1>26 DEF Restart, Elements
    <2>2. \A p \in Polls : poll'[p] # "waiting"
      BY <1>26 DEF Restart, Subscribed, TypeOK
    <2> QED BY <2>1, <2>2 DEF WakeInv, QueueKnown, NoLostWakeup
  <1>27. CASE UNCHANGED vars
    BY <1>27 DEF vars, WakeInv, QueueKnown, Submitted, NoLostWakeup, SilentRider
  <1> QED BY <1>1, <1>2, <1>3, <1>4, <1>5, <1>6, <1>7, <1>8, <1>9, <1>10, <1>11, <1>12,
             <1>13, <1>14, <1>15, <1>16, <1>17, <1>18, <1>19, <1>20, <1>21,
             <1>22, <1>23, <1>24, <1>25, <1>26, <1>27
          DEF Next, Arrives, Proceeds, Fails, PollNext, Waits

(***************************************************************************)
(* No poll sleeps through a Send or an End: see NoLostWakeup.              *)
(***************************************************************************)
THEOREM NoWakeupIsLost == Spec => []NoLostWakeup
  <1>1. WakeInv => NoLostWakeup
    BY DEF WakeInv
  <1> QED BY TypeInit, TypeStep, WakeInit, WakeStep, <1>1, PTL DEF Spec

------------------------------------------------------------------------------
(***************************************************************************)
(* The state file.  While a call saves, it saves alone, and state.json.tmp *)
(* holds exactly the set it will install: what the mutex is for.           *)
(***************************************************************************)
OneSaver ==
  \A h \in Calls : call[h] = "saving" =>
     tmp = NextSessions(h) /\ \A g \in Calls : call[g] = "saving" => g = h

DiskInv == OneSaver /\ DiskMatchesMemory

LEMMA DiskInit == Init => DiskInv
  BY DEF Init, DiskInv, OneSaver, DiskMatchesMemory

LEMMA QuietDisk ==
  ASSUME DiskInv,
         \A g \in Calls : call[g] = "failed" => call'[g] = "failed",
         \A g \in Calls : call'[g] = "saving" => call[g] = "saving",
         UNCHANGED sessionVars
  PROVE  DiskInv'
  BY DEF DiskInv, OneSaver, DiskMatchesMemory, NextSessions, StatusAfter

LEMMA DiskStep == TypeOK /\ DiskInv /\ [Next]_vars => DiskInv'
  <1> SUFFICES ASSUME TypeOK, DiskInv, [Next]_vars PROVE DiskInv'
    OBVIOUS
  <1>1. ASSUME NEW h \in Calls, OpenArrives(h) PROVE DiskInv'
    BY <1>1, QuietDisk DEF OpenArrives, TypeOK
  <1>2. ASSUME NEW h \in Calls, SendArrives(h) PROVE DiskInv'
    BY <1>2, QuietDisk DEF SendArrives, TypeOK
  <1>3. ASSUME NEW h \in Calls, ChromeEndArrives(h) PROVE DiskInv'
    <2>1. PICK c : call' = [call EXCEPT ![h] = c] /\ c # "saving"
      BY <1>3 DEF ChromeEndArrives
    <2>2. call[h] = "idle" /\ UNCHANGED sessionVars
      BY <1>3 DEF ChromeEndArrives
    <2> QED BY <2>1, <2>2, QuietDisk DEF TypeOK
  <1>4. ASSUME NEW h \in Calls, AgentEndArrives(h) PROVE DiskInv'
    <2>1. PICK c : call' = [call EXCEPT ![h] = c] /\ c # "saving"
      BY <1>4 DEF AgentEndArrives
    <2>2. call[h] = "idle" /\ UNCHANGED sessionVars
      BY <1>4 DEF AgentEndArrives
    <2> QED BY <2>1, <2>2, QuietDisk DEF TypeOK
  <1>5. ASSUME NEW h \in Calls, SendBody(h) PROVE DiskInv'
    BY <1>5, QuietDisk DEF SendBody, TypeOK
  <1>6. ASSUME NEW h \in Calls, LateEndBody(h) PROVE DiskInv'
    BY <1>6, QuietDisk DEF LateEndBody, TypeOK
  <1>7. ASSUME NEW h \in Calls, RiderBody(h) PROVE DiskInv'
    BY <1>7, QuietDisk DEF RiderBody, TypeOK
  <1>8. ASSUME NEW h \in Calls, PlainEndBody(h) PROVE DiskInv'
    BY <1>8, QuietDisk DEF PlainEndBody, TypeOK
  <1>9. ASSUME NEW h \in Calls, SkipSave(h) PROVE DiskInv'
    BY <1>9, QuietDisk DEF SkipSave, TypeOK
  <1>10. ASSUME NEW h \in Calls, BodyFails(h) PROVE DiskInv'
    BY <1>10, QuietDisk DEF BodyFails, TypeOK
  <1>11. ASSUME NEW h \in Calls, WaitFails(h) PROVE DiskInv'
    BY <1>11, QuietDisk DEF WaitFails, TypeOK
  <1>12. ASSUME NEW p \in Polls, PollNext(p) PROVE DiskInv'
    <2>1. UNCHANGED <<sessionVars, call>>
      BY <1>12 DEF PollNext, Waits, PollRefused, PollArrives, Deliver, TellEnded, Suspend, Wake,
                    Tick, TimeOut, KillPoll, PrintAnswer, LoseAnswer
    <2> QED BY <2>1, QuietDisk
  <1>13. ASSUME NEW h \in Calls, StartSave(h) PROVE DiskInv'
    <2>1. /\ \A g \in Calls : call[g] # "saving"
          /\ call[h] = "locking" /\ call' = [call EXCEPT ![h] = "saving"]
          /\ tmp' = NextSessions(h) /\ UNCHANGED <<status, disk>>
      BY <1>13 DEF StartSave, MutexFree
    <2>2. OneSaver'
      BY <2>1 DEF OneSaver, NextSessions, StatusAfter, TypeOK
    <2>3. DiskMatchesMemory'
      BY <2>1 DEF DiskInv, DiskMatchesMemory, StatusAfter, TypeOK
    <2> QED BY <2>2, <2>3 DEF DiskInv
  <1>14. ASSUME NEW h \in Calls, FinishSave(h) PROVE DiskInv'
    <2>1. /\ call[h] = "saving" /\ call' = [call EXCEPT ![h] = "done"]
          /\ disk' = tmp /\ status' = NextSessions(h)
      BY <1>14 DEF FinishSave
    <2>2. disk' = status' /\ \A g \in Calls : call'[g] # "saving"
      BY <2>1 DEF DiskInv, OneSaver, TypeOK
    <2> QED BY <2>2 DEF DiskInv, OneSaver, DiskMatchesMemory
  <1>15. ASSUME NEW h \in Calls, LoseSave(h) PROVE DiskInv'
    <2>1. /\ call[h] = "saving" /\ call' = [call EXCEPT ![h] = "failed"]
          /\ disk' \in {disk, tmp} /\ UNCHANGED status
      BY <1>15 DEF LoseSave
    <2>2. OneSaver'
      BY <2>1 DEF DiskInv, OneSaver, TypeOK
    <2>3. \A k \in Keys : tmp[k] # status[k] => k = SessionOf[h] /\ tmp[k] = StatusAfter(h)
      BY <2>1 DEF DiskInv, OneSaver, NextSessions, TypeOK
    <2>4. \A g \in Calls : call[g] = "failed" \/ g = h => call'[g] = "failed"
      BY <2>1 DEF TypeOK
    <2>5. CASE disk' = disk
      BY <2>1, <2>2, <2>4, <2>5 DEF DiskInv, DiskMatchesMemory, StatusAfter
    <2>6. CASE disk' = tmp
      BY <2>1, <2>2, <2>3, <2>4, <2>6 DEF DiskInv, DiskMatchesMemory, StatusAfter
    <2> QED BY <2>1, <2>5, <2>6
  <1>16. CASE Restart
    <2>1. disk' = status' /\ \A g \in Calls : call'[g] # "saving"
      BY <1>16 DEF Restart, TypeOK
    <2> QED BY <2>1 DEF DiskInv, OneSaver, DiskMatchesMemory
  <1>17. CASE UNCHANGED vars
    BY <1>17, QuietDisk DEF vars
  <1> QED BY <1>1, <1>2, <1>3, <1>4, <1>5, <1>6, <1>7, <1>8, <1>9, <1>10, <1>11, <1>12,
             <1>13, <1>14, <1>15, <1>16, <1>17
          DEF Next, Arrives, Proceeds, Fails

(***************************************************************************)
(* state.json and memory part ways only over a call that failed to save.   *)
(***************************************************************************)
THEOREM DiskFollowsMemory == Spec => []DiskMatchesMemory
  <1>1. DiskInv => DiskMatchesMemory
    BY DEF DiskInv
  <1> QED BY TypeInit, TypeStep, DiskInit, DiskStep, <1>1, PTL DEF Spec

\* One step of StatusMovesOnRequest.
StatusMoves ==
  \A k \in Keys : status'[k] # status[k] =>
     \E h \in Calls : /\ SessionOf[h] = k
                      /\ StatusAfter(h) = status'[k]
                      /\ call'[h] \in {"done", "failed"}

LEMMA StatusStep == TypeOK /\ DiskInv /\ [Next]_vars => StatusMoves
  <1> SUFFICES ASSUME TypeOK, DiskInv, [Next]_vars PROVE StatusMoves
    OBVIOUS
  <1>1. ASSUME NEW h \in Calls, FinishSave(h) PROVE StatusMoves
    BY <1>1 DEF FinishSave, NextSessions, StatusMoves, TypeOK
  <1>2. CASE Restart
    <2>1. \A h \in Calls : call[h] = "failed" \/ call[h] = "saving" => call'[h] = "failed"
      BY <1>2 DEF Restart
    <2>2. CASE status' = disk
      BY <2>1, <2>2 DEF DiskInv, DiskMatchesMemory, StatusMoves
    <2>3. CASE status' = tmp /\ ~ MutexFree
      <3>1. PICK h \in Calls : call[h] = "saving"
        BY <2>3 DEF MutexFree
      <3>2. \A k \in Keys : tmp[k] # status[k] => k = SessionOf[h] /\ tmp[k] = StatusAfter(h)
        BY <3>1 DEF DiskInv, OneSaver, NextSessions, TypeOK
      <3> QED BY <2>1, <2>3, <3>1, <3>2 DEF StatusMoves
    <2> QED BY <1>2, <2>2, <2>3 DEF Restart
  <1>3. CASE UNCHANGED status
    BY <1>3 DEF StatusMoves
  <1>4. \/ \E h \in Calls : FinishSave(h)
        \/ Restart
        \/ UNCHANGED status
    BY DEF Next, Arrives, Proceeds, Fails, PollNext, Waits, vars,
           OpenArrives, SendArrives, ChromeEndArrives, AgentEndArrives, SendBody, LateEndBody,
           RiderBody, PlainEndBody, StartSave, SkipSave, LoseSave, BodyFails, WaitFails,
           PollRefused, PollArrives, Deliver, TellEnded, Suspend, Wake, Tick, TimeOut,
           KillPoll, PrintAnswer, LoseAnswer
  <1> QED BY <1>1, <1>2, <1>3, <1>4

(***************************************************************************)
(* Every change of a session's status, a restart's included, is what some  *)
(* open or end of that session asked for.                                  *)
(***************************************************************************)
THEOREM StatusMovesWhenAsked == Spec => StatusMovesOnRequest
  <1>1. TypeOK /\ DiskInv /\ [Next]_vars
          => [\A k \in Keys : status'[k] # status[k] =>
                \E h \in Calls : /\ SessionOf[h] = k
                                 /\ StatusAfter(h) = status'[k]
                                 /\ call'[h] \in {"done", "failed"}]_vars
    BY StatusStep DEF StatusMoves
  <1> QED BY TypeInit, TypeStep, DiskInit, DiskStep, <1>1, PTL DEF Spec, StatusMovesOnRequest

------------------------------------------------------------------------------
(***************************************************************************)
(* The handoff.  A poll that has not settled holds no Feedback, and a Send *)
(* never waits for the store's mutex: with these two facts the steps of    *)
(* the daemon are steps of FeedbackHandoff.                                *)
(***************************************************************************)
HandoffInv ==
  /\ \A p \in Polls : poll[p] \in {"idle", "draining", "waiting"} => answer[p].feedback = <<>>
  /\ \A h \in Sends : call[h] \notin {"locking", "saving"}

LEMMA HandoffInvInit == Init => HandoffInv
  BY ReviewLoopAssumption DEF Init, HandoffInv, Nothing, Calls

LEMMA HandoffInvStep == TypeOK /\ HandoffInv /\ [Next]_vars => HandoffInv'
  <1> SUFFICES ASSUME TypeOK, HandoffInv, [Next]_vars PROVE HandoffInv'
    OBVIOUS
  <1> USE DEF HandoffInv
  <1>1. ASSUME NEW h \in Calls, Arrives(h) \/ Proceeds(h) \/ Fails(h) PROVE HandoffInv'
    <2>1. UNCHANGED answer /\ UNCHANGED poll
      BY <1>1 DEF Arrives, Proceeds, Fails, OpenArrives, SendArrives, ChromeEndArrives,
                  AgentEndArrives, SendBody, LateEndBody, RiderBody, PlainEndBody, StartSave,
                  SkipSave, FinishSave, LoseSave, BodyFails, WaitFails
    <2>2. \A g \in Sends : call'[g] \in {"locking", "saving"} => call[g] \in {"locking", "saving"}
      <3>1. \A g \in Sends : g \notin Opens /\ g \notin Ends /\ g \in Calls
        BY ReviewLoopAssumption DEF Calls
      <3>2. ASSUME Arrives(h) PROVE \A g \in Sends : call'[g] \in {"locking", "saving"} => call[g] \in {"locking", "saving"}
        BY <3>1, <3>2 DEF TypeOK, Ends, ChromeEnds, Arrives, OpenArrives, SendArrives,
                          ChromeEndArrives, AgentEndArrives
      <3>3. ASSUME Proceeds(h) PROVE \A g \in Sends : call'[g] \in {"locking", "saving"} => call[g] \in {"locking", "saving"}
        BY <3>1, <3>3 DEF TypeOK, Ends, ChromeEnds, Proceeds, SendBody, LateEndBody, RiderBody,
                          PlainEndBody, StartSave, SkipSave, FinishSave
      <3>4. ASSUME Fails(h) PROVE \A g \in Sends : call'[g] \in {"locking", "saving"} => call[g] \in {"locking", "saving"}
        BY <3>1, <3>4 DEF TypeOK, Fails, LoseSave, BodyFails, WaitFails
      <3> QED BY <1>1, <3>2, <3>3, <3>4
    <2> QED BY <2>1, <2>2
  <1>2. ASSUME NEW p \in Polls, PollNext(p) PROVE HandoffInv'
    <2>1. UNCHANGED call
      BY <1>2 DEF PollNext, Waits, PollRefused, PollArrives, Deliver, TellEnded, Suspend, Wake,
                  Tick, TimeOut, KillPoll, PrintAnswer, LoseAnswer
    <2>2. \A q \in Polls : q # p => answer'[q] = answer[q] /\ poll'[q] = poll[q]
      BY <1>2 DEF TypeOK, closePoll, PollNext, Waits, PollRefused, PollArrives, Deliver,
                  TellEnded, Suspend, Wake, Tick, TimeOut, KillPoll, PrintAnswer, LoseAnswer
    <2>3. \/ poll'[p] \notin {"idle", "draining", "waiting"}
          \/ poll[p] \in {"idle", "draining", "waiting"} /\ UNCHANGED answer
      BY <1>2 DEF TypeOK, closePoll, PollNext, Waits, PollRefused, PollArrives, Deliver,
                  TellEnded, Suspend, Wake, Tick, TimeOut, KillPoll, PrintAnswer, LoseAnswer
    <2> QED BY <2>1, <2>2, <2>3
  <1>3. CASE Restart
    <2>1. \A h \in Sends : call'[h] = call[h] \/ call'[h] \in {"refused", "failed"}
      BY <1>3 DEF Restart, Calls
    <2> QED BY <1>3, <2>1 DEF Restart, TypeOK, Subscribed
  <1>4. CASE UNCHANGED vars
    BY <1>4 DEF vars
  <1> QED BY <1>1, <1>2, <1>3, <1>4 DEF Next

\* What each poll was handed: the value of FeedbackHandoff's batch.
Handed == [p \in Polls |-> answer[p].feedback]

LEMMA HandoffInit == Init => Handoff!Init
  BY ReviewLoopAssumption DEF Init, Handoff!Init, Submitted, Nothing, Feedback, Calls, Ends,
     ChromeEnds

LEMMA HandoffStep == TypeOK /\ HandoffInv /\ [Next]_vars => [Handoff!Next]_(Handoff!vars)
  <1> SUFFICES ASSUME TypeOK, HandoffInv, [Next]_vars
               PROVE  Handoff!Next \/ UNCHANGED Handoff!vars
    OBVIOUS
  <1>1. ASSUME UNCHANGED queue, UNCHANGED Handed, UNCHANGED Submitted
        PROVE  UNCHANGED Handoff!vars
    BY <1>1 DEF Handoff!vars, Handed
  <1>2. ASSUME NEW h \in Calls, SendBody(h) \/ RiderBody(h) PROVE Handoff!Next
    <2>1. h \in Feedback /\ SessionOf[h] \in Keys
      BY <1>2, ReviewLoopAssumption DEF SendBody, RiderBody, Decodes, Feedback
    <2>2. h \notin Submitted /\ Submitted' = Submitted \union {h}
      BY <1>2, <2>1, ReviewLoopAssumption
         DEF SendBody, RiderBody, Submitted, TypeOK, Feedback, Calls, Ends, ChromeEnds
    <2>3. queue' = [queue EXCEPT ![SessionOf[h]] = Append(@, h)] /\ UNCHANGED Handed
      BY <1>2 DEF SendBody, RiderBody, queueFeedback, Handed
    <2>4. Handoff!Submit(SessionOf[h], h)
      BY <2>2, <2>3 DEF Handoff!Submit, Handed
    <2> QED BY <2>1, <2>4 DEF Handoff!Next
  <1>3. ASSUME NEW p \in Polls, Deliver(p) PROVE Handoff!Next
    <2>1. SessionOf[p] \in Keys
      BY ReviewLoopAssumption
    <2>2. answer[p].feedback = <<>> /\ queue[SessionOf[p]] # <<>>
      BY <1>3 DEF Deliver, HandoffInv
    <2>3. Handed' = [Handed EXCEPT ![p] = queue[SessionOf[p]]]
      BY <1>3 DEF Deliver, Handed, TypeOK
    <2>4. queue' = [queue EXCEPT ![SessionOf[p]] = <<>>] /\ UNCHANGED Submitted
      BY <1>3 DEF Deliver, Submitted
    <2>5. Handoff!HandOut(SessionOf[p], p)
      BY <2>2, <2>3, <2>4 DEF Handoff!HandOut, Handed
    <2> QED BY <2>1, <2>5 DEF Handoff!Next
  <1>4. ASSUME NEW h \in Calls, Arrives(h) \/ Fails(h) \/ LateEndBody(h) \/ PlainEndBody(h)
                 \/ StartSave(h) \/ SkipSave(h) \/ FinishSave(h)
        PROVE  UNCHANGED Handoff!vars
    <2>1. UNCHANGED queue /\ UNCHANGED answer
      BY <1>4 DEF Arrives, Fails, OpenArrives, SendArrives, ChromeEndArrives, AgentEndArrives,
                  LateEndBody, PlainEndBody, StartSave, SkipSave, FinishSave, LoseSave,
                  BodyFails, WaitFails
    <2>2. UNCHANGED Submitted
      BY <1>4, ReviewLoopAssumption
         DEF HandoffInv, TypeOK, Submitted, Feedback, Calls, Ends, ChromeEnds, Arrives, Fails,
             OpenArrives, SendArrives, ChromeEndArrives, AgentEndArrives, LateEndBody,
             PlainEndBody, StartSave, SkipSave, FinishSave, LoseSave, BodyFails, WaitFails
    <2> QED BY <2>1, <2>2, <1>1 DEF Handed
  <1>5. ASSUME NEW p \in Polls, PollNext(p), ~ Deliver(p) PROVE UNCHANGED Handoff!vars
    <2>1. UNCHANGED queue /\ UNCHANGED call
      BY <1>5 DEF PollNext, Waits, PollRefused, PollArrives, TellEnded, Suspend, Wake,
                  Tick, TimeOut, KillPoll, PrintAnswer, LoseAnswer
    <2>2. \A q \in Polls : answer'[q].feedback = answer[q].feedback
      <3>1. CASE TellEnded(p) \/ TimeOut(p)
        <4>1. \/ answer' = [answer EXCEPT ![p] = [answer[p] EXCEPT !.ended = TRUE]]
              \/ answer' = [answer EXCEPT ![p] = [answer[p] EXCEPT !.timedOut = TRUE]]
          BY <3>1 DEF TellEnded, TimeOut
        <4>2. answer[p] \in Answer
          BY DEF TypeOK
        <4>3. answer'[p].feedback = answer[p].feedback
          BY <4>1, <4>2, AnswerType DEF TypeOK
        <4> QED BY <4>1, <4>3 DEF TypeOK
      <3>2. CASE ~ (TellEnded(p) \/ TimeOut(p))
        BY <1>5, <3>2 DEF PollNext, Waits, PollRefused, PollArrives, Suspend, Wake, Tick,
                          KillPoll, PrintAnswer, LoseAnswer
      <3> QED BY <3>1, <3>2
    <2> QED BY <2>1, <2>2, <1>1 DEF Handed, Submitted
  <1>6. CASE Restart
    <2>1. queue' = [k \in Keys |-> <<>>] /\ UNCHANGED answer
      BY <1>6 DEF Restart
    <2>2. \A i \in Feedback : i \in Submitted' <=> i \in Submitted
      BY <1>6, ReviewLoopAssumption
         DEF Restart, HandoffInv, Submitted, Feedback, Calls, Ends, ChromeEnds
    <2>3. UNCHANGED Submitted
      BY <2>2 DEF Submitted
    <2> QED BY <2>1, <2>3 DEF Handoff!Next, Handoff!Forget
  <1>7. CASE UNCHANGED vars
    BY <1>7, <1>1 DEF vars, Handed, Submitted
  <1> QED BY <1>2, <1>3, <1>4, <1>5, <1>6, <1>7 DEF Next, Proceeds

(***************************************************************************)
(* The daemon implements the handoff: every step of it submits one         *)
(* Feedback, hands out all that is pending to one poll, forgets what is    *)
(* pending (a restart), or is none of the handoff's business.              *)
(***************************************************************************)
THEOREM LoopImplementsHandoff == Spec => ImplementsHandoff
  BY TypeInit, TypeStep, HandoffInvInit, HandoffInvStep, HandoffInit, HandoffStep, PTL
     DEF Spec, ImplementsHandoff, Handoff!Spec

------------------------------------------------------------------------------
(***************************************************************************)
(* What the handoff promises it keeps, and so does the loop.  An Item is   *)
(* only submitted when it was not before, so the inductive invariant adds  *)
(* that everything pending or handed out was submitted.                    *)
(***************************************************************************)
OnceInv == Handoff!TypeOK /\ Handoff!OnlySent /\ Handoff!AtMostOnce

\* Initially every FIFO and every batch is empty.
LEMMA OnceInit == Handoff!Init => OnceInv
  <1> SUFFICES ASSUME Handoff!Init PROVE OnceInv
    OBVIOUS
  <1>1. queue = [k \in Keys |-> <<>>] /\ Handed = [p \in Polls |-> <<>>] /\ Submitted = {}
    BY DEF Handoff!Init, Handed
  <1>2. /\ \A k \in Keys, n \in Nat, i \in Feedback : ~ Handoff!InPending(k, n, i)
        /\ \A p \in Polls, n \in Nat, i \in Feedback : ~ Handoff!InBatch(p, n, i)
    <2>1. \A p \in Polls : answer[p].feedback = <<>>
      BY <1>1 DEF Handed
    <2>2. \A k \in Keys : queue[k] = <<>>
      BY <1>1
    <2>3. \A n \in Nat : n \notin 1..0
      OBVIOUS
    <2> QED BY <2>1, <2>2, <2>3 DEF Handoff!InPending, Handoff!InBatch
  <1>3. Handoff!TypeOK
    <2>1. <<>> \in Seq(Feedback)
      BY EmptySeq
    <2>2. queue \in [Keys -> Seq(Feedback)] /\ Handed \in [Polls -> Seq(Feedback)]
      BY <1>1, <2>1
    <2> QED BY <1>1, <2>2 DEF Handoff!TypeOK, Handed
  <1> QED BY <1>2, <1>3 DEF OnceInv, Handoff!OnlySent, Handoff!AtMostOnce,
             Handoff!OncePending, Handoff!OnceHanded, Handoff!NotBoth

\* The positions of a FIFO after a Submit: the old ones and one more.
LEMMA SubmitPositions ==
  ASSUME Handoff!TypeOK, NEW k \in Keys, NEW i \in Feedback, Handoff!Submit(k, i)
  PROVE  /\ \A l \in Keys, n \in Nat, j \in Feedback :
              Handoff!InPending(l, n, j)' <=> \/ Handoff!InPending(l, n, j)
                                              \/ l = k /\ n = Len(queue[k]) + 1 /\ j = i
         /\ \A p \in Polls, n \in Nat, j \in Feedback :
              Handoff!InBatch(p, n, j)' <=> Handoff!InBatch(p, n, j)
  <1>1. queue \in [Keys -> Seq(Feedback)] /\ queue' = [queue EXCEPT ![k] = Append(@, i)]
    BY DEF Handoff!TypeOK, Handoff!Submit
  <1>2. ASSUME NEW l \in Keys, NEW n \in Nat, NEW j \in Feedback
        PROVE  Handoff!InPending(l, n, j)' <=> \/ Handoff!InPending(l, n, j)
                                               \/ l = k /\ n = Len(queue[k]) + 1 /\ j = i
    <2>1. CASE l = k
      BY <1>1, <2>1 DEF Handoff!InPending
    <2>2. CASE l # k
      BY <1>1, <2>2 DEF Handoff!InPending
    <2> QED BY <2>1, <2>2
  <1>3. UNCHANGED Handed
    BY DEF Handoff!Submit, Handed
  <1>4. ASSUME NEW p \in Polls PROVE answer'[p].feedback = answer[p].feedback
    BY <1>3 DEF Handed
  <1> QED BY <1>2, <1>4 DEF Handoff!InBatch

\* The positions after a HandOut: a batch takes over those of one FIFO.
LEMMA HandOutPositions ==
  ASSUME Handoff!TypeOK, NEW k \in Keys, NEW r \in Polls, Handoff!HandOut(k, r)
  PROVE  /\ \A l \in Keys, n \in Nat, j \in Feedback :
              Handoff!InPending(l, n, j)' <=> Handoff!InPending(l, n, j) /\ l # k
         /\ \A p \in Polls, n \in Nat, j \in Feedback :
              Handoff!InBatch(p, n, j)' <=> \/ p # r /\ Handoff!InBatch(p, n, j)
                                            \/ p = r /\ Handoff!InPending(k, n, j)
  <1>1. /\ queue \in [Keys -> Seq(Feedback)] /\ queue' = [queue EXCEPT ![k] = <<>>]
        /\ Handed' = [Handed EXCEPT ![r] = queue[k]]
    BY DEF Handoff!TypeOK, Handoff!HandOut, Handed
  <1>2. ASSUME NEW p \in Polls
        PROVE  answer'[p].feedback = IF p = r THEN queue[k] ELSE answer[p].feedback
    BY <1>1 DEF Handed
  <1> QED BY <1>1, <1>2 DEF Handoff!InPending, Handoff!InBatch

LEMMA OnceStep == OnceInv /\ [Handoff!Next]_(Handoff!vars) => OnceInv'
  <1> SUFFICES ASSUME OnceInv, [Handoff!Next]_(Handoff!vars) PROVE OnceInv'
    OBVIOUS
  <1> USE DEF OnceInv
  <1>1. ASSUME NEW k \in Keys, NEW i \in Feedback, Handoff!Submit(k, i) PROVE OnceInv'
    <2>1. Handoff!TypeOK'
      BY <1>1 DEF Handoff!TypeOK, Handoff!Submit
    <2>2. i \notin Submitted /\ Submitted' = Submitted \union {i}
      BY <1>1 DEF Handoff!Submit
    <2>3. Handoff!OnlySent'
      BY <1>1, <2>2, SubmitPositions DEF Handoff!OnlySent
    <2>4. Handoff!OncePending'
      BY <1>1, <2>2, SubmitPositions DEF Handoff!OncePending, Handoff!OnlySent, Handoff!AtMostOnce
    <2>5. Handoff!OnceHanded'
      BY <1>1, SubmitPositions DEF Handoff!OnceHanded, Handoff!AtMostOnce
    <2>6. Handoff!NotBoth'
      BY <1>1, <2>2, SubmitPositions DEF Handoff!NotBoth, Handoff!OnlySent, Handoff!AtMostOnce
    <2> QED BY <2>1, <2>3, <2>4, <2>5, <2>6 DEF Handoff!AtMostOnce
  <1>2. ASSUME NEW k \in Keys, NEW r \in Polls, Handoff!HandOut(k, r) PROVE OnceInv'
    <2>1. Handoff!TypeOK'
      BY <1>2 DEF Handoff!TypeOK, Handoff!HandOut
    <2>2. Handoff!OnlySent'
      <3>1. UNCHANGED Submitted
        BY <1>2 DEF Handoff!HandOut
      <3> QED BY <1>2, <3>1, HandOutPositions DEF Handoff!OnlySent
    <2>3. Handoff!OncePending'
      BY <1>2, HandOutPositions DEF Handoff!OncePending, Handoff!AtMostOnce
    <2>4. Handoff!OnceHanded'
      BY <1>2, HandOutPositions
         DEF Handoff!OnceHanded, Handoff!OncePending, Handoff!NotBoth, Handoff!AtMostOnce
    <2>5. Handoff!NotBoth'
      BY <1>2, HandOutPositions DEF Handoff!NotBoth, Handoff!OncePending, Handoff!AtMostOnce
    <2> QED BY <2>1, <2>2, <2>3, <2>4, <2>5 DEF Handoff!AtMostOnce
  <1>3. ASSUME queue' = [k \in Keys |-> <<>>] \/ queue' = queue,
               Handed' = Handed, Submitted' = Submitted
        PROVE  OnceInv'
    <2>1. /\ \A k \in Keys, n \in Nat, i \in Feedback :
                Handoff!InPending(k, n, i)' => Handoff!InPending(k, n, i)
          /\ \A p \in Polls, n \in Nat, i \in Feedback :
                Handoff!InBatch(p, n, i)' <=> Handoff!InBatch(p, n, i)
      <3>1. \A p \in Polls : answer'[p].feedback = answer[p].feedback
        BY <1>3 DEF Handed
      <3>2. \A k \in Keys : queue'[k] = <<>> \/ queue'[k] = queue[k]
        BY <1>3
      <3>3. \A n \in Nat : n \notin 1..0
        OBVIOUS
      <3> QED BY <3>1, <3>2, <3>3 DEF Handoff!InPending, Handoff!InBatch
    <2>2. Handoff!TypeOK'
      <3>1. <<>> \in Seq(Feedback)
        BY EmptySeq
      <3>2. queue \in [Keys -> Seq(Feedback)]
        BY DEF Handoff!TypeOK
      <3>3. queue' \in [Keys -> Seq(Feedback)]
        BY <1>3, <3>1, <3>2
      <3> QED BY <1>3, <3>3 DEF Handoff!TypeOK, Handed
    <2>3. Handoff!OnlySent'
      BY <1>3, <2>1 DEF Handoff!OnlySent
    <2>4. Handoff!AtMostOnce'
      BY <2>1 DEF Handoff!AtMostOnce, Handoff!OncePending, Handoff!OnceHanded, Handoff!NotBoth
    <2> QED BY <2>2, <2>3, <2>4
  <1>4. CASE Handoff!Forget \/ UNCHANGED Handoff!vars
    <2>1. /\ queue' = [k \in Keys |-> <<>>] \/ queue' = queue
          /\ Handed' = Handed /\ Submitted' = Submitted
      BY <1>4 DEF Handoff!Forget, Handoff!vars, Handed
    <2> QED BY <1>3, <2>1
  <1> QED BY <1>1, <1>2, <1>4 DEF Handoff!Next

(***************************************************************************)
(* The daemon never hands a Feedback out twice, nor keeps it pending once  *)
(* it was handed out: what SessionStore.takeFeedback promises two polls.   *)
(* The handoff never does, and the daemon implements it.                   *)
(***************************************************************************)
THEOREM HandedOutAtMostOnce == Spec => []Handoff!AtMostOnce
  <1>1. Handoff!Spec => []Handoff!AtMostOnce
    <2>1. OnceInv => Handoff!AtMostOnce
      BY DEF OnceInv
    <2> QED BY <2>1, OnceInit, OnceStep, PTL DEF Handoff!Spec
  <1> QED BY <1>1, LoopImplementsHandoff, PTL DEF ImplementsHandoff

------------------------------------------------------------------------------
(***************************************************************************)
(* A rider that is still queued when its End is done is queued in an ended *)
(* session, or in one that was opened again: what the poll that drains it  *)
(* will be told.  An End under way has found a session.                    *)
(***************************************************************************)
Reopened(k) == \E h \in Opens : SessionOf[h] = k /\ call[h] = "done"

UnderWay == {"body", "locking", "saving"}

RiderInv ==
  \A i \in SendEnds :
     /\ call[i] \in UnderWay => status[SessionOf[i]] # "none"
     /\ call[i] = "done" /\ i \in Elements(queue[SessionOf[i]])
          => status[SessionOf[i]] = "ended" \/ Reopened(SessionOf[i])

LEMMA RiderInit == Init => RiderInv
  BY DEF Init, RiderInv, UnderWay, Calls, Ends, ChromeEnds

\* No status moves, and no End with a rider is done by the step.
LEMMA RiderQuiet ==
  ASSUME RiderInv, UNCHANGED status,
         \A h \in Opens : call[h] = "done" => call'[h] = "done",
         \A i \in SendEnds :
            /\ call'[i] \in UnderWay => call[i] \in UnderWay \/ status[SessionOf[i]] # "none"
            /\ call'[i] = "done" /\ i \in Elements(queue'[SessionOf[i]])
                 => call[i] = "done" /\ i \in Elements(queue[SessionOf[i]])
  PROVE  RiderInv'
  BY DEF RiderInv, Reopened

LEMMA RiderStep == TypeOK /\ HandoffInv /\ RiderInv /\ [Next]_vars => RiderInv'
  <1> SUFFICES ASSUME TypeOK, HandoffInv, RiderInv, [Next]_vars PROVE RiderInv'
    OBVIOUS
  <1>0. /\ Opens \subseteq Calls /\ SendEnds \subseteq Calls /\ SendEnds \subseteq Ends
        /\ SendEnds \subseteq ChromeEnds
        /\ SendEnds \intersect (Opens \union Sends \union PlainEnds \union AgentEnds) = {}
        /\ \A h \in Calls : SessionOf[h] \in Keys
    BY ReviewLoopAssumption DEF Calls, Ends, ChromeEnds
  <1>1. ASSUME NEW h \in Calls, NEW c, call' = [call EXCEPT ![h] = c], c # "done",
               call[h] # "done",
               h \in SendEnds => (c \in UnderWay => call[h] \in UnderWay \/ status[SessionOf[h]] # "none"),
               UNCHANGED <<status, queue>>
        PROVE  RiderInv'
    <2>1. \A g \in Calls : call'[g] = IF g = h THEN c ELSE call[g]
      BY <1>1 DEF TypeOK
    <2> QED BY <1>0, <1>1, <2>1, RiderQuiet
  <1>2. ASSUME NEW h \in Calls, OpenArrives(h) \/ SendArrives(h) \/ AgentEndArrives(h) \/ PlainEndBody(h)
        PROVE  RiderInv'
    <2>1. PICK c : c # "done" /\ call' = [call EXCEPT ![h] = c]
      BY <1>2 DEF OpenArrives, SendArrives, AgentEndArrives, PlainEndBody
    <2>2. call[h] # "done" /\ h \notin SendEnds /\ UNCHANGED <<status, queue>>
      BY <1>0, <1>2 DEF OpenArrives, SendArrives, AgentEndArrives, PlainEndBody
    <2> QED BY <1>1, <2>1, <2>2
  <1>3. ASSUME NEW h \in Calls, LateEndBody(h) \/ StartSave(h) \/ LoseSave(h) \/ BodyFails(h) \/ WaitFails(h)
        PROVE  RiderInv'
    <2>1. PICK c : c # "done" /\ call' = [call EXCEPT ![h] = c] /\ (c \in UnderWay => call[h] \in UnderWay)
      BY <1>3 DEF LateEndBody, StartSave, LoseSave, BodyFails, WaitFails, UnderWay
    <2>2. call[h] # "done" /\ UNCHANGED <<status, queue>>
      BY <1>3 DEF LateEndBody, StartSave, LoseSave, BodyFails, WaitFails
    <2> QED BY <1>1, <2>1, <2>2
  <1>4. ASSUME NEW h \in Calls, ChromeEndArrives(h) PROVE RiderInv'
    <2>1. PICK c \in {"refused", "body", "late"} :
            call' = [call EXCEPT ![h] = c] /\ (c = "body" => status[SessionOf[h]] # "none")
      BY <1>4 DEF ChromeEndArrives
    <2>2. call[h] # "done" /\ UNCHANGED <<status, queue>>
      BY <1>4 DEF ChromeEndArrives
    <2>3. c \in UnderWay => c = "body"
      BY <2>1 DEF UnderWay
    <2> QED BY <1>1, <2>1, <2>2, <2>3
  <1>5. ASSUME NEW h \in Calls, SendBody(h) \/ RiderBody(h) PROVE RiderInv'
    <2>1. /\ UNCHANGED status /\ queue' = [queue EXCEPT ![SessionOf[h]] = Append(@, h)]
          /\ h \in Feedback /\ SessionOf[h] \in Keys /\ call[h] = "body"
      BY <1>0, <1>5 DEF SendBody, RiderBody, queueFeedback, Decodes, Feedback
    <2>2. \A k \in Keys : Elements(queue'[k]) \subseteq Elements(queue[k]) \union {h}
      <3>1. \A k \in Keys : queue[k] \in Seq(Feedback)
        BY DEF TypeOK
      <3>2. \A k \in Keys : queue'[k] = IF k = SessionOf[h] THEN Append(queue[k], h) ELSE queue[k]
        BY <2>1 DEF TypeOK
      <3> QED BY <2>1, <3>1, <3>2, AppendElements
    <2>3. PICK c : call' = [call EXCEPT ![h] = c] /\ (h \in SendEnds => c = "locking")
      BY <1>0, <1>5 DEF SendBody, RiderBody
    <2>4. \A g \in Calls : call'[g] = IF g = h THEN c ELSE call[g]
      BY <2>3 DEF TypeOK
    <2>5. ASSUME NEW i \in SendEnds
          PROVE  /\ call'[i] \in UnderWay => call[i] \in UnderWay
                 /\ call'[i] = "done" /\ i \in Elements(queue'[SessionOf[i]])
                      => call[i] = "done" /\ i \in Elements(queue[SessionOf[i]])
      BY <1>0, <2>1, <2>2, <2>3, <2>4 DEF UnderWay
    <2>6. \A g \in Opens : call[g] = "done" => call'[g] = "done"
      BY <1>0, <2>1, <2>4
    <2> QED BY <2>1, <2>5, <2>6, RiderQuiet
  <1>6. ASSUME NEW h \in Calls, SkipSave(h) PROVE RiderInv'
    <2>1. \A g \in Calls : call'[g] = IF g = h THEN "done" ELSE call[g]
      BY <1>6 DEF SkipSave, TypeOK
    <2>2. UNCHANGED <<status, queue>> /\ call[h] = "locking"
      BY <1>6 DEF SkipSave
    <2>3. h \in SendEnds => status[SessionOf[h]] = "ended"
      <3>1. h \in SendEnds => status[SessionOf[h]] # "open" /\ status[SessionOf[h]] # "none"
        BY <1>0, <1>6, <2>2 DEF SkipSave, NothingToSave, RiderInv, UnderWay
      <3> QED BY <1>0, <3>1 DEF TypeOK, Status
    <2>4. \A k : Reopened(k) => Reopened(k)'
      BY <1>0, <2>1 DEF Reopened
    <2> QED BY <1>0, <2>1, <2>2, <2>3, <2>4 DEF RiderInv, UnderWay
  <1>7. ASSUME NEW h \in Calls, FinishSave(h) PROVE RiderInv'
    <2>1. \A g \in Calls : call'[g] = IF g = h THEN "done" ELSE call[g]
      BY <1>7 DEF FinishSave, TypeOK
    <2>2. UNCHANGED queue /\ \A k \in Keys : status'[k] = IF k = SessionOf[h] THEN StatusAfter(h) ELSE status[k]
      BY <1>7 DEF FinishSave, NextSessions, TypeOK
    <2>3. \A k : Reopened(k) => Reopened(k)'
      BY <1>0, <2>1 DEF Reopened
    <2>4. StatusAfter(h) # "none" /\ (h \in Ends => StatusAfter(h) = "ended")
      BY DEF StatusAfter
    <2>5. h \notin Ends => h \in Opens \/ h \in Sends
      BY DEF Calls
    <2>6. ASSUME NEW i \in SendEnds, call'[i] \in UnderWay PROVE status'[SessionOf[i]] # "none"
      BY <1>0, <2>1, <2>2, <2>4, <2>6 DEF RiderInv, UnderWay
    <2>7. ASSUME NEW i \in SendEnds, call'[i] = "done", i \in Elements(queue'[SessionOf[i]])
          PROVE  status'[SessionOf[i]] = "ended" \/ Reopened(SessionOf[i])'
      <3>1. CASE i = h
        BY <1>0, <2>2, <2>4, <3>1
      <3>2. CASE i # h /\ SessionOf[i] # SessionOf[h]
        BY <1>0, <2>1, <2>2, <2>3, <2>7, <3>2 DEF RiderInv
      <3>3. CASE SessionOf[i] = SessionOf[h] /\ h \in Ends
        BY <1>0, <2>2, <2>4, <3>3
      <3>4. CASE SessionOf[i] = SessionOf[h] /\ h \in Opens
        BY <2>1, <3>4 DEF Reopened
      <3>5. h \notin Sends
        BY <1>7 DEF FinishSave, HandoffInv
      <3> QED BY <2>5, <3>1, <3>2, <3>3, <3>4, <3>5
    <2> QED BY <2>6, <2>7 DEF RiderInv
  <1>8. ASSUME UNCHANGED <<status, call>>,
               \A k \in Keys : queue'[k] = queue[k] \/ queue'[k] = <<>>
        PROVE  RiderInv'
    <2>1. \A k \in Keys : Elements(queue'[k]) \subseteq Elements(queue[k])
      BY <1>8 DEF Elements
    <2> QED BY <1>0, <1>8, <2>1, RiderQuiet
  <1>9. ASSUME NEW p \in Polls, PollNext(p) PROVE RiderInv'
    <2>1. UNCHANGED <<status, call>>
      BY <1>9 DEF PollNext, Waits, PollRefused, PollArrives, Deliver, TellEnded, Suspend, Wake,
           Tick, TimeOut, KillPoll, PrintAnswer, LoseAnswer
    <2>2. \A k \in Keys : queue'[k] = queue[k] \/ queue'[k] = <<>>
      BY <1>9 DEF PollNext, Waits, PollRefused, PollArrives, Deliver, TellEnded, Suspend, Wake,
           Tick, TimeOut, KillPoll, PrintAnswer, LoseAnswer, TypeOK
    <2> QED BY <1>8, <2>1, <2>2
  <1>10. CASE Restart
    <2>1. \A k \in Keys : Elements(queue'[k]) = {}
      BY <1>10 DEF Restart, Elements
    <2>2. \A i \in SendEnds : call'[i] \notin UnderWay
      BY <1>0, <1>10 DEF Restart, UnderWay
    <2> QED BY <1>0, <2>1, <2>2 DEF RiderInv
  <1>11. CASE UNCHANGED vars
    BY <1>8, <1>11 DEF vars
  <1> QED BY <1>2, <1>3, <1>4, <1>5, <1>6, <1>7, <1>9, <1>10, <1>11
          DEF Next, Arrives, Proceeds, Fails

LEMMA RiderTold ==
  TypeOK /\ WakeInv /\ RiderInv /\ [Next]_vars =>
    \A p \in Polls : \A i \in Elements(answer'[p].feedback) \ Elements(answer[p].feedback) :
      i \in SendEnds => answer'[p].ended \/ SilentRider(i) \/ Reopened(SessionOf[i])
  <1> SUFFICES ASSUME TypeOK, WakeInv, RiderInv, [Next]_vars, NEW p \in Polls, NEW i \in SendEnds,
                      i \in Elements(answer'[p].feedback), i \notin Elements(answer[p].feedback)
               PROVE  answer'[p].ended \/ SilentRider(i) \/ Reopened(SessionOf[i])
    OBVIOUS
  <1>1. answer'[p].feedback # answer[p].feedback
    OBVIOUS
  <1>2. PICK q \in Polls : Deliver(q) \/ TellEnded(q) \/ TimeOut(q)
    BY <1>1 DEF Next, Arrives, Proceeds, Fails, PollNext, Waits, OpenArrives, SendArrives,
         ChromeEndArrives, AgentEndArrives, SendBody, LateEndBody, RiderBody, PlainEndBody,
         StartSave, SkipSave, FinishSave, LoseSave, BodyFails, WaitFails, PollRefused, PollArrives,
         Suspend, Wake, Tick, KillPoll, PrintAnswer, LoseAnswer, Restart, vars
  <1>3. Deliver(p)
    <2>1. answer[p] \in Answer
      BY DEF TypeOK
    <2>2. TellEnded(p) \/ TimeOut(p) => answer'[p].feedback = answer[p].feedback
      BY <2>1, AnswerType DEF TellEnded, TimeOut, TypeOK
    <2>3. q # p => answer'[p] = answer[p]
      BY <1>2 DEF Deliver, TellEnded, TimeOut, TypeOK
    <2> QED BY <1>1, <1>2, <2>2, <2>3
  <1>4. /\ answer'[p].feedback = queue[SessionOf[p]]
        /\ answer'[p].ended = isEnded(SessionOf[p])
    BY <1>3 DEF Deliver, TypeOK
  <1>5. i \in Submitted /\ SessionOf[i] = SessionOf[p]
    BY <1>4, ReviewLoopAssumption DEF WakeInv, QueueKnown
  <1>6. call[i] = "done" \/ SilentRider(i)
    BY <1>5, ReviewLoopAssumption DEF Submitted, SilentRider, Ends, ChromeEnds
  <1>7. call[i] = "done" => status[SessionOf[i]] = "ended" \/ Reopened(SessionOf[i])
    BY <1>4, <1>5 DEF RiderInv
  <1> QED BY <1>4, <1>5, <1>6, <1>7 DEF isEnded

(***************************************************************************)
(* One settle returns a rider and the end, with no exceptions but the      *)
(* stated ones.                                                            *)
(***************************************************************************)
THEOREM RiderComesWithEnd == Spec => RiderBringsEnd
  <1>1. TypeOK /\ WakeInv /\ RiderInv /\ [Next]_vars =>
          [\A p \in Polls : \A i \in Elements(answer'[p].feedback) \ Elements(answer[p].feedback) :
             i \in SendEnds =>
               \/ answer'[p].ended
               \/ SilentRider(i)
               \/ \E h \in Opens : SessionOf[h] = SessionOf[i] /\ call[h] = "done"]_vars
    BY RiderTold DEF Reopened
  <1> QED BY <1>1, TypeInit, TypeStep, WakeInit, WakeStep, HandoffInvInit, HandoffInvStep,
             RiderInit, RiderStep, PTL
          DEF Spec, RiderBringsEnd

------------------------------------------------------------------------------
(***************************************************************************)
(* Presence.  The count of a session is the number of polls held there,    *)
(* which are finitely many at any time, and a delivery that was recorded   *)
(* has taken place.                                                        *)
(***************************************************************************)
Counts(k) == IsFiniteSet(OpenOn(k)) /\ openPolls[k] = Cardinality(OpenOn(k))

Delivered(k) == \E p \in Polls : SessionOf[p] = k /\ answer[p].feedback # <<>>

PresenceInv == \A k \in Keys : Counts(k) /\ (lastDelivery[k] => Delivered(k))

LEMMA PresenceInit == Init => PresenceInv
  <1> SUFFICES ASSUME Init, NEW k \in Keys PROVE Counts(k) /\ ~ lastDelivery[k]
    BY DEF PresenceInv
  <1>1. OpenOn(k) = {}
    BY DEF Init, OpenOn, Subscribed
  <1> QED BY <1>1, FS_EmptySet DEF Init, Counts

\* What was delivered stays delivered.
LEMMA StaysDelivered ==
  ASSUME TypeOK, [Next]_vars, NEW k, Delivered(k)
  PROVE  Delivered(k)'
  <1>1. PICK p \in Polls : SessionOf[p] = k /\ answer[p].feedback # <<>>
    BY DEF Delivered
  <1>2. answer'[p].feedback # <<>>
    <2>1. ASSUME NEW q \in Polls, Deliver(q) PROVE answer'[p].feedback # <<>>
      BY <1>1, <2>1 DEF Deliver, TypeOK
    <2>2. ASSUME NEW q \in Polls, TellEnded(q) \/ TimeOut(q) PROVE answer'[p].feedback # <<>>
      <3>1. answer[p] \in Answer
        BY DEF TypeOK
      <3>2. /\ [answer[p] EXCEPT !.ended = TRUE].feedback = answer[p].feedback
            /\ [answer[p] EXCEPT !.timedOut = TRUE].feedback = answer[p].feedback
        BY <3>1, AnswerType
      <3>3. answer'[p] \in {answer[p], [answer[p] EXCEPT !.ended = TRUE], [answer[p] EXCEPT !.timedOut = TRUE]}
        BY <2>2 DEF TellEnded, TimeOut, TypeOK
      <3> QED BY <1>1, <3>2, <3>3
    <2>3. CASE UNCHANGED answer
      BY <1>1, <2>3
    <2> QED BY <2>1, <2>2, <2>3
            DEF Next, Arrives, Proceeds, Fails, PollNext, Waits, OpenArrives, SendArrives,
                ChromeEndArrives, AgentEndArrives, SendBody, LateEndBody, RiderBody, PlainEndBody,
                StartSave, SkipSave, FinishSave, LoseSave, BodyFails, WaitFails, PollRefused,
                PollArrives, Suspend, Wake, Tick, KillPoll, PrintAnswer, LoseAnswer, Restart, vars
  <1> QED BY <1>1, <1>2 DEF Delivered

\* Nobody comes or goes.
LEMMA SamePolls ==
  ASSUME PresenceInv, UNCHANGED presenceVars,
         \A p \in Polls : Subscribed(p)' <=> Subscribed(p),
         \A k \in Keys : Delivered(k) => Delivered(k)'
  PROVE  PresenceInv'
  <1>1. \A k \in Keys : OpenOn(k)' = OpenOn(k)
    BY DEF OpenOn
  <1> QED BY <1>1 DEF PresenceInv, Counts

\* A poll leaves, with or without Feedback.
LEMMA PollLeaves ==
  ASSUME TypeOK, PresenceInv, NEW p \in Polls, Subscribed(p), NEW next, NEW d \in BOOLEAN,
         next \notin {"draining", "waiting"}, closePoll(p, next, d),
         \A k \in Keys : Delivered(k) => Delivered(k)',
         d => answer'[p].feedback # <<>>
  PROVE  PresenceInv'
  <1> SUFFICES ASSUME NEW k \in Keys PROVE Counts(k)' /\ (lastDelivery'[k] => Delivered(k)')
    BY DEF PresenceInv
  <1>1. \A q \in Polls : poll'[q] = IF q = p THEN next ELSE poll[q]
    BY DEF closePoll, TypeOK
  <1>2. SessionOf[p] \in Keys
    BY ReviewLoopAssumption
  <1>3. CASE k # SessionOf[p]
    <2>1. OpenOn(k)' = OpenOn(k)
      BY <1>1, <1>3 DEF OpenOn, Subscribed
    <2>2. openPolls'[k] = openPolls[k] /\ lastDelivery'[k] = lastDelivery[k]
      BY <1>2, <1>3 DEF closePoll, exitPoll, TypeOK
    <2> QED BY <2>1, <2>2 DEF PresenceInv, Counts
  <1>4. CASE k = SessionOf[p]
    <2>1. p \in OpenOn(k) /\ OpenOn(k)' = OpenOn(k) \ {p}
      BY <1>1, <1>4 DEF OpenOn, Subscribed
    <2>2. IsFiniteSet(OpenOn(k)) /\ openPolls[k] = Cardinality(OpenOn(k))
      BY DEF PresenceInv, Counts
    <2>3. IsFiniteSet(OpenOn(k) \ {p}) /\ Cardinality(OpenOn(k) \ {p}) = Cardinality(OpenOn(k)) - 1
      BY <2>1, <2>2, FS_RemoveElement
    <2>4. Cardinality(OpenOn(k)) # 0
      BY <2>1, <2>2, FS_EmptySet
    <2>5. openPolls'[k] = openPolls[k] - 1 /\ lastDelivery'[k] = d
      BY <1>2, <1>4, <2>2, <2>4 DEF closePoll, exitPoll, TypeOK
    <2>6. Counts(k)'
      BY <2>1, <2>2, <2>3, <2>5 DEF Counts
    <2>7. d => Delivered(k)'
      BY <1>4 DEF Delivered
    <2> QED BY <2>5, <2>6, <2>7
  <1> QED BY <1>3, <1>4

LEMMA PresenceStep == TypeOK /\ PresenceInv /\ [Next]_vars => PresenceInv'
  <1> SUFFICES ASSUME TypeOK, PresenceInv, [Next]_vars PROVE PresenceInv'
    OBVIOUS
  <1>1. \A k \in Keys : Delivered(k) => Delivered(k)'
    BY StaysDelivered
  <1>2. CASE UNCHANGED <<openPolls, lastDelivery, poll>>
    BY <1>1, <1>2, SamePolls DEF Subscribed
  <1>3. ASSUME NEW p \in Polls, PollArrives(p) PROVE PresenceInv'
    <2> SUFFICES ASSUME NEW k \in Keys PROVE Counts(k)' /\ (lastDelivery'[k] => Delivered(k)')
      BY DEF PresenceInv
    <2>1. /\ \A q \in Polls : poll'[q] = IF q = p THEN "draining" ELSE poll[q]
          /\ poll[p] = "idle" /\ UNCHANGED lastDelivery
          /\ openPolls' = [openPolls EXCEPT ![SessionOf[p]] = @ + 1]
      BY <1>3 DEF PollArrives, enterPoll, TypeOK
    <2>2. IsFiniteSet(OpenOn(k)) /\ openPolls[k] = Cardinality(OpenOn(k))
      BY DEF PresenceInv, Counts
    <2>3. CASE k # SessionOf[p]
      <3>1. OpenOn(k)' = OpenOn(k)
        BY <2>1, <2>3 DEF OpenOn, Subscribed
      <3> QED BY <1>1, <2>1, <2>2, <2>3, <3>1 DEF PresenceInv, Counts, TypeOK
    <2>4. CASE k = SessionOf[p]
      <3>1. p \notin OpenOn(k) /\ OpenOn(k)' = OpenOn(k) \union {p}
        BY <2>1, <2>4 DEF OpenOn, Subscribed
      <3>2. IsFiniteSet(OpenOn(k)') /\ Cardinality(OpenOn(k)') = Cardinality(OpenOn(k)) + 1
        BY <2>2, <3>1, FS_AddElement
      <3>3. openPolls'[k] = openPolls[k] + 1
        BY <2>1, <2>4 DEF TypeOK
      <3> QED BY <1>1, <2>1, <2>2, <3>2, <3>3 DEF PresenceInv, Counts
    <2> QED BY <2>3, <2>4
  <1>4. ASSUME NEW p \in Polls, Suspend(p) \/ Wake(p) \/ Tick(p) PROVE PresenceInv'
    <2>1. UNCHANGED presenceVars /\ \A q \in Polls : Subscribed(q)' <=> Subscribed(q)
      BY <1>4 DEF Suspend, Wake, Tick, Subscribed, TypeOK
    <2> QED BY <1>1, <2>1, SamePolls
  <1>5. ASSUME NEW p \in Polls, PollRefused(p) \/ PrintAnswer(p) \/ LoseAnswer(p) PROVE PresenceInv'
    <2>1. UNCHANGED presenceVars /\ \A q \in Polls : Subscribed(q)' <=> Subscribed(q)
      BY <1>5 DEF PollRefused, PrintAnswer, LoseAnswer, Subscribed, TypeOK
    <2> QED BY <1>1, <2>1, SamePolls
  <1>6. ASSUME NEW p \in Polls, Deliver(p) PROVE PresenceInv'
    <2>1. closePoll(p, "answered", TRUE) /\ Subscribed(p) /\ answer'[p].feedback # <<>>
      BY <1>6 DEF Deliver, Subscribed, TypeOK
    <2> QED BY <1>1, <2>1, PollLeaves
  <1>7. ASSUME NEW p \in Polls, TellEnded(p) \/ TimeOut(p) \/ KillPoll(p) PROVE PresenceInv'
    <2>1. PICK next \in {"answered", "dead"} : closePoll(p, next, FALSE) /\ Subscribed(p)
      BY <1>7 DEF TellEnded, TimeOut, KillPoll, Subscribed
    <2> QED BY <1>1, <2>1, PollLeaves
  <1>8. CASE Restart
    <2> SUFFICES ASSUME NEW k \in Keys PROVE Counts(k)' /\ ~ lastDelivery'[k]
      BY DEF PresenceInv
    <2>1. OpenOn(k)' = {}
      BY <1>8 DEF Restart, OpenOn, Subscribed
    <2>2. openPolls'[k] = 0 /\ ~ lastDelivery'[k]
      BY <1>8 DEF Restart
    <2> QED BY <2>1, <2>2, FS_EmptySet DEF Counts
  <1> QED BY <1>2, <1>3, <1>4, <1>5, <1>6, <1>7, <1>8
          DEF Next, Arrives, Proceeds, Fails, PollNext, Waits, OpenArrives, SendArrives,
              ChromeEndArrives, AgentEndArrives, SendBody, LateEndBody, RiderBody, PlainEndBody,
              StartSave, SkipSave, FinishSave, LoseSave, BodyFails, WaitFails, vars

(***************************************************************************)
(* The indicator tells the truth for any number of polls, however they     *)
(* overlap, settle, time out and are killed.                               *)
(***************************************************************************)
THEOREM PresenceTellsTheTruth == Spec => []PresenceTruthful
  <1>1. TypeOK /\ PresenceInv => PresenceTruthful
    <2> SUFFICES ASSUME TypeOK, PresenceInv, NEW k \in Keys
                 PROVE  /\ derivePresence(k) = "listening" <=> OpenOn(k) # {}
                        /\ derivePresence(k) = "working" => Delivered(k)
      BY DEF PresenceTruthful, Delivered
    <2>1. openPolls[k] \in Nat /\ (openPolls[k] = 0 <=> OpenOn(k) = {})
      BY FS_EmptySet DEF TypeOK, PresenceInv, Counts
    <2>2. CASE openPolls[k] > 0
      BY <2>1, <2>2 DEF derivePresence
    <2>3. CASE openPolls[k] = 0 /\ lastDelivery[k]
      BY <2>1, <2>3 DEF derivePresence, PresenceInv
    <2>4. CASE openPolls[k] = 0 /\ ~ lastDelivery[k]
      BY <2>1, <2>4 DEF derivePresence
    <2> QED BY <2>1, <2>2, <2>3, <2>4
  <1> QED BY <1>1, TypeInit, TypeStep, PresenceInit, PresenceStep, PTL DEF Spec

------------------------------------------------------------------------------
(***************************************************************************)
(* The Conversation.  What the human said, in the order of the thread, is  *)
(* what polls were handed followed by the queue: by positions, `handed` of *)
(* them have left the queue, and all those are in the set `read`.          *)
(***************************************************************************)
Said(k) == Only(thread[k], Feedback)

Read == {i \in Feedback : \E p \in Polls : i \in Elements(answer[p].feedback)}

Accounts(said, q, handed, read) ==
  /\ Len(said) = handed + Len(q)
  /\ \A n \in 1..Len(q) : q[n] = said[handed + n]
  /\ \A n \in 1..handed : said[n] \in read

ThreadInv == \A k \in Keys : \E handed \in Nat : Accounts(Said(k), queue[k], handed, Read)

LEMMA AccountsAppend ==
  ASSUME NEW A, NEW said \in Seq(A), NEW q \in Seq(A), NEW x \in A, NEW d \in Nat,
         NEW read, NEW more, read \subseteq more, Accounts(said, q, d, read)
  PROVE  Accounts(Append(said, x), Append(q, x), d, more)
  <1> DEFINE s == Append(said, x)
             r == Append(q, x)
  <1>1. /\ Len(s) = Len(said) + 1 /\ Len(r) = Len(q) + 1 /\ Len(said) \in Nat /\ Len(q) \in Nat
        /\ \A n \in 1..Len(said) : s[n] = said[n]
        /\ \A n \in 1..Len(q) : r[n] = q[n]
        /\ s[Len(said) + 1] = x /\ r[Len(q) + 1] = x
    OBVIOUS
  <1> HIDE DEF s, r
  <1>2. Len(said) = d + Len(q)
    BY DEF Accounts
  <1>3. ASSUME NEW n \in 1..Len(r) PROVE r[n] = s[d + n]
    <2>1. CASE n \in 1..Len(q)
      <3>1. d + n \in 1..Len(said)
        BY <1>1, <1>2, <2>1
      <3> QED BY <1>1, <2>1, <3>1 DEF Accounts
    <2>2. CASE n = Len(q) + 1
      <3>1. d + n = Len(said) + 1
        BY <1>1, <1>2, <2>2
      <3> QED BY <1>1, <2>2, <3>1
    <2> QED BY <1>1, <2>1, <2>2
  <1>4. ASSUME NEW n \in 1..d PROVE s[n] \in more
    <2>1. n \in 1..Len(said)
      BY <1>1, <1>2
    <2>2. said[n] \in read
      BY DEF Accounts
    <2> QED BY <1>1, <2>1, <2>2
  <1>5. Len(s) = d + Len(r)
    BY <1>1, <1>2
  <1>6. Accounts(s, r, d, more)
    BY <1>3, <1>4, <1>5 DEF Accounts
  <1> QED BY <1>6 DEF s, r

LEMMA AccountsHandOut ==
  ASSUME NEW A, NEW said \in Seq(A), NEW q \in Seq(A), NEW d \in Nat,
         NEW read, NEW more, read \subseteq more, \A n \in 1..Len(q) : q[n] \in more,
         Accounts(said, q, d, read)
  PROVE  Accounts(said, <<>>, Len(said), more)
  <1>1. Len(said) = d + Len(q) /\ Len(said) \in Nat /\ Len(q) \in Nat
    BY DEF Accounts
  <1>2. ASSUME NEW n \in 1..Len(said) PROVE said[n] \in more
    <2>1. CASE n \in 1..d
      BY <2>1 DEF Accounts
    <2>2. CASE n \notin 1..d
      <3> DEFINE m == n - d
      <3>1. m \in 1..Len(q) /\ d + m = n
        BY <1>1, <2>2
      <3> HIDE DEF m
      <3>2. q[m] = said[n]
        BY <3>1 DEF Accounts
      <3> QED BY <3>1, <3>2
    <2> QED BY <2>1, <2>2
  <1>3. Len(<<>>) = 0 /\ Len(said) = Len(said) + 0
    BY <1>1
  <1> QED BY <1>2, <1>3 DEF Accounts

LEMMA SaidType ==
  ASSUME TypeOK, NEW k \in Keys
  PROVE  Said(k) \in Seq(Feedback) /\ queue[k] \in Seq(Feedback)
  <1> DEFINE Speakers == Feedback \union Polls
  <1>1. thread[k] \in Seq(Speakers) /\ \A i : i \in Speakers /\ i \in Feedback <=> i \in Feedback
    BY DEF TypeOK
  <1>2. Speakers \intersect Feedback = Feedback
    OBVIOUS
  <1> HIDE DEF Speakers
  <1>3. Said(k) \in Seq(Speakers \intersect Feedback)
    BY <1>1, OnlyType DEF Said
  <1> QED BY <1>2, <1>3 DEF TypeOK

\* What is read stays read: a poll that is handed Feedback had none.
LEMMA StaysRead ==
  ASSUME TypeOK, HandoffInv, [Next]_vars
  PROVE  Read \subseteq Read'
  <1> SUFFICES ASSUME NEW i \in Feedback, NEW p \in Polls, i \in Elements(answer[p].feedback)
               PROVE  i \in Elements(answer'[p].feedback)
    BY DEF Read
  <1>1. answer[p] \in Answer
    BY DEF TypeOK
  <1>2. ASSUME NEW q \in Polls, Deliver(q) PROVE answer'[p] = answer[p]
    <2>1. answer[q].feedback = <<>>
      BY <1>2 DEF Deliver, HandoffInv
    <2>2. p # q
      BY <2>1 DEF Elements
    <2> QED BY <1>2, <2>2 DEF Deliver, TypeOK
  <1>3. ASSUME NEW q \in Polls, TellEnded(q) \/ TimeOut(q)
        PROVE  answer'[p].feedback = answer[p].feedback
    <2>1. answer'[p] \in {answer[p], [answer[p] EXCEPT !.ended = TRUE], [answer[p] EXCEPT !.timedOut = TRUE]}
      BY <1>3 DEF TellEnded, TimeOut, TypeOK
    <2>2. /\ [answer[p] EXCEPT !.ended = TRUE].feedback = answer[p].feedback
          /\ [answer[p] EXCEPT !.timedOut = TRUE].feedback = answer[p].feedback
      BY <1>1, AnswerType
    <2> QED BY <2>1, <2>2
  <1>4. CASE UNCHANGED answer
    BY <1>4
  <1> QED BY <1>2, <1>3, <1>4
          DEF Next, Arrives, Proceeds, Fails, PollNext, Waits, OpenArrives, SendArrives,
              ChromeEndArrives, AgentEndArrives, SendBody, LateEndBody, RiderBody, PlainEndBody,
              StartSave, SkipSave, FinishSave, LoseSave, BodyFails, WaitFails, PollRefused,
              PollArrives, Suspend, Wake, Tick, KillPoll, PrintAnswer, LoseAnswer, Restart, vars

\* One who speaks in one session: the thread of that session, as the human's part of it.
LEMMA Spoken ==
  ASSUME TypeOK, NEW k \in Keys, NEW who \in Feedback \union Polls, appendConversation(k, who)
  PROVE  \A l \in Keys :
           Said(l)' = IF l = k /\ who \in Feedback THEN Append(Said(l), who) ELSE Said(l)
  <1> DEFINE Speakers == Feedback \union Polls
  <1>1. /\ \A l \in Keys : thread[l] \in Seq(Speakers)
        /\ \A l \in Keys : thread'[l] = IF l = k THEN Append(thread[l], who) ELSE thread[l]
        /\ who \in Speakers
    BY DEF TypeOK, appendConversation
  <1> HIDE DEF Speakers
  <1>2. Only(Append(thread[k], who), Feedback)
          = IF who \in Feedback THEN Append(Only(thread[k], Feedback), who) ELSE Only(thread[k], Feedback)
    BY <1>1, OnlyAppend
  <1> QED BY <1>1, <1>2 DEF Said

LEMMA ThreadInit == Init => ThreadInv
  <1> SUFFICES ASSUME Init, NEW k \in Keys PROVE Accounts(Said(k), queue[k], 0, Read)
    BY DEF ThreadInv
  <1>1. Said(k) = <<>> /\ queue[k] = <<>>
    BY OnlyEmpty DEF Init, Said
  <1> QED BY <1>1 DEF Accounts

LEMMA ThreadStep == TypeOK /\ HandoffInv /\ ThreadInv /\ [Next]_vars => ThreadInv'
  <1> SUFFICES ASSUME TypeOK, HandoffInv, ThreadInv, [Next]_vars, NEW k \in Keys
               PROVE  \E handed \in Nat : Accounts(Said(k)', queue'[k], handed, Read')
    BY DEF ThreadInv
  <1>1. Read \subseteq Read'
    BY StaysRead
  <1>2. PICK d \in Nat : Accounts(Said(k), queue[k], d, Read)
    BY DEF ThreadInv
  <1>3. Said(k) \in Seq(Feedback) /\ queue[k] \in Seq(Feedback)
    BY SaidType
  <1>4. CASE Said(k)' = Said(k) /\ queue'[k] = queue[k]
    BY <1>1, <1>2, <1>4 DEF Accounts
  <1>5. CASE UNCHANGED <<thread, queue>>
    BY <1>4, <1>5 DEF Said
  <1>6. ASSUME NEW h \in Calls, SendBody(h) \/ RiderBody(h)
        PROVE  \E handed \in Nat : Accounts(Said(k)', queue'[k], handed, Read')
    <2>1. /\ h \in Feedback /\ SessionOf[h] \in Keys
          /\ queueFeedback(SessionOf[h], h) /\ appendConversation(SessionOf[h], h)
      BY <1>6, ReviewLoopAssumption DEF SendBody, RiderBody, Decodes, Feedback
    <2>2. CASE k # SessionOf[h]
      <3>1. Said(k)' = Said(k)
        BY <2>1, <2>2, Spoken
      <3>2. queue'[k] = queue[k]
        BY <2>1, <2>2 DEF queueFeedback, TypeOK
      <3> QED BY <1>4, <3>1, <3>2
    <2>3. CASE k = SessionOf[h]
      <3>1. Said(k)' = Append(Said(k), h)
        BY <2>1, <2>3, Spoken
      <3>2. queue'[k] = Append(queue[k], h)
        BY <2>1, <2>3 DEF queueFeedback, TypeOK
      <3>3. Accounts(Append(Said(k), h), Append(queue[k], h), d, Read')
        BY <1>1, <1>2, <1>3, <2>1, AccountsAppend
      <3> QED BY <3>1, <3>2, <3>3
    <2> QED BY <2>2, <2>3
  <1>7. ASSUME NEW p \in Polls, PollArrives(p)
        PROVE  \E handed \in Nat : Accounts(Said(k)', queue'[k], handed, Read')
    <2>1. p \in Feedback \union Polls /\ p \notin Feedback /\ SessionOf[p] \in Keys
      BY ReviewLoopAssumption DEF Feedback, Calls, Ends, ChromeEnds
    <2>2. Said(k)' = Said(k)
      BY <1>7, <2>1, Spoken DEF PollArrives, Said
    <2> QED BY <1>4, <1>7, <2>2 DEF PollArrives
  <1>8. ASSUME NEW p \in Polls, Deliver(p)
        PROVE  \E handed \in Nat : Accounts(Said(k)', queue'[k], handed, Read')
    <2>1. /\ Said(k)' = Said(k)
          /\ queue' = [queue EXCEPT ![SessionOf[p]] = <<>>]
          /\ answer'[p].feedback = queue[SessionOf[p]]
      BY <1>8 DEF Deliver, Said, TypeOK
    <2>2. CASE k # SessionOf[p]
      BY <1>4, <2>1, <2>2 DEF TypeOK
    <2>3. CASE k = SessionOf[p]
      <3>1. queue'[k] = <<>>
        BY <2>1, <2>3 DEF TypeOK
      <3>2. \A n \in 1..Len(queue[k]) : queue[k][n] \in Read'
        BY <1>3, <2>1, <2>3 DEF Read, Elements
      <3>3. Accounts(Said(k), <<>>, Len(Said(k)), Read')
        BY <1>1, <1>2, <1>3, <3>2, AccountsHandOut
      <3>4. Len(Said(k)) \in Nat
        BY <1>3
      <3> QED BY <2>1, <3>1, <3>3, <3>4
    <2> QED BY <2>2, <2>3
  <1>9. CASE Restart
    <2>1. Said(k)' = <<>> /\ queue'[k] = <<>>
      BY <1>9, OnlyEmpty DEF Restart, Said
    <2>2. Accounts(<<>>, <<>>, 0, Read')
      BY DEF Accounts
    <2> QED BY <2>1, <2>2
  <1> QED BY <1>5, <1>6, <1>7, <1>8, <1>9
          DEF Next, Arrives, Proceeds, Fails, PollNext, Waits, OpenArrives, SendArrives,
              ChromeEndArrives, AgentEndArrives, LateEndBody, PlainEndBody, StartSave, SkipSave,
              FinishSave, LoseSave, BodyFails, WaitFails, PollRefused, TellEnded, Suspend, Wake,
              Tick, TimeOut, KillPoll, PrintAnswer, LoseAnswer, vars

(***************************************************************************)
(* The thread the human sees accounts for every Feedback, for any number   *)
(* of sessions, requests and polls.                                        *)
(***************************************************************************)
THEOREM ThreadIsAccountedFor == Spec => []ThreadAccountsForFeedback
  <1>1. TypeOK /\ ThreadInv => ThreadAccountsForFeedback
    <2> SUFFICES ASSUME TypeOK, ThreadInv, NEW k \in Keys
                 PROVE  LET said   == Only(thread[k], Feedback)
                            handed == Len(said) - Len(queue[k])
                        IN /\ handed >= 0
                           /\ queue[k] = SubSeq(said, handed + 1, Len(said))
                           /\ \A n \in 1..handed : \E p \in Polls : said[n] \in Elements(answer[p].feedback)
      BY DEF ThreadAccountsForFeedback
    <2> DEFINE s == Said(k)
               q == queue[k]
    <2>0. PICK d \in Nat : Accounts(s, q, d, Read)
      BY DEF ThreadInv
    <2> DEFINE tail == SubSeq(s, d + 1, Len(s))
    <2>1. /\ s \in Seq(Feedback) /\ q \in Seq(Feedback) /\ Len(s) = d + Len(q)
          /\ \A n \in 1..Len(q) : q[n] = s[d + n]
          /\ \A n \in 1..d : s[n] \in Read
      BY <2>0, SaidType DEF Accounts
    <2> HIDE DEF s, q
    <2>2. \A n \in (d + 1)..Len(s) : s[n] \in Feedback
      BY <2>1
    <2>3. /\ tail \in Seq(Feedback) /\ Len(tail) = (IF d + 1 <= Len(s) THEN Len(s) - (d + 1) + 1 ELSE 0)
          /\ \A n \in 1..Len(s) - (d + 1) + 1 : tail[n] = s[(d + 1) + n - 1]
      BY <2>1, <2>2, SubSeqProperties
    <2>4. Len(tail) = Len(q)
      BY <2>1, <2>3
    <2>5. \A n \in 1..Len(q) : tail[n] = q[n]
      <3> TAKE n \in 1..Len(q)
      <3>1. n \in 1..Len(s) - (d + 1) + 1 /\ (d + 1) + n - 1 = d + n
        BY <2>1
      <3> HIDE DEF tail
      <3> QED BY <2>1, <2>3, <3>1
    <2>6. q = tail
      <3> HIDE DEF tail
      <3> QED BY <2>1, <2>3, <2>4, <2>5, SeqEqual
    <2>7. d = Len(s) - Len(q) /\ d >= 0
      BY <2>1
    <2>8. \A n \in 1..d : \E p \in Polls : s[n] \in Elements(answer[p].feedback)
      BY <2>1 DEF Read
    <2> HIDE DEF tail
    <2>9. /\ Len(s) - Len(q) >= 0
          /\ q = SubSeq(s, Len(s) - Len(q) + 1, Len(s))
          /\ \A n \in 1..Len(s) - Len(q) : \E p \in Polls : s[n] \in Elements(answer[p].feedback)
      BY <2>6, <2>7, <2>8 DEF tail
    <2> QED BY <2>9 DEF s, q, Said
  <1> QED BY <1>1, TypeInit, TypeStep, HandoffInvInit, HandoffInvStep, ThreadInit, ThreadStep, PTL DEF Spec
==============================================================================
