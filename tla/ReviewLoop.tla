------------------------------ MODULE ReviewLoop ------------------------------
(***************************************************************************)
(* The review loop inside one intervu daemon: the SessionStore and its     *)
(* state file, the presence and the wake-signals of the SessionHub, the    *)
(* long-poll FeedbackWait, and the HTTP handlers that drive them (open,    *)
(* feedback, poll and the two ends).                                       *)
(*                                                                         *)
(* The daemon is one JavaScript thread.  A handler runs without            *)
(* interruption from one suspension point to the next: waiting for the     *)
(* request body, for the store's mutex, for the state file, for a signal.  *)
(* An action below is one such run.                                        *)
(***************************************************************************)
EXTENDS Naturals, Sequences, FiniteSets, Selection

CONSTANTS
  Keys,           \* the session keys, one per artifact path
  Opens,          \* POST /sessions requests
  Sends,          \* POST /s/:key/feedback requests (the chrome's Send)
  SendEnds,       \* POST /s/:key/end requests with a rider (Send & end)
  PlainEnds,      \* POST /s/:key/end requests without one (the top bar's End)
  AgentEnds,      \* POST /end requests (intervu end)
  Polls,          \* POST /poll requests (intervu poll)
  BoundedPolls,   \* the polls that carry timeoutSeconds
  ReplyingPolls,  \* the polls that carry a non-blank agentReply
  Malformed,      \* the requests whose body fails its schema
  SessionOf,      \* [Calls \union Polls -> Keys]: the session a request names
  MaxRestarts     \* bound: how often the daemon is restarted

ChromeEnds == SendEnds \union PlainEnds
Ends       == ChromeEnds \union AgentEnds
Calls      == Opens \union Sends \union Ends

\* A Feedback is named by the request that carries it.
Feedback   == (Sends \union SendEnds) \ Malformed

ASSUME ReviewLoopAssumption ==
  /\ Opens \intersect (Sends \union Ends) = {}
  /\ Sends \intersect Ends = {}
  /\ SendEnds \intersect (PlainEnds \union AgentEnds) = {}
  /\ PlainEnds \intersect AgentEnds = {}
  /\ Calls \intersect Polls = {}
  /\ BoundedPolls \subseteq Polls
  /\ ReplyingPolls \subseteq Polls
  /\ Malformed \subseteq Sends \union ChromeEnds
  /\ SessionOf \in [Calls \union Polls -> Keys]
  /\ MaxRestarts \in Nat

VARIABLES
  status,        \* [Keys -> Status]: the sessions in the store's memory
  disk,          \* [Keys -> Status]: the sessions in state.json
  tmp,           \* [Keys -> Status]: the sessions last written to state.json.tmp
  queue,         \* [Keys -> Seq(Feedback)]: the undrained Feedback, memory only
  thread,        \* [Keys -> Seq(Feedback \union Polls)]: who spoke, in order
  openPolls,     \* [Keys -> Nat]: PresenceState.openPollCount
  lastDelivery,  \* [Keys -> BOOLEAN]: PresenceState.lastCloseWasDelivery
  call,          \* [Calls -> CallState]: where each short request is
  poll,          \* [Polls -> PollState]: where each long-poll is
  signals,       \* [Polls -> Nat]: wake-signals buffered in its subscription
  answer,        \* [Polls -> Answer]: the PollOutcome it settled with
  restarts       \* how often the daemon was restarted

sessionVars  == <<status, disk, tmp>>
presenceVars == <<openPolls, lastDelivery>>
pollVars     == <<poll, signals, answer>>
vars == <<status, disk, tmp, queue, thread, openPolls, lastDelivery,
          call, poll, signals, answer, restarts>>

Status == {"none", "open", "ended"}

(***************************************************************************)
(* A call waits for its body ("body"; "late" when the session it looked up *)
(* on arrival was already ended), for the store's mutex ("locking"), for   *)
(* the state file ("saving"), and ends "done", "noop" (the session was     *)
(* already ended), "refused" (nothing was changed) or "failed" (the save   *)
(* was not completed).                                                     *)
(***************************************************************************)
CallState == {"idle", "body", "late", "locking", "saving",
              "done", "noop", "refused", "failed"}

(***************************************************************************)
(* A poll is about to drain ("draining"), suspended on the race of signal  *)
(* and heartbeat ("waiting"), settled with its response on the way         *)
(* ("answered"), and then read by the CLI ("printed") or not ("dead").     *)
(***************************************************************************)
PollState == {"idle", "draining", "waiting", "answered", "printed", "dead", "refused"}

Answer == [feedback : Seq(Feedback), ended : BOOLEAN, timedOut : BOOLEAN]

Nothing == [feedback |-> <<>>, ended |-> FALSE, timedOut |-> FALSE]

TypeOK ==
  /\ status \in [Keys -> Status]
  /\ disk \in [Keys -> Status]
  /\ tmp \in [Keys -> Status]
  /\ queue \in [Keys -> Seq(Feedback)]
  /\ thread \in [Keys -> Seq(Feedback \union Polls)]
  /\ openPolls \in [Keys -> Nat]
  /\ lastDelivery \in [Keys -> BOOLEAN]
  /\ call \in [Calls -> CallState]
  /\ poll \in [Polls -> PollState]
  /\ signals \in [Polls -> Nat]
  /\ answer \in [Polls -> Answer]
  /\ restarts \in 0..MaxRestarts

\* The daemon starts with whatever an earlier one left in state.json.
Init ==
  /\ disk \in [Keys -> Status]
  /\ status = disk
  /\ tmp = disk
  /\ queue = [k \in Keys |-> <<>>]
  /\ thread = [k \in Keys |-> <<>>]
  /\ openPolls = [k \in Keys |-> 0]
  /\ lastDelivery = [k \in Keys |-> FALSE]
  /\ call = [h \in Calls |-> "idle"]
  /\ poll = [p \in Polls |-> "idle"]
  /\ signals = [p \in Polls |-> 0]
  /\ answer = [p \in Polls |-> Nothing]
  /\ restarts = 0

------------------------------------------------------------------------------
(***************************************************************************)
(* SessionHub: presence and wake-signals.                                  *)
(***************************************************************************)

\* The polls of session k that hold a subscription.
Subscribed(p) == poll[p] \in {"draining", "waiting"}
OpenOn(k) == {p \in Polls : Subscribed(p) /\ SessionOf[p] = k}

derivePresence(k) == CASE openPolls[k] > 0 -> "listening"
                       [] openPolls[k] = 0 /\ lastDelivery[k] -> "working"
                       [] openPolls[k] = 0 /\ ~ lastDelivery[k] -> "idle"

\* Mutant: a point-to-point queue in place of the PubSub wakes one subscriber.
publishWake_OneOnly(k) ==
  signals' = [p \in Polls |-> IF OpenOn(k) # {} /\ p = CHOOSE q \in OpenOn(k) : TRUE
                              THEN signals[p] + 1 ELSE signals[p]]

\* Publishing FeedbackQueued or SessionEnded buffers one wake-signal with every
\* subscriber of the session.  The other events wake no poll.
publishWake(k) ==
  signals' = [p \in Polls |-> IF p \in OpenOn(k) THEN signals[p] + 1 ELSE signals[p]]

enterPoll(k) == /\ openPolls' = [openPolls EXCEPT ![k] = @ + 1]
                /\ UNCHANGED lastDelivery

\* Mutant: the finalizer records the delivery and forgets the count.
exitPoll_KeepsCount(k, wasDelivery) ==
  /\ lastDelivery' = [lastDelivery EXCEPT ![k] = wasDelivery]
  /\ UNCHANGED openPolls

exitPoll(k, wasDelivery) ==
  /\ openPolls' = [openPolls EXCEPT ![k] = IF @ = 0 THEN 0 ELSE @ - 1]
  /\ lastDelivery' = [lastDelivery EXCEPT ![k] = wasDelivery]

------------------------------------------------------------------------------
(***************************************************************************)
(* SessionStore: the queue, the conversation and the session set.          *)
(***************************************************************************)
\* Mutants: the map entry is replaced in place of extended; the newest goes first.
queueFeedback_Overwrites(k, f) == queue' = [queue EXCEPT ![k] = <<f>>]
queueFeedback_Lifo(k, f) == queue' = [queue EXCEPT ![k] = <<f>> \o @]

queueFeedback(k, f) == queue' = [queue EXCEPT ![k] = Append(@, f)]

appendConversation(k, who) == thread' = [thread EXCEPT ![k] = Append(@, who)]

\* What call h makes of its session.
StatusAfter(h) == IF h \in Ends THEN "ended" ELSE "open"

\* The session set that call h saves and then installs.
NextSessions(h) == [status EXCEPT ![SessionOf[h]] = StatusAfter(h)]

\* Mutants: a plain Ref in place of the SynchronizedRef; a failed save keeps the mutex.
MutexFree_Always == TRUE
MutexFree_KeptOnFailure == \A h \in Calls : call[h] \notin {"saving", "failed"}

\* SynchronizedRef.modifyEffect: one saver at a time.
MutexFree == \A h \in Calls : call[h] # "saving"

\* Re-opening an open session, or ending one that is not open, saves nothing.
NothingToSave(h) == LET s == status[SessionOf[h]]
                    IN IF h \in Ends THEN s # "open" ELSE s = "open"

\* endSession publishes SessionEnded after store.end, whatever store.end did.
publishIfEnd(h) == IF h \in Ends THEN publishWake(SessionOf[h]) ELSE UNCHANGED signals

StartSave(h) ==
  /\ call[h] = "locking"
  /\ MutexFree
  /\ ~ NothingToSave(h)
  /\ tmp' = NextSessions(h)
  /\ call' = [call EXCEPT ![h] = "saving"]
  /\ UNCHANGED <<status, disk, queue, thread, presenceVars, pollVars, restarts>>

SkipSave(h) ==
  /\ call[h] = "locking"
  /\ MutexFree
  /\ NothingToSave(h)
  /\ call' = [call EXCEPT ![h] = "done"]
  /\ publishIfEnd(h)
  /\ UNCHANGED <<sessionVars, queue, thread, presenceVars, poll, answer, restarts>>

\* The rename completed: the set is installed, and a waiting poll is told of an end.
FinishSave(h) ==
  /\ call[h] = "saving"
  /\ disk' = tmp
  /\ status' = NextSessions(h)
  /\ call' = [call EXCEPT ![h] = "done"]
  /\ publishIfEnd(h)
  /\ UNCHANGED <<tmp, queue, thread, presenceVars, poll, answer, restarts>>

\* Mutant: the status flips although the save failed.
LoseSave_Flips(h) ==
  /\ call[h] = "saving"
  /\ disk' \in {disk, tmp}
  /\ status' = NextSessions(h)
  /\ call' = [call EXCEPT ![h] = "failed"]
  /\ UNCHANGED <<tmp, queue, thread, presenceVars, pollVars, restarts>>

\* A filesystem error, or the client went away while the save was on its way: the
\* handler stops there, and the rename may or may not have taken place.
LoseSave(h) ==
  /\ call[h] = "saving"
  /\ disk' \in {disk, tmp}
  /\ call' = [call EXCEPT ![h] = "failed"]
  /\ UNCHANGED <<status, tmp, queue, thread, presenceVars, pollVars, restarts>>

------------------------------------------------------------------------------
(***************************************************************************)
(* The short handlers of Server.                                           *)
(***************************************************************************)
OpenArrives(h) ==
  /\ h \in Opens
  /\ call[h] = "idle"
  /\ call' = [call EXCEPT ![h] = "locking"]
  /\ UNCHANGED <<sessionVars, queue, thread, presenceVars, pollVars, restarts>>

\* withSession and the 409 check read the status before the body is awaited.
SendArrives(h) ==
  /\ h \in Sends
  /\ call[h] = "idle"
  /\ call' = [call EXCEPT ![h] = IF status[SessionOf[h]] = "open" THEN "body" ELSE "refused"]
  /\ UNCHANGED <<sessionVars, queue, thread, presenceVars, pollVars, restarts>>

\* Mutant: the body is not validated against ValidFeedback.
Decodes_Always(h) == TRUE

Decodes(h) == h \notin Malformed

\* Queue, signal, then append to the Conversation, all in one run.
SendBody(h) ==
  /\ h \in Sends
  /\ call[h] = "body"
  /\ Decodes(h)
  /\ queueFeedback(SessionOf[h], h)
  /\ publishWake(SessionOf[h])
  /\ appendConversation(SessionOf[h], h)
  /\ call' = [call EXCEPT ![h] = "done"]
  /\ UNCHANGED <<sessionVars, presenceVars, poll, answer, restarts>>

ChromeEndArrives(h) ==
  /\ h \in ChromeEnds
  /\ call[h] = "idle"
  /\ \/ status[SessionOf[h]] = "none"  /\ call' = [call EXCEPT ![h] = "refused"]
     \/ status[SessionOf[h]] = "open"  /\ call' = [call EXCEPT ![h] = "body"]
     \/ status[SessionOf[h]] = "ended" /\ call' = [call EXCEPT ![h] = "late"]
  /\ UNCHANGED <<sessionVars, queue, thread, presenceVars, pollVars, restarts>>

\* endSession drops the rider of a session that was ended when it was looked up.
LateEndBody(h) ==
  /\ call[h] = "late"
  /\ Decodes(h)
  /\ call' = [call EXCEPT ![h] = "noop"]
  /\ UNCHANGED <<sessionVars, queue, thread, presenceVars, pollVars, restarts>>

\* The rider is queued and spoken without a wake-signal, before the status flips.
RiderBody(h) ==
  /\ h \in SendEnds
  /\ call[h] = "body"
  /\ Decodes(h)
  /\ queueFeedback(SessionOf[h], h)
  /\ appendConversation(SessionOf[h], h)
  /\ call' = [call EXCEPT ![h] = "locking"]
  /\ UNCHANGED <<sessionVars, presenceVars, pollVars, restarts>>

PlainEndBody(h) ==
  /\ h \in PlainEnds
  /\ call[h] = "body"
  /\ Decodes(h)
  /\ call' = [call EXCEPT ![h] = "locking"]
  /\ UNCHANGED <<sessionVars, queue, thread, presenceVars, pollVars, restarts>>

\* The path-addressed end reads its body first, so its look-up is fresh.
AgentEndArrives(h) ==
  /\ h \in AgentEnds
  /\ call[h] = "idle"
  /\ \/ status[SessionOf[h]] = "none"  /\ call' = [call EXCEPT ![h] = "refused"]
     \/ status[SessionOf[h]] = "open"  /\ call' = [call EXCEPT ![h] = "locking"]
     \/ status[SessionOf[h]] = "ended" /\ call' = [call EXCEPT ![h] = "noop"]
  /\ UNCHANGED <<sessionVars, queue, thread, presenceVars, pollVars, restarts>>

\* The body fails its schema, or the client goes away before it is complete.
BodyFails(h) ==
  /\ call[h] \in {"body", "late"}
  /\ call' = [call EXCEPT ![h] = "refused"]
  /\ UNCHANGED <<sessionVars, queue, thread, presenceVars, pollVars, restarts>>

\* The client goes away while its handler waits for the mutex.
WaitFails(h) ==
  /\ call[h] = "locking"
  /\ call' = [call EXCEPT ![h] = "failed"]
  /\ UNCHANGED <<sessionVars, queue, thread, presenceVars, pollVars, restarts>>

------------------------------------------------------------------------------
(***************************************************************************)
(* The poll route and FeedbackWait.wait.                                   *)
(***************************************************************************)
PollRefused(p) ==
  /\ poll[p] = "idle"
  /\ status[SessionOf[p]] = "none"
  /\ poll' = [poll EXCEPT ![p] = "refused"]
  /\ UNCHANGED <<sessionVars, queue, thread, presenceVars, call, signals, answer, restarts>>

\* The reply is spoken, then the poll subscribes and enters, before its first drain.
PollArrives(p) ==
  /\ poll[p] = "idle"
  /\ status[SessionOf[p]] # "none"
  /\ IF p \in ReplyingPolls THEN appendConversation(SessionOf[p], p) ELSE UNCHANGED thread
  /\ enterPoll(SessionOf[p])
  /\ poll' = [poll EXCEPT ![p] = "draining"]
  /\ UNCHANGED <<sessionVars, queue, call, signals, answer, restarts>>

isEnded(k) == status[k] = "ended"

\* The scope of a poll closes: the subscription and its buffer go, presence is told.
closePoll(p, next, wasDelivery) ==
  /\ poll' = [poll EXCEPT ![p] = next]
  /\ signals' = [signals EXCEPT ![p] = 0]
  /\ exitPoll(SessionOf[p], wasDelivery)

\* Mutant: the status is looked at only when there is no Feedback.
Deliver_FeedbackOnly(p) ==
  LET k == SessionOf[p] IN
  /\ poll[p] = "draining"
  /\ queue[k] # <<>>
  /\ answer' = [answer EXCEPT ![p].feedback = queue[k]]
  /\ queue' = [queue EXCEPT ![k] = <<>>]
  /\ closePoll(p, "answered", TRUE)
  /\ UNCHANGED <<sessionVars, thread, call, restarts>>

\* takeFeedback found something: it leaves with the poll, and so does the status.
Deliver(p) ==
  LET k == SessionOf[p] IN
  /\ poll[p] = "draining"
  /\ queue[k] # <<>>
  /\ answer' = [answer EXCEPT ![p] = [feedback |-> queue[k],
                                      ended    |-> isEnded(k),
                                      timedOut |-> FALSE]]
  /\ queue' = [queue EXCEPT ![k] = <<>>]
  /\ closePoll(p, "answered", TRUE)
  /\ UNCHANGED <<sessionVars, thread, call, restarts>>

TellEnded(p) ==
  /\ poll[p] = "draining"
  /\ queue[SessionOf[p]] = <<>>
  /\ isEnded(SessionOf[p])
  /\ answer' = [answer EXCEPT ![p].ended = TRUE]
  /\ closePoll(p, "answered", FALSE)
  /\ UNCHANGED <<sessionVars, queue, thread, call, restarts>>

\* Nothing to tell: suspend on the race of awaitWake and the heartbeat.
Suspend(p) ==
  /\ poll[p] = "draining"
  /\ queue[SessionOf[p]] = <<>>
  /\ ~ isEnded(SessionOf[p])
  /\ poll' = [poll EXCEPT ![p] = "waiting"]
  /\ UNCHANGED <<sessionVars, queue, thread, presenceVars, call, signals, answer, restarts>>

Wake(p) ==
  /\ poll[p] = "waiting"
  /\ signals[p] > 0
  /\ signals' = [signals EXCEPT ![p] = @ - 1]
  /\ poll' = [poll EXCEPT ![p] = "draining"]
  /\ UNCHANGED <<sessionVars, queue, thread, presenceVars, call, answer, restarts>>

\* Mutant: no heartbeat arm in the race.
Tick_Never(p) == poll[p] = "waiting" /\ FALSE /\ UNCHANGED vars

\* The heartbeat wins the race; the subscription keeps what it has buffered.
Tick(p) ==
  /\ poll[p] = "waiting"
  /\ poll' = [poll EXCEPT ![p] = "draining"]
  /\ UNCHANGED <<sessionVars, queue, thread, presenceVars, call, signals, answer, restarts>>

TimeOut(p) ==
  /\ p \in BoundedPolls
  /\ Subscribed(p)
  /\ answer' = [answer EXCEPT ![p].timedOut = TRUE]
  /\ closePoll(p, "answered", FALSE)
  /\ UNCHANGED <<sessionVars, queue, thread, call, restarts>>

\* The CLI is killed while its poll is held: the request's scope is interrupted.
KillPoll(p) ==
  /\ Subscribed(p)
  /\ closePoll(p, "dead", FALSE)
  /\ UNCHANGED <<sessionVars, queue, thread, call, answer, restarts>>

PrintAnswer(p) ==
  /\ poll[p] = "answered"
  /\ poll' = [poll EXCEPT ![p] = "printed"]
  /\ UNCHANGED <<sessionVars, queue, thread, presenceVars, call, signals, answer, restarts>>

\* The CLI is killed, or the connection lost, after the poll was settled.
LoseAnswer(p) ==
  /\ poll[p] = "answered"
  /\ poll' = [poll EXCEPT ![p] = "dead"]
  /\ UNCHANGED <<sessionVars, queue, thread, presenceVars, call, signals, answer, restarts>>

------------------------------------------------------------------------------
\* The daemon stops, at any point, and the next CLI command spawns another, which
\* loads state.json.  A rename on its way may or may not have taken place.
Restart ==
  /\ restarts < MaxRestarts
  /\ restarts' = restarts + 1
  /\ disk' \in IF MutexFree THEN {disk} ELSE {disk, tmp}
  /\ status' = disk'
  /\ queue' = [k \in Keys |-> <<>>]
  /\ thread' = [k \in Keys |-> <<>>]
  /\ openPolls' = [k \in Keys |-> 0]
  /\ lastDelivery' = [k \in Keys |-> FALSE]
  /\ call' = [h \in Calls |-> CASE call[h] \in {"body", "late"}      -> "refused"
                                [] call[h] \in {"locking", "saving"} -> "failed"
                                [] OTHER                             -> call[h]]
  /\ poll' = [p \in Polls |-> IF Subscribed(p) THEN "dead" ELSE poll[p]]
  /\ signals' = [p \in Polls |-> 0]
  /\ UNCHANGED <<tmp, answer>>

Arrives(h)  == OpenArrives(h) \/ SendArrives(h) \/ ChromeEndArrives(h) \/ AgentEndArrives(h)
Proceeds(h) == \/ SendBody(h) \/ LateEndBody(h) \/ RiderBody(h) \/ PlainEndBody(h)
               \/ StartSave(h) \/ SkipSave(h) \/ FinishSave(h)
Fails(h)    == BodyFails(h) \/ WaitFails(h) \/ LoseSave(h)
Waits(p)    == Deliver(p) \/ TellEnded(p) \/ Suspend(p) \/ Wake(p) \/ Tick(p)
PollNext(p) == \/ PollRefused(p) \/ PollArrives(p) \/ Waits(p) \/ TimeOut(p)
               \/ KillPoll(p) \/ PrintAnswer(p) \/ LoseAnswer(p)

Next == \/ \E h \in Calls : Arrives(h) \/ Proceeds(h) \/ Fails(h)
        \/ \E p \in Polls : PollNext(p)
        \/ Restart

Spec == Init /\ [][Next]_vars

(***************************************************************************)
(* Fairness.  The daemon's own fibers go on: a poll that may drain does,   *)
(* one that has a signal takes it, its heartbeat timer fires, a handler    *)
(* gets the free mutex, and a save completes or fails.  Requests, their    *)
(* bodies, the CLI reading an answer and restarts are left to chance.      *)
(***************************************************************************)
Fairness ==
  /\ \A p \in Polls : /\ WF_vars(Deliver(p) \/ TellEnded(p) \/ Suspend(p))
                      /\ WF_vars(Wake(p))
                      /\ WF_vars(Tick(p))
  /\ \A h \in Calls : /\ WF_vars(StartSave(h) \/ SkipSave(h))
                      /\ WF_vars(FinishSave(h) \/ LoseSave(h))

LiveSpec == Spec /\ Fairness

------------------------------------------------------------------------------
(***************************************************************************)
(* Safety.                                                                 *)
(***************************************************************************)
Elements(s) == {s[n] : n \in DOMAIN s}

\* Feedback may be queued without a signal only while the End that carries it has
\* not been answered, or after that End failed.
SilentRider(i) == i \in SendEnds /\ call[i] \in {"locking", "saving", "failed"}

(***************************************************************************)
(* A suspended poll with no signal buffered has nothing to be woken for:   *)
(* its session is not ended, and whatever is queued is the rider of an End *)
(* still under way (or failed).  This is what subscribe-then-check and     *)
(* queue-then-publish are for (FeedbackWait.wait, feedbackRoute).          *)
(***************************************************************************)
NoLostWakeup ==
  \A p \in Polls :
     poll[p] = "waiting" /\ signals[p] = 0
       => /\ status[SessionOf[p]] # "ended"
          /\ \A i \in Elements(queue[SessionOf[p]]) : SilentRider(i)

(***************************************************************************)
(* What the Conversation shows the human to have said is what the agent    *)
(* was handed, followed by what is still queued, in the same order: the    *)
(* daemon never shows a Feedback as sent that it dropped or reordered.     *)
(***************************************************************************)
ThreadAccountsForFeedback ==
  \A k \in Keys :
     LET said   == Only(thread[k], Feedback)
         handed == Len(said) - Len(queue[k])
     IN /\ handed >= 0
        /\ queue[k] = SubSeq(said, handed + 1, Len(said))
        /\ \A n \in 1..handed : \E p \in Polls : said[n] \in Elements(answer[p].feedback)

(***************************************************************************)
(* state.json differs from the store's memory in the status of a session   *)
(* only if a call about that session failed to complete its save.  (So a   *)
(* restart changes nothing that was answered.)                             *)
(***************************************************************************)
DiskMatchesMemory ==
  \A k \in Keys : disk[k] # status[k] =>
     \E h \in Calls : SessionOf[h] = k /\ call[h] = "failed" /\ disk[k] = StatusAfter(h)

(***************************************************************************)
(* The indicator the human sees is true: `listening` exactly while a poll  *)
(* of the session is held, and `working` only after one left with          *)
(* Feedback (derivePresence, however polls overlap and are killed).        *)
(***************************************************************************)
PresenceTruthful ==
  \A k \in Keys :
     /\ derivePresence(k) = "listening" <=> OpenOn(k) # {}
     /\ derivePresence(k) = "working" =>
          \E p \in Polls : SessionOf[p] = k /\ answer[p].feedback # <<>>

(***************************************************************************)
(* A review is opened only by an open and ended only by an end of that     *)
(* very session, restarts included: no save of another session, and no     *)
(* state file a crash left behind, moves a status nobody asked to move.    *)
(***************************************************************************)
StatusMovesOnRequest ==
  [][\A k \in Keys : status'[k] # status[k] =>
        \E h \in Calls : /\ SessionOf[h] = k
                         /\ StatusAfter(h) = status'[k]
                         /\ call'[h] \in {"done", "failed"}]_vars

(***************************************************************************)
(* The poll that hands out the rider of a Send & end also tells the agent  *)
(* that the review is ended, unless that End is still saving the status or *)
(* failed, or the session was opened again.  (FeedbackWait.ts:31 has no    *)
(* such exception: "so one settle returns both".)                          *)
(***************************************************************************)
RiderBringsEnd ==
  [][\A p \in Polls : \A i \in Elements(answer'[p].feedback) \ Elements(answer[p].feedback) :
        i \in SendEnds =>
          \/ answer'[p].ended
          \/ SilentRider(i)
          \/ \E h \in Opens : SessionOf[h] = SessionOf[i] /\ call[h] = "done"]_vars

------------------------------------------------------------------------------
(***************************************************************************)
(* The loop implements the handoff it promises.                            *)
(***************************************************************************)
Submitted == {i \in Feedback :
                \/ i \in Sends /\ call[i] = "done"
                \/ i \in SendEnds /\ call[i] \in {"locking", "saving", "done", "failed"}}

Handoff == INSTANCE FeedbackHandoff WITH
             Reviews <- Keys, Items <- Feedback, Readers <- Polls,
             pending <- queue, sent <- Submitted,
             batch <- [p \in Polls |-> answer[p].feedback]

(***************************************************************************)
(* Feedback is handed out first in first out, at most once, all that is    *)
(* pending at a time, and a poll that times out or is killed while held    *)
(* leaves the queue as it is.                                              *)
(***************************************************************************)
ImplementsHandoff == Handoff!Spec

------------------------------------------------------------------------------
(***************************************************************************)
(* Liveness.                                                               *)
(***************************************************************************)

(***************************************************************************)
(* A held poll does not stay while there is something to tell: Feedback,   *)
(* the rider of an End whose save failed before its signal included, or    *)
(* the end of the session, unless it is opened again first.                *)
(***************************************************************************)
HeldPollsAreTold ==
  \A p \in Polls :
     LET k == SessionOf[p] IN
     (Subscribed(p) /\ (queue[k] # <<>> \/ status[k] = "ended"))
       ~> (~ Subscribed(p) \/ (queue[k] = <<>> /\ status[k] # "ended"))

(***************************************************************************)
(* Every open and every end that reached the store's mutex is answered:    *)
(* an interrupted or failed save releases it (SynchronizedRef).            *)
(***************************************************************************)
MutexIsReleased ==
  \A h \in Calls : call[h] = "locking" ~> call[h] \in {"done", "failed"}

------------------------------------------------------------------------------
(***************************************************************************)
(* What the documentation says, and the code does not do.                  *)
(***************************************************************************)

(***************************************************************************)
(* README.md and SKILL.md: a poll is "safe to kill and re-run", queued     *)
(* Feedback is never lost.                                                 *)
(***************************************************************************)
KilledPollLosesNothing ==
  \A p \in Polls : poll[p] = "dead" => answer[p].feedback = <<>>
==============================================================================
