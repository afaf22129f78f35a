---------------------------- MODULE AgentLoopProofs ----------------------------
(***************************************************************************)
(* What holds of the agent's loop for any number of Sends and troubles.    *)
(***************************************************************************)
EXTENDS AgentLoop, TLAPS

USE DEF world, memory, agent

\* Every queued Feedback, and the Send under way, is one the human made; what the agent is
\* still to read is in the queue.
SentInv ==
  /\ queue + (IF posting THEN 1 ELSE 0) <= sends
  /\ fate \in {"waiting", "late"} => queue > 0

IInv == TypeOK /\ SentInv

\* Every document has a help line, which names a command.
LEMMA HelpNamesCommand ==
  ASSUME command \in Command, NEW doc \in Documents
  PROVE  help(doc) \in Command
  BY DEF help, otherwise, carryOn, namesNone, keepPolling, Command

LEMMA Printed ==
  ASSUME command \in Command, NEW doc \in Documents \ {"held"}, Prints(doc)
  PROVE  command' \in Command /\ document' \in Documents /\ document' # "held"
  BY HelpNamesCommand DEF Prints

\* With its daemon the queue is gone, and whatever was being posted.
LEMMA Gone ==
  ASSUME IInv, gone, file' \in BOOLEAN, daemon' \in Daemon, named' \in BOOLEAN, review' = review \/ review' = "open",
         command' \in Command, document' \in Documents \ {"held"}, sends' = sends, troubles' \in 0..MaxTroubles
  PROVE  IInv'
  <1>1. posting' \in BOOLEAN /\ ~ posting'
    BY Zenon DEF gone
  <1>2. queue' = 0 /\ 0 \in 0..MaxSends /\ sends \in Nat
    BY AgentLoopAssumption DEF gone, IInv, TypeOK
  <1>3. fate' \in Fate \ {"waiting", "late"}
    BY DEF gone, Fate, IInv, SentInv, TypeOK
  <1> QED BY <1>1, <1>2, <1>3 DEF IInv, SentInv, TypeOK

LEMMA Troubled ==
  ASSUME IInv, Trouble
  PROVE  troubles' \in 0..MaxTroubles
  BY AgentLoopAssumption DEF Trouble, IInv, TypeOK

LEMMA IInit == Init => IInv
  <1> SUFFICES ASSUME Init PROVE IInv
    OBVIOUS
  <1>1. file \in BOOLEAN /\ posting \in BOOLEAN /\ posting = FALSE
    BY Zenon DEF Init
  <1> QED BY <1>1, AgentLoopAssumption DEF Init, IInv, SentInv, TypeOK, Fate, Daemon, Command, Documents, Errors

\* The commands that leave the world as it is.
LEMMA SaysOnly ==
  ASSUME IInv, UNCHANGED <<world, sends, troubles>>, NEW doc \in Documents \ {"held"}, Prints(doc)
  PROVE  IInv'
  BY Printed DEF IInv, SentInv, TypeOK

LEMMA CommandStep ==
  ASSUME IInv, Acts \/ PollTimesOut \/ DecidesToEnd
  PROVE  IInv'
  <1>0. TypeOK /\ SentInv /\ command \in Command /\ queue \in Nat /\ sends \in Nat
    BY AgentLoopAssumption DEF IInv, TypeOK
  <1>1. CASE Home \/ Missing \/ Unexpected \/ Refused \/ PollTimesOut
    <2>1. UNCHANGED <<world, sends, troubles>>
      BY <1>1 DEF Home, Missing, Unexpected, Refused, PollTimesOut
    <2>2. \E doc \in Documents \ {"held"} : Prints(doc)
      BY <1>1 DEF Home, Missing, Unexpected, Refused, PollTimesOut, refusal, Documents, Errors
    <2> QED BY <2>1, <2>2, SaysOnly
  <1>2. CASE OpenReuses \/ OpenSpawns
    <2>1. /\ command' \in Command /\ document' \in Documents /\ document' # "held"
          /\ daemon' = "current" /\ review' = "open" /\ UNCHANGED <<file, sends, troubles>>
      BY <1>0, <1>2, Printed DEF OpenReuses, OpenSpawns, Opened, Documents
    <2>2. CASE OpenReuses
      BY <1>0, <2>1, <2>2 DEF OpenReuses, IInv, SentInv, TypeOK, Daemon
    <2>3. CASE OpenSpawns
      <3>1. named' \in BOOLEAN
        BY <2>3, Zenon DEF OpenSpawns
      <3> QED BY <1>0, <2>1, <2>3, <3>1, Gone DEF OpenSpawns, TypeOK, Daemon
    <2> QED BY <1>2, <2>2, <2>3
  <1>3. CASE TakeoverFails
    <2>1. /\ command' \in Command /\ document' \in Documents /\ document' # "held"
          /\ UNCHANGED <<file, review, sends>>
      BY <1>0, <1>3, Printed DEF TakeoverFails, Documents, Errors
    <2>2. troubles' \in 0..MaxTroubles
      BY <1>0, <1>3, Troubled DEF TakeoverFails, TypeOK
    <2>3. CASE UNCHANGED <<daemon, named, memory>>
      BY <1>0, <2>1, <2>2, <2>3 DEF IInv, SentInv, TypeOK
    <2>4. CASE daemon' = "none" /\ named' = FALSE /\ gone
      <3>1. named' \in BOOLEAN
        BY <2>4, Zenon
      <3> QED BY <1>0, <2>1, <2>2, <2>4, <3>1, Gone DEF TypeOK, Daemon
    <2> QED BY <1>3, <2>3, <2>4 DEF TakeoverFails
  <1>4. CASE StartTimesOut
    <2>1. /\ command' \in Command /\ document' \in Documents /\ document' # "held"
          /\ UNCHANGED <<file, review, sends>>
      BY <1>0, <1>4, Printed DEF StartTimesOut, Documents, Errors
    <2>2. troubles' \in 0..MaxTroubles
      BY <1>4, Troubled DEF StartTimesOut
    <2>3. named' \in BOOLEAN /\ daemon' \in Daemon
      <3>1. CASE daemon' = "none" /\ named' \in BOOLEAN
        BY <3>1 DEF Daemon
      <3>2. CASE daemon' = "current" /\ named' = TRUE
        <4>1. named' \in BOOLEAN
          BY <3>2, Zenon
        <4> QED BY <3>2, <4>1 DEF Daemon
      <3> QED BY <1>4, <3>1, <3>2 DEF StartTimesOut
    <2> QED BY <1>0, <1>4, <2>1, <2>2, <2>3, Gone DEF StartTimesOut, TypeOK
  <1>5. CASE Poll
    BY <1>0, <1>5 DEF Poll, idle, IInv, SentInv, TypeOK, Documents
  <1>6. CASE PollAtOnce \/ PollReturns
    <2>1. HandOut
      BY <1>6 DEF PollAtOnce, PollReturns
    <2>2. command' \in Command /\ document' \in Documents /\ document' # "held"
      BY <1>0, <2>1, Printed DEF HandOut, Documents
    <2>3. fate' \in Fate \ {"waiting", "late"}
      BY <1>0, <2>1 DEF HandOut, Fate, SentInv, TypeOK
    <2> QED BY <1>0, <1>6, <2>1, <2>2, <2>3, AgentLoopAssumption DEF PollAtOnce, PollReturns, HandOut, IInv, SentInv, TypeOK
  <1>7. CASE End
    <2>1. command' \in Command /\ document' \in Documents /\ document' # "held"
      BY <1>0, <1>7, Printed DEF End, Documents
    <2> QED BY <1>0, <1>7, <2>1 DEF End, IInv, SentInv, TypeOK
  <1>8. CASE Stop
    <2>1. command' \in Command /\ document' \in Documents /\ document' # "held"
      BY <1>0, <1>8, Printed DEF Stop, Documents
    <2>2. UNCHANGED <<file, review, sends, troubles>>
      BY <1>8 DEF Stop
    <2>3. CASE daemon' = "none" /\ named' = FALSE /\ gone
      <3>1. named' \in BOOLEAN
        BY <2>3, Zenon
      <3> QED BY <1>0, <2>1, <2>2, <2>3, <3>1, Gone DEF TypeOK, Daemon
    <2>4. CASE UNCHANGED <<daemon, named, memory>>
      BY <1>0, <2>1, <2>2, <2>4 DEF IInv, SentInv, TypeOK
    <2> QED BY <1>8, <2>3, <2>4 DEF Stop
  <1>9. CASE ByHand
    <2>1. command' \in Command /\ document' = document /\ UNCHANGED <<named, review, sends, troubles>> /\ document # "held"
      BY <1>0, <1>9 DEF ByHand, Command, TypeOK
    <2>2. CASE daemon' = "none" /\ gone /\ UNCHANGED file
      BY <1>0, <2>1, <2>2, Gone DEF TypeOK, Daemon
    <2>3. CASE file' = TRUE /\ UNCHANGED <<daemon, memory>>
      <3>1. file' \in BOOLEAN
        BY <2>3, Zenon
      <3> QED BY <1>0, <2>1, <2>3, <3>1 DEF IInv, SentInv, TypeOK
    <2> QED BY <1>9, <2>2, <2>3 DEF ByHand
  <1>10. CASE DecidesToEnd
    BY <1>0, <1>10 DEF DecidesToEnd, idle, IInv, SentInv, TypeOK, Command
  <1> QED BY <1>1, <1>2, <1>3, <1>4, <1>5, <1>6, <1>7, <1>8, <1>9, <1>10 DEF Acts

LEMMA WorldStep ==
  ASSUME IInv, HumanSends \/ SendLands \/ HumanEnds \/ DaemonExits \/ OtherOpens \/ Changes \/ PortFreed
  PROVE  IInv'
  <1>0. TypeOK /\ SentInv /\ command \in Command /\ queue \in Nat /\ sends \in Nat
    BY AgentLoopAssumption DEF IInv, TypeOK
  <1>1. CASE HumanSends
    <2>1. posting' \in BOOLEAN /\ posting' /\ ~ posting
      BY <1>1, Zenon DEF HumanSends
    <2> QED BY <1>0, <1>1, <2>1, AgentLoopAssumption DEF HumanSends, IInv, SentInv, TypeOK
  <1>2. CASE SendLands
    <2>1. posting' \in BOOLEAN /\ ~ posting' /\ posting
      BY <1>2, Zenon DEF SendLands
    <2>2. fate' \in Fate
      BY <1>2 DEF SendLands, Fate
    <2> QED BY <1>0, <1>2, <2>1, <2>2, AgentLoopAssumption DEF SendLands, IInv, SentInv, TypeOK
  <1>3. CASE HumanEnds
    BY <1>0, <1>3 DEF HumanEnds, IInv, SentInv, TypeOK
  <1>4. CASE DaemonExits
    <2>1. command' \in Command /\ document' \in Documents /\ document' # "held"
      <3>1. CASE idle /\ UNCHANGED agent
        BY <1>0, <3>1 DEF idle, TypeOK
      <3>2. CASE Prints("HttpClientError")
        BY <1>0, <3>2, Printed DEF Documents, Errors
      <3> QED BY <1>4, <3>1, <3>2 DEF DaemonExits
    <2>2. named' \in BOOLEAN /\ troubles' \in 0..MaxTroubles
      <3>1. named' \in BOOLEAN
        BY <1>4, Zenon DEF DaemonExits
      <3> QED BY <1>4, <3>1, Troubled DEF DaemonExits
    <2> QED BY <1>0, <1>4, <2>1, <2>2, Gone DEF DaemonExits, TypeOK, Daemon
  <1>5. CASE OtherOpens
    <2>1. command' \in Command /\ document' \in Documents /\ document' # "held"
      <3>1. CASE idle
        BY <1>0, <1>5, <3>1 DEF OtherOpens, idle, TypeOK
      <3>2. CASE Prints("HttpClientError")
        BY <1>0, <3>2, Printed DEF Documents, Errors
      <3> QED BY <1>5, <3>1, <3>2 DEF OtherOpens
    <2>2. named' \in BOOLEAN
      BY <1>5, Zenon DEF OtherOpens
    <2> QED BY <1>0, <1>5, <2>1, <2>2, Gone DEF OtherOpens, TypeOK, Daemon
  <1>6. CASE Changes
    <2>1. troubles' \in 0..MaxTroubles /\ UNCHANGED <<review, memory, agent, sends>>
      BY <1>6, Troubled DEF Changes
    <2>2. CASE daemon = "current" /\ daemon' = "older" /\ UNCHANGED <<file, named>>
      BY <1>0, <2>1, <2>2 DEF IInv, SentInv, TypeOK, Daemon
    <2>3. CASE daemon = "none" /\ daemon' = "other" /\ UNCHANGED <<file, named>>
      BY <1>0, <2>1, <2>3 DEF IInv, SentInv, TypeOK, Daemon
    <2>4. CASE named' = FALSE /\ UNCHANGED <<file, daemon>>
      <3>1. named' \in BOOLEAN
        BY <2>4, Zenon
      <3> QED BY <1>0, <2>1, <2>4, <3>1 DEF IInv, SentInv, TypeOK
    <2>5. CASE file' = FALSE /\ UNCHANGED <<daemon, named>>
      <3>1. file' \in BOOLEAN
        BY <2>5, Zenon
      <3> QED BY <1>0, <2>1, <2>5, <3>1 DEF IInv, SentInv, TypeOK
    <2> QED BY <1>6, <2>2, <2>3, <2>4, <2>5 DEF Changes
  <1>7. CASE PortFreed
    BY <1>0, <1>7 DEF PortFreed, IInv, SentInv, TypeOK, Daemon
  <1> QED BY <1>1, <1>2, <1>3, <1>4, <1>5, <1>6, <1>7

LEMMA IStep == IInv /\ [Next]_vars => IInv'
  <1> SUFFICES ASSUME IInv, [Next]_vars PROVE IInv'
    OBVIOUS
  <1>1. CASE UNCHANGED vars
    BY <1>1 DEF vars, IInv, SentInv, TypeOK
  <1> QED BY <1>1, CommandStep, WorldStep DEF Next

(***************************************************************************)
(* A long-poll is only held by a daemon of intervu on a session it has,    *)
(* and what is queued or being posted lives in such a daemon, whatever     *)
(* exits, upgrades and takeovers come between: every way a daemon goes     *)
(* breaks the poll it holds.                                               *)
(***************************************************************************)
THEOREM TypeCorrect == Spec => []TypeOK
  <1>1. IInv => TypeOK
    BY DEF IInv
  <1> QED BY IInit, IStep, <1>1, PTL DEF Spec
------------------------------------------------------------------------------
(***************************************************************************)
(* What SentIsRead needs in every state: an agent comes to rest only in a  *)
(* review that has ended, and beside a queue it was still to read only if  *)
(* it ended the review itself.  What came when it was at rest, and what    *)
(* went with its daemon, it was not to read any more.                      *)
(***************************************************************************)
RestsOnlyWhenRead ==
  command = "rest" =>
    /\ review = "ended" /\ document \in {"ended", "confirmed"}
    /\ document = "ended" => fate # "waiting"

\* Only the documents of an ended review send the agent to rest.
LEMMA WhatRests ==
  ASSUME NEW doc, Prints(doc), command # "rest", command' = "rest"
  PROVE  doc \in {"ended", "confirmed"} /\ document' = doc
  BY DEF Prints, help, otherwise, carryOn, namesNone, keepPolling

\* A document that says nothing of an end leads on.
LEMMA LeadsOn ==
  ASSUME NEW doc, Prints(doc), command # "rest", doc \notin {"ended", "confirmed"}
  PROVE  RestsOnlyWhenRead'
  BY WhatRests DEF RestsOnlyWhenRead

\* A command is not "rest", and what it prints leads on or tells of the end.
LEMMA RestCommands ==
  ASSUME IInv, Acts \/ PollTimesOut \/ DecidesToEnd
  PROVE  RestsOnlyWhenRead'
  <1>1. document = "held" => command = "poll"
    BY DEF IInv, TypeOK
  <1>2. CASE Home
    <2>1. command = "home" /\ \E doc \in {"reviews", "noReviews"} : Prints(doc)
      BY <1>2 DEF Home
    <2> QED BY <2>1, LeadsOn
  <1>3. CASE Missing \/ Unexpected
    <2>1. command \in {"open", "poll", "end"} /\ \E doc \in {"ArtifactNotFound", "HttpClientError"} : Prints(doc)
      BY <1>3 DEF Missing, Unexpected
    <2> QED BY <2>1, LeadsOn
  <1>4. CASE Refused
    <2>1. command \in {"poll", "end"} /\ Prints(refusal) /\ refusal \in {"DaemonNotRunning", "StaleDaemon", "ReviewNotOpen"}
      BY <1>4 DEF Refused, refusal
    <2> QED BY <2>1, LeadsOn
  <1>5. CASE OpenReuses \/ OpenSpawns \/ TakeoverFails \/ StartTimesOut
    <2>1. command = "open" /\ \E doc \in {"session", "StaleServerTakeover", "ServerStartTimeout"} : Prints(doc)
      BY <1>5 DEF OpenReuses, OpenSpawns, TakeoverFails, StartTimesOut, Opened
    <2> QED BY <2>1, LeadsOn
  <1>6. CASE Poll
    BY <1>6 DEF Poll, RestsOnlyWhenRead
  <1>7. CASE PollAtOnce \/ PollReturns
    <2>1. command = "poll" /\ HandOut
      BY <1>1, <1>7 DEF PollAtOnce, PollReturns
    <2>2. CASE review = "ended"
      <3>1. Prints("ended") /\ review' = "ended" /\ fate' # "waiting"
        BY <2>1, <2>2, AgentLoopAssumption DEF HandOut, IInv, SentInv, TypeOK
      <3> QED BY <3>1 DEF Prints, RestsOnlyWhenRead
    <2>3. CASE review # "ended"
      <3>1. Prints("feedback")
        BY <2>1, <2>3 DEF HandOut
      <3> QED BY <2>1, <3>1, LeadsOn
    <2> QED BY <2>2, <2>3
  <1>8. CASE End
    <2>1. Prints("confirmed") /\ review' = "ended"
      BY <1>8 DEF End
    <2> QED BY <2>1 DEF Prints, RestsOnlyWhenRead
  <1>9. CASE Stop
    <2>1. command = "stop" /\ \E doc \in {"stopped", "notStopped"} : Prints(doc)
      BY <1>9 DEF Stop
    <2> QED BY <2>1, LeadsOn
  <1>10. CASE ByHand \/ DecidesToEnd
    BY <1>10 DEF ByHand, DecidesToEnd, RestsOnlyWhenRead
  <1>11. CASE PollTimesOut
    <2>1. command = "poll" /\ Prints("timedOut")
      BY <1>1, <1>11 DEF PollTimesOut
    <2> QED BY <2>1, LeadsOn
  <1> QED BY <1>2, <1>3, <1>4, <1>5, <1>6, <1>7, <1>8, <1>9, <1>10, <1>11 DEF Acts

\* What happens around an agent at rest leaves it nothing to read: a Send comes too late.
LEMMA RestWorld ==
  ASSUME IInv, RestsOnlyWhenRead,
         HumanSends \/ SendLands \/ HumanEnds \/ DaemonExits \/ OtherOpens \/ Changes \/ PortFreed
  PROVE  RestsOnlyWhenRead'
  <1>1. CASE UNCHANGED <<agent, review, fate>>
    BY <1>1 DEF RestsOnlyWhenRead
  <1>2. CASE SendLands
    <2>1. UNCHANGED <<agent, review>>
      BY <1>2 DEF SendLands
    <2>2. command = "rest" => fate' = "late"
      BY <1>2 DEF SendLands
    <2> QED BY <2>1, <2>2 DEF RestsOnlyWhenRead
  <1>3. CASE HumanEnds
    BY <1>3 DEF HumanEnds, RestsOnlyWhenRead
  <1>4. CASE DaemonExits \/ OtherOpens
    <2>1. fate' \in {"dropped", fate} /\ review' = review
      BY <1>4 DEF DaemonExits, OtherOpens, gone
    <2>2. CASE UNCHANGED agent
      BY <2>1, <2>2 DEF RestsOnlyWhenRead
    <2>3. CASE command # "rest" /\ Prints("HttpClientError")
      BY <2>3, LeadsOn
    <2>4. ~idle => command = "poll"
      BY DEF idle, IInv, TypeOK
    <2> QED BY <1>4, <2>2, <2>3, <2>4 DEF DaemonExits, OtherOpens
  <1>5. CASE HumanSends \/ Changes \/ PortFreed
    BY <1>1, <1>5 DEF HumanSends, Changes, PortFreed
  <1> QED BY <1>2, <1>3, <1>4, <1>5

(***************************************************************************)
(* No help line takes the agent to rest beside a queue it could still      *)
(* read, whatever errors, exits and takeovers it was led through.          *)
(***************************************************************************)
THEOREM AgentRestsLast == Spec => []RestsOnlyWhenRead
  <1>1. Init => RestsOnlyWhenRead
    BY DEF Init, RestsOnlyWhenRead
  <1>2. IInv /\ RestsOnlyWhenRead /\ [Next]_vars => RestsOnlyWhenRead'
    <2> SUFFICES ASSUME IInv, RestsOnlyWhenRead, [Next]_vars PROVE RestsOnlyWhenRead'
      OBVIOUS
    <2>1. CASE UNCHANGED vars
      BY <2>1 DEF vars, RestsOnlyWhenRead
    <2> QED BY <2>1, RestCommands, RestWorld DEF Next
  <1> QED BY <1>1, <1>2, IInit, IStep, PTL DEF Spec
===============================================================================
