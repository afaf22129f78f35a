------------------------------- MODULE AgentLoop -------------------------------
(***************************************************************************)
(* The agent's side of one review: the commands of the CLI on one          *)
(* artifact, the document each prints, and an agent that does what the     *)
(* document's help line says, and only that, unless it ends the review of  *)
(* its own accord.  Around it the human sends and ends, and trouble comes: *)
(* the daemon exits or is orphaned, the CLI is upgraded past it, the       *)
(* artifact is moved, another program has the port, a start is too slow.   *)
(*                                                                         *)
(* A command is one step here, but for the long-poll, which is held; what  *)
(* goes on inside is DaemonLifecycle's and ReviewLoop's.                   *)
(***************************************************************************)
EXTENDS Naturals

CONSTANTS
  MaxSends,     \* bound: Feedback sent by the human
  MaxTroubles   \* bound: things that go wrong

ASSUME AgentLoopAssumption == MaxSends \in Nat /\ MaxTroubles \in Nat

VARIABLES
  file,       \* whether the artifact is where the agent looks for it
  daemon,     \* who answers on the port
  named,      \* whether the pidfile names the daemon
  review,     \* the session of the artifact, in state.json
  queue,      \* how much Feedback the daemon has queued, in memory
  posting,    \* whether a Send is accepted whose body has not arrived
  fate,       \* history: what became of the Feedback queued last
  command,    \* the command the agent runs next
  document,   \* what its last command printed
  sends, troubles     \* counters of the bounds

world == <<file, daemon, named, review, queue, posting, fate>>
memory == <<queue, posting, fate>>
agent == <<command, document>>
vars  == <<file, daemon, named, review, queue, posting, fate, command, document, sends, troubles>>

\* "older" and "current": daemons of intervu; "other": some other program.
Daemon == {"none", "older", "current", "other"}

Command == {"home", "open", "poll", "end", "stop", "kill", "locate", "rest"}

Errors == {"ArtifactNotFound", "ReviewNotOpen", "DaemonNotRunning", "StaleDaemon",
           "StaleServerTakeover", "ServerStartTimeout", "HttpClientError"}

\* "waiting": the agent is still to read it; "late": it came when the agent was at rest;
\* "dropped": it went with the daemon's memory.
Fate == {"none", "waiting", "late", "read", "dropped"}

\* "held" is no document: the long-poll has not returned.
Documents == Errors \union {"nothing", "held", "reviews", "noReviews", "session", "feedback",
                            "timedOut", "ended", "confirmed", "stopped", "notStopped"}

(***************************************************************************)
(* Types, and: a daemon of intervu holds a poll, of a session it has,      *)
(* and a queue lives in a daemon, of a session that has been opened.       *)
(***************************************************************************)
TypeOK ==
  /\ file \in BOOLEAN /\ daemon \in Daemon /\ named \in BOOLEAN
  /\ review \in {"none", "open", "ended"} /\ queue \in 0..MaxSends
  /\ command \in Command /\ document \in Documents
  /\ posting \in BOOLEAN /\ fate \in Fate
  /\ sends \in 0..MaxSends /\ troubles \in 0..MaxTroubles
  /\ document = "held" => daemon \in {"older", "current"} /\ review # "none" /\ command = "poll"
  /\ queue > 0 \/ posting => daemon \in {"older", "current"} /\ review # "none"

\* A fresh agent session is shown the home view.
Init ==
  /\ file = TRUE
  /\ daemon \in {"none", "older", "current"}
  /\ named \in BOOLEAN
  /\ review \in {"none", "open", "ended"}
  /\ queue = 0 /\ posting = FALSE /\ fate = "none"
  /\ command = "home" /\ document = "nothing"
  /\ sends = 0 /\ troubles = 0

------------------------------------------------------------------------------
(***************************************************************************)
(* The command that the help line of a document names; "rest": none, the   *)
(* review is over.                                                         *)
(***************************************************************************)
keepPolling == {"reviews", "session", "feedback", "timedOut"}

\* Documents that name no command.  What stop prints tells what happened: the agent goes on
\* with the help line that sent it there ("run 'intervu stop' (or kill it manually), then
\* re-run").  An error of the HTTP client names the log: the agent is taken to try again.
carryOn(doc) ==
  CASE doc = "stopped"    -> "open"
    [] doc = "notStopped" -> "kill"
    [] OTHER              -> command

namesNone == {"stopped", "notStopped", "HttpClientError"}

otherwise(doc) ==
  CASE doc = "ArtifactNotFound"       -> "locate"
    [] doc = "StaleServerTakeover"    -> "stop"
    [] doc \in {"ended", "confirmed"} -> "rest"
    [] doc \in namesNone              -> carryOn(doc)
    [] OTHER -> "open"    \* noReviews, ReviewNotOpen, DaemonNotRunning, StaleDaemon,
                          \* ServerStartTimeout

\* Mutants: poll again at a stale daemon; rest after a timeout.
help_PollAgain(doc) == IF doc \in keepPolling \union {"StaleDaemon"} THEN "poll" ELSE otherwise(doc)
help_Rests(doc)     == IF doc = "timedOut" THEN "rest" ELSE IF doc \in keepPolling THEN "poll" ELSE otherwise(doc)

help(doc) == IF doc \in keepPolling THEN "poll" ELSE otherwise(doc)

Prints(doc) ==
  /\ document' = doc
  /\ command' = help(doc)

\* Something goes wrong once more.
Trouble ==
  /\ troubles < MaxTroubles
  /\ troubles' = troubles + 1

idle == document # "held"

------------------------------------------------------------------------------
(***************************************************************************)
(* The commands.                                                           *)
(***************************************************************************)
Home ==
  /\ command = "home"
  /\ Prints(IF review = "open" THEN "reviews" ELSE "noReviews")
  /\ UNCHANGED <<world, sends, troubles>>

\* What the ways of a daemon's end have in common: its memory is gone, with what is queued.
gone ==
  /\ queue' = 0 /\ posting' = FALSE
  /\ fate' = IF queue > 0 THEN "dropped" ELSE fate

\* A daemon of this version answers; the session is opened, or resurrected.
Opened ==
  /\ daemon' = "current"
  /\ review' = "open"
  /\ Prints("session")
  /\ UNCHANGED <<file, sends>>

OpenReuses ==
  /\ command = "open" /\ file /\ daemon = "current"
  /\ Opened
  /\ UNCHANGED <<named, memory, troubles>>

OpenSpawns ==
  /\ command = "open" /\ file
  /\ daemon = "none" \/ (daemon = "older" /\ named)
  /\ named' = TRUE /\ gone
  /\ Opened
  /\ UNCHANGED troubles

\* An older daemon that no pidfile names cannot be signalled; one that is may not exit in
\* time, and exits later or is still there.
TakeoverFails ==
  /\ command = "open" /\ file /\ daemon = "older"
  /\ \/ ~named /\ UNCHANGED <<daemon, named, memory, troubles>>
     \/ named /\ Trouble
          /\ \/ UNCHANGED <<daemon, named, memory>>
             \/ daemon' = "none" /\ named' = FALSE /\ gone
  /\ Prints("StaleServerTakeover")
  /\ UNCHANGED <<file, review, sends>>

\* The spawned daemon is not healthy within five seconds; it may be a little later.
StartTimesOut ==
  /\ command = "open" /\ file
  /\ daemon = "none" \/ (daemon = "older" /\ named)
  /\ Trouble
  /\ \/ daemon' = "none" /\ named' \in BOOLEAN
     \/ daemon' = "current" /\ named' = TRUE
  /\ gone
  /\ Prints("ServerStartTimeout")
  /\ UNCHANGED <<file, review, sends>>

\* What every command on the artifact says first.
Missing ==
  /\ command \in {"open", "poll", "end"} /\ idle /\ ~file
  /\ Prints("ArtifactNotFound")
  /\ UNCHANGED <<world, sends, troubles>>

\* The answer on the port is not intervu's.
Unexpected ==
  /\ command \in {"open", "poll", "end"} /\ idle /\ file /\ daemon = "other"
  /\ Prints("HttpClientError")
  /\ UNCHANGED <<world, sends, troubles>>

\* poll and end spawn and replace nothing, and find only what was opened.
refusal == CASE daemon = "none"  -> "DaemonNotRunning"
             [] daemon = "older" -> "StaleDaemon"
             [] OTHER            -> "ReviewNotOpen"

Refused ==
  /\ command \in {"poll", "end"} /\ idle /\ file
  /\ daemon \in {"none", "older"} \/ (daemon = "current" /\ review = "none")
  /\ Prints(refusal)
  /\ UNCHANGED <<world, sends, troubles>>

\* What is queued, with the end if the review has ended.
HandOut ==
  /\ queue > 0 \/ review = "ended"
  /\ Prints(IF review = "ended" THEN "ended" ELSE "feedback")
  /\ queue' = 0
  /\ fate' = IF queue > 0 THEN "read" ELSE fate
  /\ UNCHANGED <<file, daemon, named, review, posting, sends, troubles>>

\* A poll drains before it waits.
PollAtOnce ==
  /\ command = "poll" /\ idle /\ file /\ daemon = "current" /\ review # "none"
  /\ HandOut

Poll ==
  /\ command = "poll" /\ idle /\ file /\ daemon = "current"
  /\ queue = 0 /\ review = "open"
  /\ document' = "held"
  /\ UNCHANGED <<command, world, sends, troubles>>

PollReturns == document = "held" /\ HandOut

\* The bound that the agent may have asked for, which may overtake a wake-up.
PollTimesOut ==
  /\ document = "held"
  /\ Prints("timedOut")
  /\ UNCHANGED <<world, sends, troubles>>

End ==
  /\ command = "end" /\ file /\ daemon = "current" /\ review # "none"
  /\ review' = "ended"
  /\ Prints("confirmed")
  /\ UNCHANGED <<file, daemon, named, memory, sends, troubles>>

Stop ==
  /\ command = "stop"
  /\ IF named /\ daemon \in {"older", "current"}
       THEN daemon' = "none" /\ named' = FALSE /\ gone /\ Prints("stopped")
       ELSE Prints("notStopped") /\ UNCHANGED <<daemon, named, memory>>
  /\ UNCHANGED <<file, review, sends, troubles>>

\* "or kill it manually", "run with an existing artifact": the agent acts itself.
ByHand ==
  /\ \/ command = "kill" /\ daemon' = "none" /\ gone /\ UNCHANGED file
     \/ command = "locate" /\ file' = TRUE /\ UNCHANGED <<daemon, memory>>
  /\ command' = "open"
  /\ UNCHANGED <<document, named, review, sends, troubles>>

\* The agent has had enough of a review it was told to poll.
DecidesToEnd ==
  /\ command = "poll" /\ idle
  /\ command' = "end"
  /\ UNCHANGED <<document, world, sends, troubles>>

------------------------------------------------------------------------------
(***************************************************************************)
(* The human, and trouble.                                                 *)
(***************************************************************************)
HumanSends ==
  /\ daemon \in {"older", "current"} /\ review = "open" /\ sends < MaxSends /\ ~posting
  /\ sends' = sends + 1
  /\ posting' = TRUE
  /\ UNCHANGED <<file, daemon, named, review, queue, fate, agent, troubles>>

\* The status was looked at before the body was waited for: the review may have ended, and
\* the agent have been told so.
SendLands ==
  /\ posting
  /\ posting' = FALSE
  /\ queue' = queue + 1
  /\ fate' = IF command = "rest" THEN "late" ELSE "waiting"
  /\ UNCHANGED <<file, daemon, named, review, agent, sends, troubles>>

HumanEnds ==
  /\ daemon \in {"older", "current"} /\ review = "open"
  /\ review' = "ended"
  /\ UNCHANGED <<file, daemon, named, memory, agent, sends, troubles>>

\* Mutant: a long-poll outlives its daemon.
DaemonExits_Unnoticed ==
  /\ daemon \in {"older", "current"} /\ Trouble
  /\ daemon' = "none" /\ named' = FALSE /\ gone
  /\ UNCHANGED <<file, review, agent, sends>>

\* A crash, a stop or an exit, which breaks the request that is under way.
DaemonExits ==
  /\ daemon \in {"older", "current"} /\ Trouble
  /\ daemon' = "none" /\ named' = FALSE /\ gone
  /\ \/ idle /\ UNCHANGED agent
     \/ command \in {"open", "poll", "end"} /\ file /\ Prints("HttpClientError")
  /\ UNCHANGED <<file, review, sends>>

\* Another agent opens another artifact.
OtherOpens ==
  /\ daemon = "none" \/ (daemon = "older" /\ named)
  /\ daemon' = "current" /\ named' = TRUE /\ gone
  /\ IF idle THEN UNCHANGED agent ELSE Prints("HttpClientError")
  /\ UNCHANGED <<file, review, sends, troubles>>

\* The CLI is upgraded past the daemon, another program takes the port, the pidfile is lost
\* to an overlapping server, the artifact is moved.
Changes ==
  /\ Trouble
  /\ \/ daemon = "current" /\ daemon' = "older" /\ UNCHANGED <<file, named>>
     \/ daemon = "none" /\ daemon' = "other" /\ UNCHANGED <<file, named>>
     \/ named' = FALSE /\ UNCHANGED <<file, daemon>>
     \/ file' = FALSE /\ UNCHANGED <<daemon, named>>
  /\ UNCHANGED <<review, memory, agent, sends>>

PortFreed ==
  /\ daemon = "other"
  /\ daemon' = "none"
  /\ UNCHANGED <<file, named, review, memory, agent, sends, troubles>>

------------------------------------------------------------------------------
Acts ==
  \/ Home \/ Missing \/ Unexpected \/ Refused
  \/ OpenReuses \/ OpenSpawns \/ TakeoverFails \/ StartTimesOut
  \/ Poll \/ PollAtOnce \/ PollReturns \/ End \/ Stop \/ ByHand

Next == Acts \/ PollTimesOut \/ DecidesToEnd \/ HumanSends \/ SendLands \/ HumanEnds \/ DaemonExits \/ OtherOpens \/ Changes \/ PortFreed

Spec == Init /\ [][Next]_vars

\* The agent goes on and its commands return; nobody has to send, to end or to free the port.
LiveSpec == Spec /\ WF_vars(Acts)

------------------------------------------------------------------------------
(***************************************************************************)
(* Properties.                                                             *)
(***************************************************************************)
\* Whatever error a command prints, an agent that follows the help lines comes to hold a poll,
\* to a poll's document or to the end of the review, unless another program has the port
\* (ErrorReport.ts:26 "so the agent recovers in one turn"; it takes a few).
AgentRecovers ==
  document \in Errors ~> (document \in {"held", "feedback", "timedOut", "ended", "confirmed"} \/ daemon = "other")

\* What the human sent while the agent was listening or on its way back is handed to it,
\* unless the agent ends the review itself: no help line leads away from a queue that is still
\* there.  A queue does not outlive its daemon: it goes when the daemon exits, and also when a
\* help line makes the agent replace, stop or kill it (ErrorReport.ts:83-99, ADR 0015).
SentIsRead == fate = "waiting" ~> (fate \in {"read", "dropped"} \/ document = "confirmed")

==============================================================================
