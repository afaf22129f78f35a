------------------------------ MODULE LiveChannel ------------------------------
(***************************************************************************)
(* The server-to-browser channel of one session (ADR 0010): the SSE route  *)
(* of the daemon, the EventSource of each page (tab), and what the page    *)
(* shows.  The Conversation lives in the daemon's memory and is replayed   *)
(* from Last-Event-ID; Presence and the ended state are replayed fresh;    *)
(* everything else arrives live, in the order it was published.            *)
(*                                                                         *)
(* What moves the session (Sends, replies, polls, ends) is ReviewLoop's    *)
(* subject; here it is the environment, one action per event it publishes. *)
(***************************************************************************)
EXTENDS Naturals, Sequences, FiniteSets

CONSTANTS
  Tabs,           \* the pages that may be opened on the session
  MaxSaid,        \* bound: entries of the Conversation, per daemon
  MaxMoves,       \* bound: presence changes
  MaxDrops,       \* bound: lost connections and reloaded pages
  MaxEnds,        \* bound: ends, each of which may be resurrected
  MaxRestarts     \* bound: daemon restarts

ASSUME LiveChannelAssumption ==
  /\ MaxSaid \in Nat /\ MaxMoves \in Nat /\ MaxDrops \in Nat
  /\ MaxEnds \in Nat /\ MaxRestarts \in Nat

VARIABLES
  epoch,      \* how often the daemon was restarted
  said,       \* the length of the Conversation in this daemon: the last seq
  presence,   \* the session's derived Presence
  ended,      \* whether the session's status is ended
  endedAt,    \* history: the length of the Conversation when the session last ended
  stream,     \* [Tabs -> StreamState]: the daemon's side of the connection
  after,      \* [Tabs -> Nat]: the Last-Event-ID its request carried
  pipe,       \* [Tabs -> Seq(Frame)]: frames published or written and not yet received
  page,       \* [Tabs -> PageState]
  born,       \* [Tabs -> Nat]: the epoch in which the page was loaded
  rendered,   \* [Tabs -> Seq(Entry)]: the bubbles of the page
  lastId,     \* [Tabs -> Nat]: the EventSource's last event ID
  shown,      \* [Tabs -> Presence]: the indicator of the page
  moves, drops, ends      \* counters of the bounds

daemonVars == <<epoch, said, presence, ended, endedAt>>
pageVars   == <<page, born, rendered, lastId, shown>>
counters   == <<moves, drops, ends>>
vars == <<epoch, said, presence, ended, endedAt, stream, after, pipe,
          page, born, rendered, lastId, shown, moves, drops, ends>>

Presence == {"idle", "listening", "working"}

\* "subscribed": the hub subscription is held and the watcher is being tracked.
StreamState == {"none", "subscribed", "live"}

\* An EventSource retries until the page closes it ("ended") or is gone ("none").
PageState == {"none", "open", "ended"}

\* Entries of different daemons may have the same seq.
Entry == [seq : Nat, epoch : Nat]

Frame == [tag : {"said"}, entry : Entry] \union [tag : {"presence"}, presence : Presence]
           \union [tag : {"ended"}, said : Nat]

SaidFrame(n)     == [tag |-> "said", entry |-> [seq |-> n, epoch |-> epoch]]
PresenceFrame(p) == [tag |-> "presence", presence |-> p]

\* "said" is not on the wire: it is what was said before the end the frame tells of.
EndedFrame(n) == [tag |-> "ended", said |-> n]

(***************************************************************************)
(* Types, and: only an open page holds a connection, and nothing is in     *)
(* flight without one (a page closes its EventSource on the ended frame,   *)
(* and a disconnect tears the server's stream down).                       *)
(***************************************************************************)
TypeOK ==
  /\ epoch \in 0..MaxRestarts
  /\ said \in 0..MaxSaid
  /\ presence \in Presence
  /\ ended \in BOOLEAN
  /\ endedAt \in 0..MaxSaid
  /\ stream \in [Tabs -> StreamState]
  /\ after \in [Tabs -> Nat]
  /\ pipe \in [Tabs -> Seq(Frame)]
  /\ page \in [Tabs -> PageState]
  /\ born \in [Tabs -> Nat]
  /\ rendered \in [Tabs -> Seq(Entry)]
  /\ lastId \in [Tabs -> Nat]
  /\ shown \in [Tabs -> Presence]
  /\ moves \in 0..MaxMoves /\ drops \in 0..MaxDrops /\ ends \in 0..MaxEnds
  /\ \A t \in Tabs : stream[t] # "none" => page[t] = "open"
  /\ \A t \in Tabs : stream[t] = "none" => pipe[t] = <<>>

Init ==
  /\ epoch = 0 /\ said = 0
  /\ presence = "idle"
  /\ ended = FALSE
  /\ endedAt = 0
  /\ stream = [t \in Tabs |-> "none"]
  /\ after = [t \in Tabs |-> 0]
  /\ pipe = [t \in Tabs |-> <<>>]
  /\ page = [t \in Tabs |-> "none"]
  /\ born = [t \in Tabs |-> 0]
  /\ rendered = [t \in Tabs |-> <<>>]
  /\ lastId = [t \in Tabs |-> 0]
  /\ shown = [t \in Tabs |-> "idle"]
  /\ moves = 0 /\ drops = 0 /\ ends = 0

------------------------------------------------------------------------------
(***************************************************************************)
(* The session's events, published to every subscribed stream.             *)
(***************************************************************************)
publish(frame) ==
  pipe' = [t \in Tabs |-> IF stream[t] = "none" THEN pipe[t] ELSE Append(pipe[t], frame)]

\* appendConversation, then ConversationAppended, in one run of a handler.
Say ==
  /\ said < MaxSaid
  /\ said' = said + 1
  /\ publish(SaidFrame(said'))
  /\ UNCHANGED <<epoch, presence, ended, endedAt, stream, after, pageVars, counters>>

\* A poll enters or leaves: the new state is pushed even when it derives the same.
PresenceMoves ==
  /\ moves < MaxMoves
  /\ moves' = moves + 1
  /\ presence' \in Presence
  /\ publish(PresenceFrame(presence'))
  /\ UNCHANGED <<epoch, said, ended, endedAt, stream, after, pageVars, drops, ends>>

\* The status flips and SessionEnded is published in one run, the rider said before.
End ==
  /\ ends < MaxEnds
  /\ ~ ended
  /\ ends' = ends + 1
  /\ ended' = TRUE
  /\ endedAt' = said
  /\ publish(EndedFrame(said))
  /\ UNCHANGED <<epoch, said, presence, stream, after, pageVars, moves, drops>>

Resurrect ==
  /\ ended
  /\ ended' = FALSE
  /\ UNCHANGED <<epoch, said, presence, endedAt, stream, after, pipe, pageVars, counters>>

------------------------------------------------------------------------------
(***************************************************************************)
(* The SSE route.                                                          *)
(***************************************************************************)

\* The handler subscribes first; its tracking of the watcher may have to wait.
Connect(t) ==
  /\ page[t] = "open"
  /\ stream[t] = "none"
  /\ stream' = [stream EXCEPT ![t] = "subscribed"]
  /\ after' = [after EXCEPT ![t] = lastId[t]]
  /\ UNCHANGED <<daemonVars, pipe, pageVars, counters>>

conversationSince(n) == [i \in 1..(IF said > n THEN said - n ELSE 0) |-> SaidFrame(n + i)]

\* Mutant: the ended frame is replayed before the entries.
initial_EndedFirst(t) == (IF ended THEN <<EndedFrame(endedAt)>> ELSE <<>>)
                           \o conversationSince(after[t]) \o <<PresenceFrame(presence)>>

\* Mutant: presence is not replayed, the live changes are thought to be enough.
initial_NoPresence(t) == conversationSince(after[t]) \o (IF ended THEN <<EndedFrame(endedAt)>> ELSE <<>>)

\* Mutant: an ended session is thought to have told every page already.
initial_NoEnded(t) == conversationSince(after[t]) \o <<PresenceFrame(presence)>>

initial(t) == conversationSince(after[t]) \o <<PresenceFrame(presence)>>
                \o (IF ended THEN <<EndedFrame(endedAt)>> ELSE <<>>)

\* The current state goes out before what the subscription has buffered meanwhile.
Replay(t) ==
  /\ stream[t] = "subscribed"
  /\ stream' = [stream EXCEPT ![t] = "live"]
  /\ pipe' = [pipe EXCEPT ![t] = initial(t) \o @]
  /\ UNCHANGED <<daemonVars, after, pageVars, counters>>

\* Mutant: the page does not close its EventSource, nor does the daemon notice.
hangUp_Keeps(t) == UNCHANGED <<stream, pipe>>

hangUp(t) == /\ stream' = [stream EXCEPT ![t] = "none"]
             /\ pipe' = [pipe EXCEPT ![t] = <<>>]

------------------------------------------------------------------------------
(***************************************************************************)
(* The page.                                                               *)
(***************************************************************************)
OpenPage(t) ==
  /\ page[t] = "none"
  /\ page' = [page EXCEPT ![t] = "open"]
  /\ born' = [born EXCEPT ![t] = epoch]
  /\ UNCHANGED <<daemonVars, stream, after, pipe, rendered, lastId, shown, counters>>

\* The connection breaks; EventSource will connect again by itself.
Drop(t) ==
  /\ drops < MaxDrops
  /\ stream[t] # "none"
  /\ drops' = drops + 1
  /\ hangUp(t)
  /\ UNCHANGED <<daemonVars, after, pageVars, moves, ends>>

\* The human closes or reloads the tab, in any state.
ClosePage(t) ==
  /\ drops < MaxDrops
  /\ page[t] # "none"
  /\ drops' = drops + 1
  /\ hangUp(t)
  /\ page' = [page EXCEPT ![t] = "none"]
  /\ rendered' = [rendered EXCEPT ![t] = <<>>]
  /\ lastId' = [lastId EXCEPT ![t] = 0]
  /\ shown' = [shown EXCEPT ![t] = "idle"]
  /\ UNCHANGED <<daemonVars, after, born, moves, ends>>

\* Mutant: no dedup of the overlap of replay and live frames.
seen_Nothing(t) == {}

\* The seqs the page has rendered: createConversation's set.
seen(t) == {rendered[t][n].seq : n \in DOMAIN rendered[t]}

ReceiveEntry(t) ==
  /\ stream[t] = "live"
  /\ pipe[t] # <<>>
  /\ Head(pipe[t]).tag = "said"
  /\ LET entry == Head(pipe[t]).entry
     IN /\ rendered' = IF entry.seq \in seen(t) THEN rendered
                       ELSE [rendered EXCEPT ![t] = Append(@, entry)]
        /\ lastId' = [lastId EXCEPT ![t] = entry.seq]
  /\ pipe' = [pipe EXCEPT ![t] = Tail(@)]
  /\ UNCHANGED <<daemonVars, stream, after, page, born, shown, counters>>

ReceivePresence(t) ==
  /\ stream[t] = "live"
  /\ pipe[t] # <<>>
  /\ Head(pipe[t]).tag = "presence"
  /\ shown' = [shown EXCEPT ![t] = Head(pipe[t]).presence]
  /\ pipe' = [pipe EXCEPT ![t] = Tail(@)]
  /\ UNCHANGED <<daemonVars, stream, after, page, born, rendered, lastId, counters>>

\* applyEnded, then the page closes its EventSource for good.
ReceiveEnded(t) ==
  /\ stream[t] = "live"
  /\ pipe[t] # <<>>
  /\ Head(pipe[t]).tag = "ended"
  /\ page' = [page EXCEPT ![t] = "ended"]
  /\ hangUp(t)
  /\ UNCHANGED <<daemonVars, after, born, rendered, lastId, shown, counters>>

------------------------------------------------------------------------------
\* The daemon is replaced (a takeover, a crash): the Conversation and presence start
\* over, the status is loaded from disk, and the pages keep what they show.
Restart ==
  /\ epoch < MaxRestarts
  /\ epoch' = epoch + 1
  /\ said' = 0 /\ endedAt' = 0
  /\ presence' = "idle"
  /\ stream' = [t \in Tabs |-> "none"]
  /\ pipe' = [t \in Tabs |-> <<>>]
  /\ UNCHANGED <<ended, after, pageVars, counters>>

Environment == Say \/ PresenceMoves \/ End \/ Resurrect \/ Restart
Serves(t)   == Connect(t) \/ Replay(t)
Receives(t) == ReceiveEntry(t) \/ ReceivePresence(t) \/ ReceiveEnded(t)
Human(t)    == OpenPage(t) \/ Drop(t) \/ ClosePage(t)

Next == Environment \/ \E t \in Tabs : Serves(t) \/ Receives(t) \/ Human(t)

Spec == Init /\ [][Next]_vars

\* An EventSource reconnects, the route proceeds, and a live connection delivers.
LiveSpec == Spec /\ \A t \in Tabs : WF_vars(Connect(t)) /\ WF_vars(Replay(t))
                                      /\ WF_vars(Receives(t))

------------------------------------------------------------------------------
(***************************************************************************)
(* Safety.                                                                 *)
(***************************************************************************)
CurrentPage(t) == page[t] # "none" /\ born[t] = epoch

(***************************************************************************)
(* A page loaded from the running daemon shows a prefix of the             *)
(* Conversation: no bubble twice, none missing between two others, none    *)
(* out of order, however often the connection broke in between             *)
(* (Last-Event-ID, subscribe-then-replay, dedup by seq).                   *)
(***************************************************************************)
ThreadIsPrefix ==
  \A t \in Tabs : CurrentPage(t) =>
     rendered[t] = [n \in 1..Len(rendered[t]) |-> [seq |-> n, epoch |-> epoch]]

(***************************************************************************)
(* A connected page of the running daemon that has received everything     *)
(* sent to it shows the whole Conversation and the current Presence, and   *)
(* it is not connected at all to a session it should have seen ended.      *)
(***************************************************************************)
CaughtUp(t) == stream[t] = "live" /\ pipe[t] = <<>>

CaughtUpShowsCurrent ==
  \A t \in Tabs : CurrentPage(t) /\ CaughtUp(t) =>
     /\ Len(rendered[t]) = said
     /\ shown[t] = presence
     /\ ~ ended

(***************************************************************************)
(* A page closes its channel only after it has rendered everything said    *)
(* before the session ended, the Send & end's own bubble included          *)
(* (endSession: "so the chrome renders the final bubble before it reacts   *)
(* to the ended frame").                                                   *)
(***************************************************************************)
FinalBubbleBeforeEnded ==
  [][\A t \in Tabs : CurrentPage(t) /\ page[t] = "open" /\ page'[t] = "ended" =>
        Len(rendered[t]) >= Head(pipe[t]).said]_vars

(***************************************************************************)
(* Whatever the page survived, it never shows a bubble twice, and its      *)
(* bubbles appear in the order in which they were said.                    *)
(***************************************************************************)
NeverTwice ==
  \A t \in Tabs : \A m, n \in DOMAIN rendered[t] : m < n =>
     LET a == rendered[t][m]
         b == rendered[t][n]
     IN a.epoch < b.epoch \/ (a.epoch = b.epoch /\ a.seq < b.seq)

(***************************************************************************)
(* An open page is told of an end, unless the session is resurrected       *)
(* first or the page goes away.                                            *)
(***************************************************************************)
EndReachesPages ==
  \A t \in Tabs : (page[t] = "open" /\ ended) ~> (page[t] # "open" \/ ~ ended)

(***************************************************************************)
(* ADR 0012: after a restart the thread is naturally empty and "the SSE    *)
(* seq cursor stays monotonic"; ADR 0010: the replay makes every reconnect *)
(* correct.  So any page that has received everything sent to it would     *)
(* show all that was said in the running daemon, also a page loaded from   *)
(* the previous one.                                                       *)
(***************************************************************************)
CaughtUpShowsThread ==
  \A t \in Tabs : CaughtUp(t) =>
     \A n \in 1..said : \E m \in DOMAIN rendered[t] :
        rendered[t][m] = [seq |-> n, epoch |-> epoch]
==============================================================================
