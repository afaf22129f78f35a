--------------------------- MODULE LiveChannelProofs ---------------------------
(***************************************************************************)
(* What holds of the live channel for any number of pages, entries, ends,  *)
(* drops, reloads and restarts.                                            *)
(***************************************************************************)
EXTENDS LiveChannel, TLAPS

USE DEF daemonVars, pageVars, counters

\* What the sequences of frames are built with.
LEMMA FrameTypes ==
  /\ \A n \in Nat : epoch \in Nat => SaidFrame(n) \in Frame
  /\ \A p \in Presence : PresenceFrame(p) \in Frame
  /\ \A n \in Nat : EndedFrame(n) \in Frame
  BY DEF SaidFrame, PresenceFrame, EndedFrame, Frame, Entry

LEMMA Appending ==
  ASSUME NEW S, NEW q \in Seq(S), NEW f \in S
  PROVE  /\ Append(q, f) \in Seq(S)
         /\ Len(Append(q, f)) = Len(q) + 1
         /\ \A j \in 1..Len(q) : Append(q, f)[j] = q[j]
         /\ Append(q, f)[Len(q) + 1] = f
  OBVIOUS

LEMMA Concatenating ==
  ASSUME NEW S, NEW p \in Seq(S), NEW q \in Seq(S)
  PROVE  /\ p \o q \in Seq(S)
         /\ Len(p \o q) = Len(p) + Len(q)
         /\ \A j \in 1..Len(p) : (p \o q)[j] = p[j]
         /\ \A j \in (Len(p) + 1)..(Len(p) + Len(q)) : (p \o q)[j] = q[j - Len(p)]
  OBVIOUS

LEMMA Shifting ==
  ASSUME NEW S, NEW q \in Seq(S), q # <<>>
  PROVE  /\ Len(q) \in Nat /\ Len(q) > 0 /\ Head(q) = q[1] /\ Head(q) \in S
         /\ Tail(q) \in Seq(S)
         /\ Len(Tail(q)) = Len(q) - 1
         /\ \A j \in 1..Len(Tail(q)) : Tail(q)[j] = q[j + 1]
  OBVIOUS

\* What is left to replay, seq by seq.
LEMMA Since ==
  ASSUME epoch \in Nat, said \in Nat, NEW n \in Nat
  PROVE  /\ conversationSince(n) \in Seq(Frame)
         /\ Len(conversationSince(n)) = (IF said > n THEN said - n ELSE 0)
         /\ \A i \in 1..Len(conversationSince(n)) : conversationSince(n)[i] = SaidFrame(n + i)
  <1> DEFINE k == IF said > n THEN said - n ELSE 0
  <1>1. k \in Nat
    OBVIOUS
  <1>2. \A i \in 1..k : n + i \in Nat
    BY <1>1
  <1>3. \A i \in 1..k : SaidFrame(n + i) \in Frame
    BY <1>2, FrameTypes
  <1> HIDE DEF k
  <1>4. [i \in 1..k |-> SaidFrame(n + i)] \in Seq(Frame) /\ Len([i \in 1..k |-> SaidFrame(n + i)]) = k
    BY <1>1, <1>3
  <1>5. conversationSince(n) = [i \in 1..k |-> SaidFrame(n + i)]
    BY DEF conversationSince, k
  <1> QED BY <1>4, <1>5 DEF k

\* The frames of a replay: the entries after the cursor, presence, and the end if there is one.
LEMMA Initial ==
  ASSUME TypeOK, NEW t \in Tabs
  PROVE  LET q == initial(t)
             n == after[t]
             k == Len(conversationSince(n))
         IN  /\ q \in Seq(Frame)
             /\ k = (IF said > n THEN said - n ELSE 0)
             /\ Len(q) = (IF ended THEN k + 2 ELSE k + 1)
             /\ \A i \in 1..k : q[i] = SaidFrame(n + i)
             /\ q[k + 1] = PresenceFrame(presence)
             /\ ended => q[k + 2] = EndedFrame(endedAt)
  <1> DEFINE a == conversationSince(after[t])
             b == <<PresenceFrame(presence)>>
             c == IF ended THEN <<EndedFrame(endedAt)>> ELSE <<>>
  <1>1. /\ after[t] \in Nat /\ epoch \in Nat /\ said \in Nat /\ endedAt \in Nat
        /\ presence \in Presence /\ ended \in BOOLEAN
    BY LiveChannelAssumption DEF TypeOK
  <1>2. /\ a \in Seq(Frame) /\ Len(a) = (IF said > after[t] THEN said - after[t] ELSE 0)
        /\ \A i \in 1..Len(a) : a[i] = SaidFrame(after[t] + i)
    BY <1>1, Since
  <1>3. b \in Seq(Frame) /\ Len(b) = 1 /\ b[1] = PresenceFrame(presence)
    BY <1>1, FrameTypes
  <1>4. c \in Seq(Frame) /\ Len(c) = (IF ended THEN 1 ELSE 0) /\ (ended => c[1] = EndedFrame(endedAt))
    <2>1. EndedFrame(endedAt) \in Frame
      BY <1>1, FrameTypes
    <2>2. CASE ended
      BY <2>1, <2>2
    <2>3. CASE ~ended
      BY <2>3
    <2> QED BY <2>2, <2>3
  <1>5. initial(t) = a \o b \o c
    BY DEF initial
  <1> HIDE DEF a, b, c
  <1> DEFINE ab == a \o b
  <1>6. /\ ab \in Seq(Frame) /\ Len(ab) = Len(a) + 1 /\ \A i \in 1..Len(a) : ab[i] = a[i]
        /\ ab[Len(a) + 1] = b[1] /\ Len(a) \in Nat
    <2>1. /\ ab \in Seq(Frame) /\ Len(ab) = Len(a) + Len(b) /\ \A i \in 1..Len(a) : ab[i] = a[i]
          /\ \A j \in (Len(a) + 1)..(Len(a) + Len(b)) : ab[j] = b[j - Len(a)]
      BY <1>2, <1>3, Concatenating
    <2>2. Len(a) \in Nat
      BY <1>2
    <2> HIDE DEF ab
    <2> QED BY <1>3, <2>1, <2>2
  <1> HIDE DEF ab
  <1>7. /\ ab \o c \in Seq(Frame) /\ Len(ab \o c) = Len(ab) + Len(c)
        /\ \A i \in 1..Len(ab) : (ab \o c)[i] = ab[i]
        /\ ended => (ab \o c)[Len(ab) + 1] = c[1]
    <2> DEFINE abc == ab \o c
    <2>1. /\ abc \in Seq(Frame) /\ Len(abc) = Len(ab) + Len(c) /\ \A i \in 1..Len(ab) : abc[i] = ab[i]
          /\ \A j \in (Len(ab) + 1)..(Len(ab) + Len(c)) : abc[j] = c[j - Len(ab)]
      BY <1>4, <1>6, Concatenating
    <2> HIDE DEF abc
    <2>2. ended => abc[Len(ab) + 1] = c[1]
      BY <1>4, <1>6, <2>1
    <2> QED BY <2>1, <2>2 DEF abc
  <1>8. initial(t) = ab \o c
    BY <1>5 DEF ab
  <1>9. Len(a) \in Nat /\ a = conversationSince(after[t])
    BY <1>2 DEF a
  <1>10. Len(initial(t)) = (IF ended THEN Len(a) + 2 ELSE Len(a) + 1)
    BY <1>1, <1>4, <1>6, <1>7, <1>8, <1>9
  <1>11. \A i \in 1..Len(a) : initial(t)[i] = SaidFrame(after[t] + i)
    <2> TAKE i \in 1..Len(a)
    <2>1. i \in 1..Len(ab) /\ ab[i] = a[i] /\ a[i] = SaidFrame(after[t] + i)
      BY <1>2, <1>6
    <2> QED BY <1>7, <1>8, <2>1
  <1>12. initial(t)[Len(a) + 1] = PresenceFrame(presence)
    BY <1>3, <1>6, <1>7, <1>8, <1>9
  <1>13. ended => initial(t)[Len(a) + 2] = EndedFrame(endedAt)
    BY <1>4, <1>6, <1>7, <1>8, <1>9
  <1> QED BY <1>2, <1>7, <1>8, <1>9, <1>10, <1>11, <1>12, <1>13

------------------------------------------------------------------------------
LEMMA TypeInit == Init => TypeOK
  <1> SUFFICES ASSUME Init PROVE TypeOK
    OBVIOUS
  <1>1. ended \in BOOLEAN
    BY Zenon DEF Init
  <1>2. <<>> \in Seq(Frame) /\ <<>> \in Seq(Entry)
    OBVIOUS
  <1> QED BY <1>1, <1>2, LiveChannelAssumption DEF Init, TypeOK, Presence, StreamState, PageState

LEMMA PublishType ==
  ASSUME TypeOK, NEW f \in Frame, publish(f)
  PROVE  /\ pipe' \in [Tabs -> Seq(Frame)]
         /\ \A t \in Tabs : stream[t] = "none" => pipe'[t] = <<>>
  <1>1. \A t \in Tabs : Append(pipe[t], f) \in Seq(Frame)
    BY DEF TypeOK
  <1> QED BY <1>1 DEF publish, TypeOK

LEMMA HangUpType ==
  ASSUME TypeOK, NEW t \in Tabs, hangUp(t)
  PROVE  /\ stream' \in [Tabs -> StreamState] /\ pipe' \in [Tabs -> Seq(Frame)]
         /\ stream'[t] = "none" /\ \A u \in Tabs : stream'[u] = "none" => pipe'[u] = <<>>
         /\ \A u \in Tabs : stream'[u] # "none" => stream[u] # "none" /\ u # t
  <1>1. <<>> \in Seq(Frame)
    OBVIOUS
  <1> QED BY <1>1 DEF hangUp, TypeOK, StreamState

LEMMA TypeStep == TypeOK /\ [Next]_vars => TypeOK'
  <1> SUFFICES ASSUME TypeOK, [Next]_vars PROVE TypeOK'
    OBVIOUS
  <1>0. /\ epoch \in Nat /\ said \in Nat /\ presence \in Presence
        /\ \A t \in Tabs : pipe[t] \in Seq(Frame) /\ rendered[t] \in Seq(Entry)
    BY LiveChannelAssumption DEF TypeOK
  <1> USE LiveChannelAssumption
  <1>1. CASE Say
    <2>1. SaidFrame(said') \in Frame
      <3>1. said' = said + 1 /\ said + 1 \in Nat
        BY <1>0, <1>1 DEF Say
      <3> QED BY <1>0, <3>1, FrameTypes
    <2>2. /\ pipe' \in [Tabs -> Seq(Frame)]
          /\ \A t \in Tabs : stream[t] = "none" => pipe'[t] = <<>>
      BY <1>1, <2>1, PublishType DEF Say
    <2> QED BY <1>1, <2>2 DEF Say, TypeOK
  <1>2. CASE PresenceMoves
    <2>1. presence' \in Presence /\ PresenceFrame(presence') \in Frame
      BY <1>2, FrameTypes DEF PresenceMoves
    <2>2. /\ pipe' \in [Tabs -> Seq(Frame)]
          /\ \A t \in Tabs : stream[t] = "none" => pipe'[t] = <<>>
      BY <1>2, <2>1, PublishType DEF PresenceMoves
    <2> QED BY <1>2, <2>1, <2>2 DEF PresenceMoves, TypeOK
  <1>3. CASE End
    <2>1. EndedFrame(said) \in Frame
      BY <1>0, FrameTypes
    <2>2. /\ pipe' \in [Tabs -> Seq(Frame)]
          /\ \A t \in Tabs : stream[t] = "none" => pipe'[t] = <<>>
      BY <1>3, <2>1, PublishType DEF End
    <2>3. ended' \in BOOLEAN
      BY <1>3, Zenon DEF End
    <2> QED BY <1>3, <2>2, <2>3 DEF End, TypeOK
  <1>4. CASE Resurrect
    <2>1. ended' \in BOOLEAN
      BY <1>4, Zenon DEF Resurrect
    <2> QED BY <1>4, <2>1 DEF Resurrect, TypeOK
  <1>5. CASE Restart
    <2>1. <<>> \in Seq(Frame)
      OBVIOUS
    <2> QED BY <1>5, <2>1 DEF Restart, TypeOK, StreamState, Presence
  <1>6. ASSUME NEW t \in Tabs, Connect(t) PROVE TypeOK'
    BY <1>6 DEF Connect, TypeOK, StreamState
  <1>7. ASSUME NEW t \in Tabs, Replay(t) PROVE TypeOK'
    <2>1. initial(t) \in Seq(Frame)
      BY Initial
    <2>2. initial(t) \o pipe[t] \in Seq(Frame)
      BY <1>0, <2>1, Concatenating
    <2>3. pipe' \in [Tabs -> Seq(Frame)]
      BY <1>7, <2>2 DEF Replay, TypeOK
    <2> QED BY <1>7, <2>3 DEF Replay, TypeOK, StreamState
  <1>8. ASSUME NEW t \in Tabs, OpenPage(t) PROVE TypeOK'
    BY <1>0, <1>8 DEF OpenPage, TypeOK, PageState
  <1>9. ASSUME NEW t \in Tabs, Drop(t) PROVE TypeOK'
    <2>1. hangUp(t)
      BY <1>9 DEF Drop
    <2> QED BY <1>9, <2>1, HangUpType DEF Drop, TypeOK
  <1>10. ASSUME NEW t \in Tabs, ClosePage(t) PROVE TypeOK'
    <2>1. hangUp(t)
      BY <1>10 DEF ClosePage
    <2>2. <<>> \in Seq(Entry)
      OBVIOUS
    <2>3. /\ page' \in [Tabs -> PageState] /\ rendered' \in [Tabs -> Seq(Entry)]
          /\ lastId' \in [Tabs -> Nat] /\ shown' \in [Tabs -> Presence]
          /\ drops' \in 0..MaxDrops /\ \A u \in Tabs : u # t => page'[u] = page[u]
      BY <1>10, <2>2 DEF ClosePage, TypeOK, PageState, Presence
    <2>4. UNCHANGED <<epoch, said, presence, ended, endedAt, after, born, moves, ends>>
      BY <1>10 DEF ClosePage
    <2> QED BY <2>1, <2>3, <2>4, HangUpType DEF TypeOK
  <1>11. ASSUME NEW t \in Tabs, Receives(t) PROVE TypeOK'
    <2>0. pipe[t] # <<>> /\ stream[t] = "live"
      BY <1>11 DEF Receives, ReceiveEntry, ReceivePresence, ReceiveEnded
    <2>1. Head(pipe[t]) \in Frame /\ Tail(pipe[t]) \in Seq(Frame)
      BY <1>0, <2>0, Shifting
    <2>2. CASE ReceiveEntry(t)
      <3>1. Head(pipe[t]).entry \in Entry /\ Head(pipe[t]).entry.seq \in Nat
        BY <2>1, <2>2 DEF ReceiveEntry, Frame, Entry
      <3>2. Append(rendered[t], Head(pipe[t]).entry) \in Seq(Entry)
        BY <1>0, <3>1
      <3>3. rendered' \in [Tabs -> Seq(Entry)] /\ lastId' \in [Tabs -> Nat]
        BY <2>2, <3>1, <3>2 DEF ReceiveEntry, TypeOK
      <3>4. pipe' \in [Tabs -> Seq(Frame)] /\ \A u \in Tabs : stream[u] = "none" => pipe'[u] = <<>>
        BY <2>0, <2>1, <2>2 DEF ReceiveEntry, TypeOK
      <3> QED BY <2>2, <3>3, <3>4 DEF ReceiveEntry, TypeOK
    <2>3. CASE ReceivePresence(t)
      <3>1. Head(pipe[t]).presence \in Presence
        BY <2>1, <2>3 DEF ReceivePresence, Frame
      <3>2. shown' \in [Tabs -> Presence]
        BY <2>3, <3>1 DEF ReceivePresence, TypeOK
      <3>3. pipe' \in [Tabs -> Seq(Frame)] /\ \A u \in Tabs : stream[u] = "none" => pipe'[u] = <<>>
        BY <2>0, <2>1, <2>3 DEF ReceivePresence, TypeOK
      <3> QED BY <2>3, <3>2, <3>3 DEF ReceivePresence, TypeOK
    <2>4. CASE ReceiveEnded(t)
      <3>1. hangUp(t)
        BY <2>4 DEF ReceiveEnded
      <3>2. page' \in [Tabs -> PageState] /\ \A u \in Tabs : u # t => page'[u] = page[u]
        BY <2>4 DEF ReceiveEnded, TypeOK, PageState
      <3>3. UNCHANGED <<epoch, said, presence, ended, endedAt, after, born, rendered, lastId, shown,
                        moves, drops, ends>>
        BY <2>4 DEF ReceiveEnded
      <3> QED BY <3>1, <3>2, <3>3, HangUpType DEF TypeOK
    <2> QED BY <1>11, <2>2, <2>3, <2>4 DEF Receives
  <1>12. CASE UNCHANGED vars
    BY <1>12 DEF vars, TypeOK
  <1> QED BY <1>1, <1>2, <1>3, <1>4, <1>5, <1>6, <1>7, <1>8, <1>9, <1>10, <1>11, <1>12
          DEF Next, Environment, Serves, Human

(***************************************************************************)
(* The session, the streams and the pages keep their types, and nothing is *)
(* in flight to a page that has no connection.                             *)
(***************************************************************************)
THEOREM TypeCorrect == Spec => []TypeOK
  BY TypeInit, TypeStep, PTL DEF Spec

------------------------------------------------------------------------------
(***************************************************************************)
(* The bubbles of a page are numbered 1, 2, 3, ... by their seqs, whatever *)
(* daemons said them: a page's next bubble is always the next seq, since   *)
(* its cursor lies within its thread, and each frame on its way is within  *)
(* it too, next to it, or preceded by the frame before.                    *)
(***************************************************************************)
Bubbles(t) ==
  \A n \in 1..Len(rendered[t]) :
     /\ rendered[t][n].seq = n
     /\ rendered[t][n].epoch <= epoch
     /\ rendered[t][n].epoch = epoch => n <= said
     /\ CurrentPage(t) => rendered[t][n].epoch = epoch
     /\ \A m \in 1..n : rendered[t][m].epoch <= rendered[t][n].epoch

Cursor(t) ==
  /\ lastId[t] <= Len(rendered[t])
  /\ born[t] <= epoch
  /\ page[t] = "none" => rendered[t] = <<>>
  /\ stream[t] # "none" => after[t] <= Len(rendered[t])

\* Frame q[j] is an entry, or the news of an end, of this daemon; the last presence is the
\* session's.
IsPresence(q, j) == q[j].tag = "presence"

Known(q) ==
  \A j \in 1..Len(q) :
     /\ q[j].tag = "said" => q[j].entry.epoch = epoch /\ q[j].entry.seq \in 1..said
     /\ q[j].tag = "ended" => q[j].said <= said
     /\ IsPresence(q, j) /\ (\A i \in (j + 1)..Len(q) : ~ IsPresence(q, i))
          => q[j].presence = presence

\* Entry n is under way in front of place j.
Before(q, j, n) == \E i \in 1..Len(q) : i < j /\ q[i].tag = "said" /\ q[i].entry.seq = n

\* Nothing is missing from a live pipe q of a page that shows len entries.
Ordered(q, len) ==
  \A j \in 1..Len(q) :
     /\ q[j].tag = "said" => q[j].entry.seq <= len + 1 \/ Before(q, j, q[j].entry.seq - 1)
     /\ q[j].tag = "ended" => q[j].said <= len \/ Before(q, j, q[j].said)

Complete(q, len) == said <= len \/ Before(q, Len(q) + 1, said)

TellsPresence(q, p) == p = presence \/ \E j \in 1..Len(q) : IsPresence(q, j)

TellsEnd(q) == ended => \E j \in 1..Len(q) : q[j].tag = "ended"

Live(t) ==
  LET q == pipe[t]
  IN  /\ Ordered(q, Len(rendered[t])) /\ Complete(q, Len(rendered[t]))
      /\ TellsPresence(q, shown[t]) /\ TellsEnd(q)

Page(t) ==
  /\ Bubbles(t) /\ Cursor(t)
  /\ stream[t] # "none" => Known(pipe[t])
  /\ stream[t] = "live" => Live(t)

ChannelInv == endedAt <= said /\ \A t \in Tabs : Page(t)

LEMMA ChannelInit == Init => ChannelInv
  <1>0. Init => endedAt <= said
    BY DEF Init
  <1> SUFFICES ASSUME Init, NEW t \in Tabs PROVE Page(t)
    BY <1>0 DEF ChannelInv
  <1>1. rendered[t] = <<>> /\ lastId[t] = 0 /\ born[t] = 0 /\ stream[t] = "none" /\ epoch = 0 /\ said = 0 /\ endedAt = 0
    BY DEF Init
  <1> QED BY <1>1 DEF Page, Bubbles, Cursor

LEMMA BeforeGrows ==
  ASSUME NEW q \in Seq(Frame), NEW f \in Frame, NEW j \in Nat, NEW n, Before(q, j, n)
  PROVE  Before(Append(q, f), j, n)
  <1>1. PICK i \in 1..Len(q) : i < j /\ q[i].tag = "said" /\ q[i].entry.seq = n
    BY DEF Before
  <1>2. i \in 1..Len(Append(q, f)) /\ Append(q, f)[i] = q[i]
    BY Appending
  <1> QED BY <1>1, <1>2 DEF Before

LEMMA BeforeShifts ==
  ASSUME NEW q \in Seq(Frame), q # <<>>, NEW j \in Nat, NEW n, Before(q, j + 1, n)
  PROVE  Before(Tail(q), j, n) \/ (Head(q).tag = "said" /\ Head(q).entry.seq = n)
  <1>1. PICK i \in 1..Len(q) : i < j + 1 /\ q[i].tag = "said" /\ q[i].entry.seq = n
    BY DEF Before
  <1>2. CASE i = 1
    BY <1>1, <1>2, Shifting
  <1>3. CASE i # 1
    <2>1. i - 1 \in 1..Len(Tail(q)) /\ i - 1 < j
      BY <1>1, <1>3, Shifting
    <2>2. Tail(q)[i - 1] = q[(i - 1) + 1] /\ (i - 1) + 1 = i
      BY <2>1, Shifting
    <2> QED BY <1>1, <2>1, <2>2 DEF Before
  <1> QED BY <1>2, <1>3

\* The bubbles stay in order when the daemon says more.
LEMMA BubblesStay ==
  ASSUME TypeOK, NEW t \in Tabs, Bubbles(t), said' \in Nat, said <= said',
         UNCHANGED <<epoch, rendered>>, CurrentPage(t)' => CurrentPage(t)
  PROVE  Bubbles(t)'
  <1>1. said \in Nat /\ Len(rendered[t]) \in Nat
    BY LiveChannelAssumption DEF TypeOK
  <1> QED BY <1>1 DEF Bubbles

\* An event is published to a page.
LEMMA Published ==
  ASSUME TypeOK, NEW t \in Tabs, Page(t), NEW f \in Frame, publish(f), said' \in Nat,
         UNCHANGED <<epoch, stream, after, page, born, rendered, lastId, shown>>,
         \/ f = SaidFrame(said') /\ said' = said + 1 /\ UNCHANGED <<presence, ended>>
         \/ f = PresenceFrame(presence') /\ UNCHANGED <<said, ended>>
         \/ f = EndedFrame(said) /\ UNCHANGED <<said, presence>>
  PROVE  Page(t)'
  <1> DEFINE q == pipe[t]
             r == Append(q, f)
             len == Len(rendered[t])
  <1>1. q \in Seq(Frame) /\ len \in Nat /\ said \in Nat /\ epoch \in Nat
    BY LiveChannelAssumption DEF TypeOK
  <1>2. Bubbles(t)' /\ Cursor(t)'
    BY <1>1, BubblesStay DEF Page, Cursor, CurrentPage
  <1>3. CASE stream[t] = "none"
    BY <1>2, <1>3 DEF Page
  <1>4. CASE stream[t] # "none"
    <2>1. pipe'[t] = r
      BY <1>4 DEF publish
    <2>2. /\ r \in Seq(Frame) /\ Len(r) = Len(q) + 1 /\ r[Len(q) + 1] = f /\ Len(q) \in Nat
          /\ \A j \in 1..Len(q) : r[j] = q[j]
      BY <1>1, Appending
    <2>3. \A j \in Nat : \A n : Before(q, j, n) => Before(r, j, n)
      BY <1>1, BeforeGrows
    <2>4. Known(q) /\ (stream[t] = "live" => Live(t))
      BY <1>4 DEF Page
    <2> HIDE DEF q, r, len
    <2>5. /\ f.tag = "said" => f.entry.epoch = epoch /\ f.entry.seq = said' /\ said' = said + 1
          /\ f.tag = "ended" => f.said = said
          /\ f.tag = "presence" => f.presence = presence'
          /\ f.tag # "presence" => presence' = presence
          /\ f.tag # "ended" => ended' = ended
          /\ f.tag # "said" => said' = said
          /\ f.tag \in {"said", "presence", "ended"}
      BY DEF SaidFrame, PresenceFrame, EndedFrame
    <2>6. Known(pipe[t])'
      <3> SUFFICES ASSUME NEW j \in 1..Len(r)
                   PROVE  /\ r[j].tag = "said" => r[j].entry.epoch = epoch /\ r[j].entry.seq \in 1..said'
                          /\ r[j].tag = "ended" => r[j].said <= said'
                          /\ IsPresence(r, j) /\ (\A i \in (j + 1)..Len(r) : ~ IsPresence(r, i))
                               => r[j].presence = presence'
        BY <2>1 DEF Known, IsPresence
      <3>1. CASE j = Len(q) + 1
        BY <1>1, <2>2, <2>5, <3>1 DEF IsPresence
      <3>2. CASE j \in 1..Len(q)
        <4>1. r[j] = q[j]
          BY <2>2, <3>2
        <4>2. /\ q[j].tag = "said" => q[j].entry.epoch = epoch /\ q[j].entry.seq \in 1..said
              /\ q[j].tag = "ended" => q[j].said <= said /\ q[j].said \in Nat
          BY <1>1, <2>4, <3>2 DEF Known, Frame
        <4>3. said <= said'
          BY <1>1, <2>5
        <4>4. ASSUME IsPresence(r, j), \A i \in (j + 1)..Len(r) : ~ IsPresence(r, i)
              PROVE  r[j].presence = presence'
          <5>1. f.tag # "presence"
            BY <2>2, <3>2, <4>4 DEF IsPresence
          <5>2. IsPresence(q, j) /\ \A i \in (j + 1)..Len(q) : ~ IsPresence(q, i)
            BY <2>2, <3>2, <4>1, <4>4 DEF IsPresence
          <5> QED BY <2>4, <2>5, <3>2, <4>1, <5>1, <5>2 DEF Known
        <4> QED BY <1>1, <4>1, <4>2, <4>3, <4>4
      <3> QED BY <2>2, <3>1, <3>2
    <2>7. ASSUME stream[t] = "live" PROVE Live(t)'
      <3>0. Ordered(q, len) /\ Complete(q, len) /\ TellsPresence(q, shown[t]) /\ TellsEnd(q)
        BY <2>4, <2>7 DEF Live, q, len
      <3>1. Ordered(r, len)
        <4> SUFFICES ASSUME NEW j \in 1..Len(r)
                     PROVE  /\ r[j].tag = "said" => r[j].entry.seq <= len + 1 \/ Before(r, j, r[j].entry.seq - 1)
                            /\ r[j].tag = "ended" => r[j].said <= len \/ Before(r, j, r[j].said)
          BY DEF Ordered
        <4>1. CASE j \in 1..Len(q)
          <5>1. r[j] = q[j]
            BY <2>2, <4>1
          <5> QED BY <2>3, <3>0, <4>1, <5>1 DEF Ordered
        <4>2. CASE j = Len(q) + 1
          <5>1. said <= len \/ Before(r, j, said)
            BY <2>2, <2>3, <3>0, <4>2 DEF Complete
          <5>2. r[j] = f
            BY <2>2, <4>2
          <5>3. f.tag = "said" => f.entry.seq - 1 = said /\ f.entry.seq = said + 1
            BY <1>1, <2>5
          <5> QED BY <1>1, <2>5, <5>1, <5>2, <5>3
        <4> QED BY <2>2, <4>1, <4>2
      <3>2. said' <= len \/ Before(r, Len(r) + 1, said')
        <4>1. CASE f.tag = "said"
          <5>1. Len(q) + 1 \in 1..Len(r) /\ Len(q) + 1 < Len(r) + 1
            BY <2>2
          <5> QED BY <2>2, <2>5, <4>1, <5>1 DEF Before
        <4>2. CASE f.tag # "said"
          <5>1. said' = said
            BY <2>5, <4>2
          <5>2. Before(q, Len(q) + 1, said) => Before(r, Len(r) + 1, said)
            <6>1. Before(q, Len(q) + 1, said) => Before(r, Len(q) + 1, said)
              BY <2>2, <2>3
            <6> QED BY <2>2, <6>1 DEF Before
          <5> QED BY <3>0, <5>1, <5>2 DEF Complete
        <4> QED BY <4>1, <4>2
      <3>3. shown[t] = presence' \/ \E j \in 1..Len(r) : IsPresence(r, j)
        <4>1. CASE f.tag = "presence"
          BY <2>2, <4>1 DEF IsPresence
        <4>2. CASE f.tag # "presence"
          <5>1. ASSUME NEW j \in 1..Len(q), IsPresence(q, j) PROVE j \in 1..Len(r) /\ IsPresence(r, j)
            BY <2>2, <5>1 DEF IsPresence
          <5> QED BY <2>5, <3>0, <4>2, <5>1 DEF TellsPresence
        <4> QED BY <4>1, <4>2
      <3>4. ended' => \E j \in 1..Len(r) : r[j].tag = "ended"
        <4>1. CASE f.tag = "ended"
          BY <2>2, <4>1
        <4>2. CASE f.tag # "ended"
          <5>1. ASSUME NEW j \in 1..Len(q), q[j].tag = "ended" PROVE j \in 1..Len(r) /\ r[j].tag = "ended"
            BY <2>2, <5>1
          <5> QED BY <2>5, <3>0, <4>2, <5>1 DEF TellsEnd
        <4> QED BY <4>1, <4>2
      <3>5. UNCHANGED <<rendered, shown>>
        OBVIOUS
      <3> QED BY <2>1, <3>1, <3>2, <3>3, <3>4, <3>5
              DEF Live, Ordered, Complete, TellsPresence, TellsEnd, IsPresence, Before, len
    <2> QED BY <1>2, <2>6, <2>7 DEF Page
  <1> QED BY <1>3, <1>4

\* Nothing about a page has moved.
LEMMA Unmoved ==
  ASSUME NEW t \in Tabs, Page(t), UNCHANGED daemonVars,
         stream'[t] = stream[t], pipe'[t] = pipe[t], page'[t] = page[t], born'[t] = born[t],
         rendered'[t] = rendered[t], lastId'[t] = lastId[t], shown'[t] = shown[t], after'[t] = after[t]
  PROVE  Page(t)'
  BY DEF Page, Bubbles, Cursor, Known, Live, Ordered, Complete, TellsPresence, TellsEnd, IsPresence,
         Before, CurrentPage

\* A page without a connection keeps its bubbles.
LEMMA Disconnected ==
  ASSUME NEW t \in Tabs, Page(t), UNCHANGED daemonVars, stream'[t] = "none",
         born'[t] = born[t], rendered'[t] = rendered[t], lastId'[t] = lastId[t],
         page[t] # "none", page'[t] # "none"
  PROVE  Page(t)'
  BY DEF Page, Bubbles, Cursor, CurrentPage

\* The page takes the first frame of its pipe: nothing it still needs is lost.
LEMMA Delivered ==
  ASSUME said \in Nat, NEW q \in Seq(Frame), q # <<>>,
         NEW len \in Nat, NEW more \in Nat, len <= more, NEW p, NEW told,
         Known(q), Ordered(q, len), Complete(q, len), TellsPresence(q, p), TellsEnd(q),
         Head(q).tag # "ended",
         Head(q).tag = "said" => Head(q).entry.seq <= more,
         Head(q).tag = "presence" => told = Head(q).presence,
         Head(q).tag # "presence" => told = p
  PROVE  /\ Known(Tail(q)) /\ Ordered(Tail(q), more) /\ Complete(Tail(q), more)
         /\ TellsPresence(Tail(q), told) /\ TellsEnd(Tail(q))
  <1> DEFINE r == Tail(q)
             h == Head(q)
  <1>1. /\ r \in Seq(Frame) /\ Len(q) \in Nat /\ Len(q) > 0 /\ Len(r) = Len(q) - 1 /\ h = q[1]
        /\ \A j \in 1..Len(r) : r[j] = q[j + 1] /\ j + 1 \in 1..Len(q)
    BY Shifting
  <1>2. \A j \in Nat : \A n : Before(q, j + 1, n) => Before(r, j, n) \/ (h.tag = "said" /\ h.entry.seq = n)
    BY BeforeShifts
  <1>3. \A j \in 1..Len(q) : q[j].tag = "said" => q[j].entry.seq \in Nat
    BY DEF Frame, Entry
  <1>4. \A j \in 2..Len(q) : j - 1 \in 1..Len(r) /\ r[j - 1] = q[j]
    BY <1>1
  <1> HIDE DEF r, h
  <1>5. Known(r)
    <2> SUFFICES ASSUME NEW j \in 1..Len(r)
                 PROVE  /\ r[j].tag = "said" => r[j].entry.epoch = epoch /\ r[j].entry.seq \in 1..said
                        /\ r[j].tag = "ended" => r[j].said <= said
                        /\ IsPresence(r, j) /\ (\A i \in (j + 1)..Len(r) : ~ IsPresence(r, i))
                             => r[j].presence = presence
      BY DEF Known
    <2>1. r[j] = q[j + 1] /\ j + 1 \in 1..Len(q)
      BY <1>1
    <2>2. ASSUME IsPresence(r, j), \A i \in (j + 1)..Len(r) : ~ IsPresence(r, i)
          PROVE  r[j].presence = presence
      <3>1. ASSUME NEW i \in (j + 2)..Len(q) PROVE ~ IsPresence(q, i)
        <4>1. i - 1 \in (j + 1)..Len(r) /\ r[i - 1] = q[i]
          BY <1>1, <1>4, <3>1
        <4> QED BY <2>2, <4>1 DEF IsPresence
      <3>2. IsPresence(q, j + 1) /\ (j + 1) + 1 = j + 2
        BY <2>1, <2>2 DEF IsPresence
      <3> QED BY <2>1, <3>1, <3>2 DEF Known
    <2> QED BY <2>1, <2>2 DEF Known
  <1>6. Ordered(r, more)
    <2> SUFFICES ASSUME NEW j \in 1..Len(r)
                 PROVE  /\ r[j].tag = "said" => r[j].entry.seq <= more + 1 \/ Before(r, j, r[j].entry.seq - 1)
                        /\ r[j].tag = "ended" => r[j].said <= more \/ Before(r, j, r[j].said)
      BY DEF Ordered
    <2>1. r[j] = q[j + 1] /\ j + 1 \in 1..Len(q) /\ j \in Nat
      BY <1>1
    <2>2. ASSUME r[j].tag = "said" PROVE r[j].entry.seq <= more + 1 \/ Before(r, j, r[j].entry.seq - 1)
      <3>1. r[j].entry.seq <= len + 1 \/ Before(q, j + 1, r[j].entry.seq - 1)
        BY <2>1, <2>2 DEF Ordered
      <3>2. r[j].entry.seq \in Nat
        BY <1>3, <2>1, <2>2
      <3>3. CASE r[j].entry.seq <= len + 1
        BY <3>2, <3>3
      <3>4. CASE Before(q, j + 1, r[j].entry.seq - 1)
        <4>1. Before(r, j, r[j].entry.seq - 1) \/ (h.tag = "said" /\ h.entry.seq = r[j].entry.seq - 1)
          BY <1>2, <2>1, <3>4
        <4> QED BY <3>2, <4>1 DEF h
      <3> QED BY <3>1, <3>3, <3>4
    <2>3. ASSUME r[j].tag = "ended" PROVE r[j].said <= more \/ Before(r, j, r[j].said)
      <3>1. r[j].said <= len \/ Before(q, j + 1, r[j].said)
        BY <2>1, <2>3 DEF Ordered
      <3>2. r[j].said \in Nat
        <4>1. r[j] \in Frame
          BY <1>1
        <4> QED BY <2>3, <4>1 DEF Frame
      <3>3. CASE r[j].said <= len
        BY <3>2, <3>3
      <3>4. CASE Before(q, j + 1, r[j].said)
        <4>1. Before(r, j, r[j].said) \/ (h.tag = "said" /\ h.entry.seq = r[j].said)
          BY <1>2, <2>1, <3>4
        <4> QED BY <4>1 DEF h
      <3> QED BY <3>1, <3>3, <3>4
    <2> QED BY <2>2, <2>3
  <1>7. Complete(r, more)
    <2>1. CASE said <= len
      BY <2>1 DEF Complete
    <2>2. CASE Before(q, Len(q) + 1, said)
      <3>1. Len(r) + 1 \in Nat /\ Len(q) + 1 = (Len(r) + 1) + 1
        BY <1>1
      <3>2. Before(r, Len(r) + 1, said) \/ (h.tag = "said" /\ h.entry.seq = said)
        BY <1>2, <2>2, <3>1
      <3> QED BY <3>2 DEF Complete, h
    <2> QED BY <2>1, <2>2 DEF Complete
  <1>8. TellsPresence(r, told)
    <2>1. CASE \E j \in 2..Len(q) : IsPresence(q, j)
      BY <1>4, <2>1 DEF IsPresence, TellsPresence
    <2>2. CASE ~ \E j \in 2..Len(q) : IsPresence(q, j)
      <3>1. CASE h.tag = "presence"
        <4>1. 1 \in 1..Len(q) /\ IsPresence(q, 1) /\ (1 + 1 = 2) /\ told = q[1].presence
          BY <1>1, <3>1 DEF IsPresence, h
        <4>2. q[1].presence = presence
          BY <2>2, <4>1 DEF Known
        <4> QED BY <4>1, <4>2 DEF TellsPresence
      <3>2. CASE h.tag # "presence"
        <4>1. ASSUME NEW j \in 1..Len(q), IsPresence(q, j) PROVE FALSE
          BY <1>1, <2>2, <3>2, <4>1 DEF IsPresence
        <4> QED BY <3>2, <4>1 DEF TellsPresence, h
      <3> QED BY <3>1, <3>2
    <2> QED BY <2>1, <2>2
  <1>9. TellsEnd(r)
    <2>1. ASSUME NEW j \in 1..Len(q), q[j].tag = "ended" PROVE j \in 2..Len(q)
      BY <1>1, <2>1 DEF h
    <2> QED BY <1>4, <2>1 DEF TellsEnd
  <1> QED BY <1>5, <1>6, <1>7, <1>8, <1>9 DEF r

\* The replay goes out in front of what was published since the subscription.
LEMMA ReplayStep ==
  ASSUME TypeOK, endedAt <= said, NEW t \in Tabs, Page(t), Replay(t)
  PROVE  Page(t)'
  <1> DEFINE a == initial(t)
             q == pipe[t]
             r == a \o q
             n == after[t]
             k == Len(conversationSince(after[t]))
             len == Len(rendered[t])
  <1>1. /\ q \in Seq(Frame) /\ len \in Nat /\ said \in Nat /\ epoch \in Nat /\ n \in Nat
        /\ endedAt \in Nat /\ presence \in Presence /\ n <= len /\ Known(q)
    BY LiveChannelAssumption DEF TypeOK, Replay, Page, Cursor
  <1>2. /\ a \in Seq(Frame) /\ k = (IF said > n THEN said - n ELSE 0)
        /\ Len(a) = (IF ended THEN k + 2 ELSE k + 1)
        /\ \A i \in 1..k : a[i] = SaidFrame(n + i)
        /\ a[k + 1] = PresenceFrame(presence)
        /\ ended => a[k + 2] = EndedFrame(endedAt)
    BY Initial
  <1>3. pipe'[t] = r /\ rendered' = rendered /\ shown' = shown /\ UNCHANGED daemonVars
    BY DEF Replay, TypeOK
  <1>4. Bubbles(t)' /\ Cursor(t)'
    BY DEF Page, Bubbles, Cursor, Replay, CurrentPage, TypeOK
  <1> HIDE DEF a, q, k, n, len
  <1>5. /\ r \in Seq(Frame) /\ Len(r) = Len(a) + Len(q) /\ k \in Nat /\ Len(a) \in Nat /\ Len(q) \in Nat
        /\ \A j \in 1..Len(a) : r[j] = a[j]
        /\ \A j \in (Len(a) + 1)..Len(r) : r[j] = q[j - Len(a)] /\ j - Len(a) \in 1..Len(q)
    <2>1. /\ r \in Seq(Frame) /\ Len(r) = Len(a) + Len(q) /\ \A j \in 1..Len(a) : r[j] = a[j]
          /\ \A j \in (Len(a) + 1)..(Len(a) + Len(q)) : r[j] = q[j - Len(a)]
      BY <1>1, <1>2, Concatenating
    <2>2. k \in Nat /\ Len(a) \in Nat /\ Len(q) \in Nat
      BY <1>1, <1>2
    <2> HIDE DEF r
    <2> QED BY <2>1, <2>2
  <1> HIDE DEF r
  \* The replayed entries, seq by seq, and what comes after them in the replay.
  <1>6. \A i \in 1..k : i \in 1..Len(r) /\ r[i].tag = "said" /\ r[i].entry.seq = n + i /\ r[i].entry.epoch = epoch
    <2> TAKE i \in 1..k
    <2>1. i \in 1..Len(a) /\ i \in 1..Len(r)
      BY <1>2, <1>5
    <2>2. r[i] = SaidFrame(n + i)
      BY <1>2, <1>5, <2>1
    <2> QED BY <2>1, <2>2 DEF SaidFrame
  <1>7. k + 1 \in 1..Len(r) /\ r[k + 1].tag = "presence" /\ r[k + 1].presence = presence
    <2>1. k + 1 \in 1..Len(a) /\ k + 1 \in 1..Len(r)
      BY <1>2, <1>5
    <2>2. r[k + 1] = PresenceFrame(presence)
      BY <1>2, <1>5, <2>1
    <2> QED BY <2>1, <2>2 DEF PresenceFrame
  <1>8. ended => k + 2 \in 1..Len(r) /\ r[k + 2].tag = "ended" /\ r[k + 2].said = endedAt
    <2> SUFFICES ASSUME ended
                 PROVE  k + 2 \in 1..Len(r) /\ r[k + 2].tag = "ended" /\ r[k + 2].said = endedAt
      OBVIOUS
    <2>1. k + 2 \in 1..Len(a) /\ k + 2 \in 1..Len(r)
      BY <1>2, <1>5
    <2>2. r[k + 2] = EndedFrame(endedAt)
      BY <1>2, <1>5, <2>1
    <2> QED BY <2>1, <2>2 DEF EndedFrame
  <1>9. \A j \in 1..Len(r) : j \in 1..k \/ j = k + 1 \/ (ended /\ j = k + 2) \/ j \in (Len(a) + 1)..Len(r)
    BY <1>2, <1>5
  <1>10. ASSUME NEW m \in Nat, m <= said, NEW j \in Nat, j > k PROVE m <= len \/ Before(r, j, m)
    <2>1. CASE m <= n
      BY <1>1, <2>1
    <2>2. CASE m > n
      <3>1. m - n \in 1..k /\ m - n < j /\ n + (m - n) = m
        BY <1>1, <1>2, <1>10, <2>2
      <3> QED BY <1>6, <3>1 DEF Before
    <2> QED BY <1>1, <2>1, <2>2
  <1>11. Known(r)
    <2> SUFFICES ASSUME NEW j \in 1..Len(r)
                 PROVE  /\ r[j].tag = "said" => r[j].entry.epoch = epoch /\ r[j].entry.seq \in 1..said
                        /\ r[j].tag = "ended" => r[j].said <= said
                        /\ IsPresence(r, j) /\ (\A i \in (j + 1)..Len(r) : ~ IsPresence(r, i))
                             => r[j].presence = presence
      BY DEF Known
    <2>1. CASE j \in 1..k
      <3>1. r[j].tag = "said" /\ r[j].entry.epoch = epoch /\ r[j].entry.seq = n + j
        BY <1>6, <2>1
      <3>2. n + j \in 1..said
        BY <1>1, <1>2, <2>1
      <3> QED BY <3>1, <3>2 DEF IsPresence
    <2>2. CASE j = k + 1
      BY <1>7, <2>2
    <2>3. CASE ended /\ j = k + 2
      BY <1>8, <2>3 DEF IsPresence
    <2>4. CASE j \in (Len(a) + 1)..Len(r)
      <3> DEFINE d == j - Len(a)
      <3>1. r[j] = q[d] /\ d \in 1..Len(q)
        BY <1>5, <2>4
      <3>2. ASSUME IsPresence(r, j), \A i \in (j + 1)..Len(r) : ~ IsPresence(r, i)
            PROVE  r[j].presence = presence
        <4>1. ASSUME NEW i \in (d + 1)..Len(q) PROVE ~ IsPresence(q, i)
          <5>1. /\ i + Len(a) \in (j + 1)..Len(r) /\ i + Len(a) \in (Len(a) + 1)..Len(r)
                /\ (i + Len(a)) - Len(a) = i
            BY <1>5, <3>1, <4>1
          <5>2. r[i + Len(a)] = q[i]
            BY <1>5, <5>1
          <5> QED BY <3>2, <5>1, <5>2 DEF IsPresence
        <4>2. IsPresence(q, d)
          BY <3>1, <3>2 DEF IsPresence
        <4> HIDE DEF d
        <4> QED BY <1>1, <3>1, <4>1, <4>2 DEF Known
      <3> HIDE DEF d
      <3> QED BY <1>1, <3>1, <3>2 DEF Known
    <2> QED BY <1>9, <2>1, <2>2, <2>3, <2>4
  <1>12. Ordered(r, len)
    <2> SUFFICES ASSUME NEW j \in 1..Len(r)
                 PROVE  /\ r[j].tag = "said" => r[j].entry.seq <= len + 1 \/ Before(r, j, r[j].entry.seq - 1)
                        /\ r[j].tag = "ended" => r[j].said <= len \/ Before(r, j, r[j].said)
      BY DEF Ordered
    <2>1. CASE j \in 1..k
      <3>1. r[j].tag = "said" /\ r[j].entry.seq = n + j
        BY <1>6, <2>1
      <3>2. CASE j = 1
        BY <1>1, <3>1, <3>2
      <3>3. CASE j # 1
        <4>1. j - 1 \in 1..k /\ j - 1 < j /\ n + (j - 1) = (n + j) - 1
          BY <1>1, <1>5, <2>1, <3>3
        <4>2. Before(r, j, (n + j) - 1)
          BY <1>6, <4>1 DEF Before
        <4> QED BY <3>1, <4>2
      <3> QED BY <3>2, <3>3
    <2>2. CASE j > k
      <3>1. ASSUME r[j].tag = "said" PROVE r[j].entry.seq <= len + 1 \/ Before(r, j, r[j].entry.seq - 1)
        <4>1. r[j].entry.seq \in 1..said
          BY <1>11, <3>1 DEF Known
        <4>2. r[j].entry.seq - 1 \in Nat /\ r[j].entry.seq - 1 <= said /\ j \in Nat
          BY <1>1, <4>1
        <4>3. r[j].entry.seq - 1 <= len \/ Before(r, j, r[j].entry.seq - 1)
          BY <1>10, <2>2, <4>2
        <4> QED BY <1>1, <4>1, <4>3
      <3>2. ASSUME r[j].tag = "ended" PROVE r[j].said <= len \/ Before(r, j, r[j].said)
        <4>1. r[j] \in Frame
          BY <1>5
        <4>2. r[j].said \in Nat /\ r[j].said <= said /\ j \in Nat
          BY <1>11, <3>2, <4>1 DEF Known, Frame
        <4> QED BY <1>10, <2>2, <4>2
      <3> QED BY <3>1, <3>2
    <2> QED BY <1>5, <2>1, <2>2
  <1>13. Complete(r, len)
    <2>1. Len(r) + 1 \in Nat /\ Len(r) + 1 > k
      BY <1>5, <1>7
    <2> QED BY <1>1, <1>10, <2>1 DEF Complete
  <1>14. TellsPresence(r, shown[t]) /\ TellsEnd(r)
    BY <1>7, <1>8 DEF TellsPresence, TellsEnd, IsPresence
  <1>15. Known(pipe[t])'
    BY <1>3, <1>11 DEF Known, IsPresence
  <1>16. Live(t)'
    BY <1>3, <1>12, <1>13, <1>14
       DEF Live, Ordered, Complete, TellsPresence, TellsEnd, IsPresence, Before, len
  <1> QED BY <1>4, <1>15, <1>16 DEF Page

LEMMA Epochs ==
  ASSUME NEW s \in Seq(Entry)
  PROVE  \A n \in 1..Len(s) : s[n] \in Entry /\ s[n].epoch \in Nat
  <1> TAKE n \in 1..Len(s)
  <1>1. s[n] \in Entry
    OBVIOUS
  <1> QED BY <1>1 DEF Entry

\* A frame that is no end reaches the page.
LEMMA ReceiveStep ==
  ASSUME TypeOK, NEW t \in Tabs, Page(t), ReceiveEntry(t) \/ ReceivePresence(t)
  PROVE  Page(t)'
  <1> DEFINE q == pipe[t]
             h == Head(pipe[t])
             len == Len(rendered[t])
             more == Len(rendered'[t])
  <1>1. /\ q \in Seq(Frame) /\ q # <<>> /\ len \in Nat /\ said \in Nat /\ epoch \in Nat /\ born[t] \in Nat
        /\ rendered[t] \in Seq(Entry) /\ lastId[t] \in Nat /\ after[t] \in Nat
        /\ stream[t] = "live" /\ pipe'[t] = Tail(q) /\ stream'[t] = "live" /\ after'[t] = after[t]
        /\ UNCHANGED <<daemonVars, page, born>>
    BY LiveChannelAssumption DEF TypeOK, ReceiveEntry, ReceivePresence
  <1>2. /\ h \in Frame /\ Len(q) \in Nat /\ Len(q) > 0 /\ h = q[1]
    BY <1>1, Shifting
  <1>3. /\ Known(q) /\ Ordered(q, len) /\ Complete(q, len) /\ TellsPresence(q, shown[t]) /\ TellsEnd(q)
        /\ Bubbles(t) /\ Cursor(t)
    BY <1>1 DEF Page, Live
  <1>4. Bubbles(t)' /\ Cursor(t)' /\ more \in Nat /\ len <= more /\ (h.tag = "said" => h.entry.seq <= more)
    <2>1. CASE ReceivePresence(t)
      <3>1. h.tag # "said" /\ rendered' = rendered /\ lastId' = lastId
        BY <2>1 DEF ReceivePresence
      <3>2. Bubbles(t)'
        BY <1>1, <1>3, <3>1 DEF Bubbles, CurrentPage
      <3>3. Cursor(t)'
        BY <1>1, <1>3, <3>1 DEF Cursor
      <3>4. more = len
        BY <3>1
      <3> HIDE DEF h, len, more
      <3> QED BY <1>1, <3>1, <3>2, <3>3, <3>4
    <2>2. CASE ReceiveEntry(t)
      <3> DEFINE e == h.entry
      <3>1. /\ h.tag = "said" /\ e \in Entry /\ lastId'[t] = e.seq
            /\ rendered'[t] = (IF e.seq \in seen(t) THEN rendered[t] ELSE Append(rendered[t], e))
        BY <1>2, <2>2 DEF ReceiveEntry, Frame, TypeOK
      <3>2. e.seq \in Nat /\ e.epoch = epoch /\ e.seq \in 1..said
        BY <1>2, <1>3, <3>1 DEF Known
      <3>3. e.seq <= len + 1
        <4>1. ~ Before(q, 1, e.seq - 1)
          BY DEF Before
        <4> QED BY <1>2, <1>3, <3>1, <4>1 DEF Ordered
      <3>4. CASE e.seq <= len
        <4>1. e.seq \in 1..len /\ rendered[t][e.seq].seq = e.seq
          BY <1>3, <3>2, <3>4 DEF Bubbles
        <4>2. rendered'[t] = rendered[t]
          <5>1. e.seq \in DOMAIN rendered[t]
            BY <1>1, <4>1
          <5> HIDE DEF e
          <5> QED BY <3>1, <4>1, <5>1 DEF seen
        <4>3. Bubbles(t)'
          BY <1>1, <1>3, <4>2 DEF Bubbles, CurrentPage
        <4> HIDE DEF e
        <4>4. page[t] # "none"
          BY <1>1 DEF TypeOK
        <4>5. Cursor(t)'
          BY <1>1, <1>3, <3>1, <3>2, <3>4, <4>2, <4>4 DEF Cursor
        <4>6. more = len
          BY <4>2
        <4> QED BY <1>1, <3>2, <3>4, <4>3, <4>5, <4>6 DEF e
      <3>5. CASE e.seq = len + 1
        <4>1. e.seq \notin seen(t)
          <5>1. \A n \in DOMAIN rendered[t] : rendered[t][n].seq = n /\ n \in 1..len
            BY <1>1, <1>3 DEF Bubbles
          <5> HIDE DEF e
          <5> QED BY <1>1, <3>5, <5>1 DEF seen
        <4>2. rendered'[t] = Append(rendered[t], e)
          BY <3>1, <4>1
        <4>3. /\ more = len + 1 /\ rendered'[t][len + 1] = e
              /\ \A n \in 1..len : rendered'[t][n] = rendered[t][n]
          BY <1>1, <3>1, <4>2, Appending
        <4>4. \A n \in 1..len : rendered[t][n].epoch \in Nat
          BY <1>1, Epochs
        <4> HIDE DEF e, more
        <4>5. Bubbles(t)'
          <5> SUFFICES ASSUME NEW n \in 1..(len + 1)
                       PROVE  /\ rendered'[t][n].seq = n
                              /\ rendered'[t][n].epoch <= epoch
                              /\ rendered'[t][n].epoch = epoch => n <= said
                              /\ CurrentPage(t) => rendered'[t][n].epoch = epoch
                              /\ \A m \in 1..n : rendered'[t][m].epoch <= rendered'[t][n].epoch
            BY <1>1, <4>3 DEF Bubbles, CurrentPage, more
          <5>1. CASE n \in 1..len
            <6>1. \A m \in 1..n : m \in 1..len
              BY <1>1, <5>1
            <6> QED BY <1>3, <4>3, <5>1, <6>1 DEF Bubbles
          <5>2. CASE n = len + 1
            <6>1. \A m \in 1..n : rendered'[t][m].epoch <= epoch
              <7> TAKE m \in 1..n
              <7>1. m \in 1..len \/ m = len + 1
                BY <1>1, <5>2
              <7>2. CASE m \in 1..len
                <8>1. rendered[t][m].epoch <= epoch
                  BY <1>3, <7>2 DEF Bubbles
                <8>2. rendered'[t][m] = rendered[t][m]
                  BY <4>3, <7>2
                <8> QED BY <8>1, <8>2
              <7>3. CASE m = len + 1
                <8>1. rendered'[t][m] = e /\ e.epoch = epoch
                  BY <3>2, <4>3, <7>3
                <8> QED BY <1>1, <8>1
              <7> QED BY <7>1, <7>2, <7>3
            <6> QED BY <1>1, <3>2, <3>5, <4>3, <5>2, <6>1
          <5> QED BY <1>1, <5>1, <5>2
        <4>6. Cursor(t)'
          <5>1. page[t] # "none"
            BY <1>1 DEF TypeOK
          <5>2. /\ lastId'[t] <= more /\ born'[t] <= epoch' /\ after'[t] <= more /\ page'[t] # "none"
            BY <1>1, <1>3, <3>1, <3>5, <4>3, <5>1 DEF Cursor
          <5> QED BY <5>2 DEF Cursor, more
        <4> QED BY <1>1, <3>2, <3>5, <4>3, <4>5, <4>6 DEF e
      <3> HIDE DEF e
      <3> QED BY <1>1, <3>2, <3>3, <3>4, <3>5
    <2> QED BY <2>1, <2>2
  <1>5. /\ h.tag # "ended"
        /\ h.tag = "presence" => shown'[t] = h.presence
        /\ h.tag # "presence" => shown'[t] = shown[t]
    BY DEF ReceiveEntry, ReceivePresence, TypeOK
  <1>6. /\ Known(Tail(q)) /\ Ordered(Tail(q), more) /\ Complete(Tail(q), more)
        /\ TellsPresence(Tail(q), shown'[t]) /\ TellsEnd(Tail(q))
    <2> HIDE DEF q, len, more
    <2> QED BY <1>1, <1>3, <1>4, <1>5, Delivered DEF h, q
  <1>7. Known(pipe[t])' /\ Live(t)'
    <2>1. pipe'[t] = Tail(q) /\ UNCHANGED <<epoch, said, presence, ended>>
      BY <1>1
    <2>2. Known(pipe[t])'
      BY <1>6, <2>1 DEF Known, IsPresence
    <2>3. Ordered(pipe[t], Len(rendered[t]))' /\ Complete(pipe[t], Len(rendered[t]))'
      BY <1>6, <2>1 DEF Ordered, Complete, Before
    <2>4. TellsPresence(pipe[t], shown[t])' /\ TellsEnd(pipe[t])'
      BY <1>6, <2>1 DEF TellsPresence, TellsEnd, IsPresence
    <2> QED BY <2>2, <2>3, <2>4 DEF Live
  <1> QED BY <1>1, <1>4, <1>7 DEF Page

\* An event of the session is published to every page.
LEMMA PublishStep ==
  ASSUME TypeOK, ChannelInv, Say \/ PresenceMoves \/ End
  PROVE  ChannelInv'
  <1>1. said \in Nat /\ epoch \in Nat /\ endedAt \in Nat /\ said + 1 \in Nat /\ endedAt <= said
    BY LiveChannelAssumption DEF TypeOK, ChannelInv
  <1>2. /\ UNCHANGED <<epoch, stream, after, page, born, rendered, lastId, shown>>
        /\ said' \in Nat /\ endedAt' <= said'
    BY <1>1 DEF Say, PresenceMoves, End
  <1>3. PICK f \in Frame :
           /\ publish(f)
           /\ \/ f = SaidFrame(said') /\ said' = said + 1 /\ UNCHANGED <<presence, ended>>
              \/ f = PresenceFrame(presence') /\ UNCHANGED <<said, ended>>
              \/ f = EndedFrame(said) /\ UNCHANGED <<said, presence>>
    <2>1. CASE Say
      <3>1. said' = said + 1 /\ said' \in Nat /\ publish(SaidFrame(said')) /\ UNCHANGED <<presence, ended>>
        BY <1>1, <2>1 DEF Say
      <3> QED BY <1>1, <3>1, FrameTypes
    <2>2. CASE PresenceMoves
      <3>1. presence' \in Presence /\ publish(PresenceFrame(presence')) /\ UNCHANGED <<said, ended>>
        BY <2>2 DEF PresenceMoves
      <3> QED BY <3>1, FrameTypes
    <2>3. CASE End
      <3>1. publish(EndedFrame(said)) /\ UNCHANGED <<said, presence>>
        BY <2>3 DEF End
      <3> QED BY <1>1, <3>1, FrameTypes
    <2> QED BY <2>1, <2>2, <2>3
  <1>4. ASSUME NEW t \in Tabs PROVE Page(t)'
    <2>1. Page(t)
      BY DEF ChannelInv
    <2> QED BY <1>2, <1>3, <2>1, Published
  <1> QED BY <1>2, <1>4 DEF ChannelInv

\* A page and the daemon's side of its connection move; the other pages do not.
LEMMA PageStep ==
  ASSUME TypeOK, ChannelInv, NEW t \in Tabs, Serves(t) \/ Receives(t) \/ Human(t)
  PROVE  ChannelInv'
  <1>1. Page(t) /\ endedAt <= said /\ epoch \in Nat /\ lastId[t] \in Nat
    BY LiveChannelAssumption DEF ChannelInv, TypeOK
  <1>2. UNCHANGED daemonVars
    BY DEF Serves, Receives, Human, Connect, Replay, ReceiveEntry, ReceivePresence, ReceiveEnded,
           OpenPage, Drop, ClosePage
  <1>3. ASSUME NEW u \in Tabs, u # t PROVE Page(u)'
    <2>1. /\ stream'[u] = stream[u] /\ pipe'[u] = pipe[u] /\ page'[u] = page[u] /\ born'[u] = born[u]
          /\ rendered'[u] = rendered[u] /\ lastId'[u] = lastId[u] /\ shown'[u] = shown[u] /\ after'[u] = after[u]
      <3>1. CASE Serves(t)
        BY <1>3, <3>1 DEF Serves, Connect, Replay, TypeOK
      <3>2. CASE Receives(t)
        BY <1>3, <3>2 DEF Receives, ReceiveEntry, ReceivePresence, ReceiveEnded, hangUp, TypeOK
      <3>3. CASE Human(t)
        BY <1>3, <3>3 DEF Human, OpenPage, Drop, ClosePage, hangUp, TypeOK
      <3> QED BY <3>1, <3>2, <3>3
    <2>2. Page(u)
      BY DEF ChannelInv
    <2> QED BY <1>2, <2>1, <2>2, Unmoved
  <1>4. Page(t)'
    <2>1. CASE Connect(t)
      <3>1. /\ stream[t] = "none" /\ pipe[t] = <<>> /\ pipe'[t] = <<>> /\ stream'[t] = "subscribed"
            /\ after'[t] = lastId[t] /\ UNCHANGED <<page, born, rendered, lastId, shown>>
        BY <2>1 DEF Connect, TypeOK
      <3>2. Bubbles(t)' /\ Cursor(t)'
        BY <1>1, <1>2, <3>1 DEF Page, Bubbles, Cursor, CurrentPage
      <3>3. Known(pipe[t])'
        BY <3>1 DEF Known
      <3> QED BY <3>1, <3>2, <3>3 DEF Page
    <2>2. CASE Replay(t)
      BY <1>1, <2>2, ReplayStep
    <2>3. CASE ReceiveEntry(t) \/ ReceivePresence(t)
      BY <1>1, <2>3, ReceiveStep
    <2>4. CASE ReceiveEnded(t)
      <3>1. /\ stream'[t] = "none" /\ rendered' = rendered /\ born' = born /\ lastId' = lastId
            /\ page'[t] = "ended" /\ page[t] # "none"
        BY <2>4 DEF ReceiveEnded, hangUp, TypeOK
      <3> QED BY <1>1, <1>2, <3>1, Disconnected
    <2>5. CASE Drop(t)
      <3>1. /\ stream'[t] = "none" /\ rendered' = rendered /\ born' = born /\ lastId' = lastId
            /\ page' = page /\ page[t] # "none"
        BY <2>5 DEF Drop, hangUp, TypeOK
      <3> QED BY <1>1, <1>2, <3>1, Disconnected
    <2>6. CASE OpenPage(t)
      <3>1. /\ page[t] = "none" /\ stream[t] = "none" /\ stream' = stream /\ born'[t] = epoch
            /\ rendered' = rendered /\ rendered[t] = <<>> /\ lastId' = lastId /\ page'[t] = "open"
        BY <1>1, <2>6 DEF OpenPage, TypeOK, Page, Cursor
      <3> QED BY <1>1, <1>2, <3>1 DEF Page, Bubbles, Cursor
    <2>7. CASE ClosePage(t)
      <3>1. stream'[t] = "none" /\ rendered'[t] = <<>> /\ lastId'[t] = 0 /\ born' = born
        BY <2>7 DEF ClosePage, hangUp, TypeOK
      <3> QED BY <1>1, <1>2, <3>1 DEF Page, Bubbles, Cursor
    <2> QED BY <2>1, <2>2, <2>3, <2>4, <2>5, <2>6, <2>7 DEF Serves, Receives, Human
  <1>5. ASSUME NEW u \in Tabs PROVE Page(u)'
    BY <1>3, <1>4
  <1> QED BY <1>1, <1>2, <1>5 DEF ChannelInv

LEMMA ChannelStep == TypeOK /\ ChannelInv /\ [Next]_vars => ChannelInv'
  <1> SUFFICES ASSUME TypeOK, ChannelInv, [Next]_vars PROVE ChannelInv'
    OBVIOUS
  <1>1. CASE Say \/ PresenceMoves \/ End
    BY <1>1, PublishStep
  <1>2. CASE Resurrect
    <2>1. ASSUME NEW t \in Tabs PROVE Page(t)'
      <3>1. Page(t) /\ ~ ended' /\ UNCHANGED <<epoch, said, presence, stream, pipe, after, pageVars>>
        BY <1>2 DEF Resurrect, ChannelInv
      <3> QED BY <3>1 DEF Page, Bubbles, Cursor, Known, Live, Ordered, Complete, TellsPresence, TellsEnd,
                          IsPresence, Before, CurrentPage
    <2> QED BY <1>2, <2>1 DEF Resurrect, ChannelInv
  <1>3. CASE Restart
    <2>1. ASSUME NEW t \in Tabs PROVE Page(t)'
      <3>1. /\ Bubbles(t) /\ Cursor(t) /\ epoch \in Nat /\ epoch' = epoch + 1 /\ born[t] \in Nat
            /\ stream'[t] = "none" /\ UNCHANGED pageVars
            /\ rendered[t] \in Seq(Entry)
        BY <1>3, LiveChannelAssumption DEF Restart, ChannelInv, Page, TypeOK
      <3>2. ~ CurrentPage(t)'
        BY <3>1 DEF Cursor, CurrentPage
      <3>3. Bubbles(t)'
        BY <3>1, <3>2, Epochs DEF Bubbles
      <3>4. Cursor(t)'
        BY <3>1 DEF Cursor
      <3> QED BY <3>1, <3>3, <3>4 DEF Page
    <2> QED BY <1>3, <2>1 DEF Restart, ChannelInv
  <1>4. CASE \E t \in Tabs : Serves(t) \/ Receives(t) \/ Human(t)
    BY <1>4, PageStep
  <1>5. CASE UNCHANGED vars
    <2>1. ASSUME NEW t \in Tabs PROVE Page(t)'
      BY <1>5, Unmoved DEF vars, ChannelInv
    <2> QED BY <1>5, <2>1 DEF vars, ChannelInv
  <1> QED BY <1>1, <1>2, <1>3, <1>4, <1>5 DEF Next, Environment

LEMMA Invariants == Spec => [](TypeOK /\ ChannelInv)
  BY TypeInit, TypeStep, ChannelInit, ChannelStep, PTL DEF Spec

------------------------------------------------------------------------------
(***************************************************************************)
(* ThreadIsPrefix: a page loaded from the running daemon shows a prefix of *)
(* the Conversation, whatever broke in between: the dedup by seq only ever *)
(* drops bubbles that are already there, and no frame overtakes the one it *)
(* needs.                                                                  *)
(***************************************************************************)
THEOREM PageShowsPrefix == Spec => []ThreadIsPrefix
  <1>1. TypeOK /\ ChannelInv => ThreadIsPrefix
    <2> SUFFICES ASSUME TypeOK, ChannelInv, NEW t \in Tabs, CurrentPage(t)
                 PROVE  rendered[t] = [n \in 1..Len(rendered[t]) |-> [seq |-> n, epoch |-> epoch]]
      BY DEF ThreadIsPrefix
    <2>1. Bubbles(t) /\ rendered[t] \in Seq(Entry)
      BY DEF ChannelInv, Page, TypeOK
    <2>2. \A n \in 1..Len(rendered[t]) : rendered[t][n] = [seq |-> n, epoch |-> epoch]
      <3> TAKE n \in 1..Len(rendered[t])
      <3>1. rendered[t][n].seq = n /\ rendered[t][n].epoch = epoch /\ rendered[t][n] \in Entry
        BY <2>1 DEF Bubbles
      <3> QED BY <3>1 DEF Entry
    <2> QED BY <2>1, <2>2
  <1> QED BY Invariants, <1>1, PTL

(***************************************************************************)
(* NeverTwice: no page ever shows a bubble twice or out of order, also one *)
(* that outlived its daemon.                                               *)
(***************************************************************************)
THEOREM NoBubbleTwice == Spec => []NeverTwice
  <1>1. TypeOK /\ ChannelInv => NeverTwice
    <2> SUFFICES ASSUME TypeOK, ChannelInv, NEW t \in Tabs,
                        NEW m \in DOMAIN rendered[t], NEW n \in DOMAIN rendered[t], m < n
                 PROVE  \/ rendered[t][m].epoch < rendered[t][n].epoch
                        \/ /\ rendered[t][m].epoch = rendered[t][n].epoch
                           /\ rendered[t][m].seq < rendered[t][n].seq
      BY DEF NeverTwice
    <2>1. Bubbles(t) /\ rendered[t] \in Seq(Entry)
      BY DEF ChannelInv, Page, TypeOK
    <2>2. m \in 1..Len(rendered[t]) /\ n \in 1..Len(rendered[t]) /\ m \in 1..n
      BY <2>1
    <2>3. rendered[t][m].epoch \in Nat /\ rendered[t][n].epoch \in Nat
      BY <2>1, <2>2, Epochs
    <2> QED BY <2>1, <2>2, <2>3 DEF Bubbles
  <1> QED BY Invariants, <1>1, PTL

(***************************************************************************)
(* CaughtUpShowsCurrent: the replay and the live frames together leave out *)
(* nothing: a page with nothing more to receive shows all that was said,   *)
(* the Presence of now, and no session that has ended.                     *)
(***************************************************************************)
THEOREM CaughtUpIsCurrent == Spec => []CaughtUpShowsCurrent
  <1>1. TypeOK /\ ChannelInv => CaughtUpShowsCurrent
    <2> SUFFICES ASSUME TypeOK, ChannelInv, NEW t \in Tabs, CurrentPage(t), CaughtUp(t)
                 PROVE  Len(rendered[t]) = said /\ shown[t] = presence /\ ~ ended
      BY DEF CaughtUpShowsCurrent
    <2>1. Bubbles(t) /\ Live(t) /\ pipe[t] = <<>> /\ rendered[t] \in Seq(Entry) /\ said \in Nat
      BY LiveChannelAssumption DEF ChannelInv, Page, TypeOK, CaughtUp
    <2>2. said <= Len(rendered[t])
      BY <2>1 DEF Live, Complete, Before
    <2>3. Len(rendered[t]) <= said
      <3>1. Len(rendered[t]) \in Nat
        BY <2>1
      <3>2. CASE Len(rendered[t]) = 0
        BY <2>1, <3>2
      <3>3. CASE Len(rendered[t]) > 0
        BY <2>1, <3>1, <3>3 DEF Bubbles
      <3> QED BY <3>1, <3>2, <3>3
    <2>4. shown[t] = presence /\ ~ ended
      BY <2>1 DEF Live, TellsPresence, TellsEnd
    <2> QED BY <2>1, <2>2, <2>3, <2>4
  <1> QED BY Invariants, <1>1, PTL

(***************************************************************************)
(* FinalBubbleBeforeEnded: an end is delivered behind everything that was  *)
(* said before it, in a replay as in a live pipe.                          *)
(***************************************************************************)
THEOREM EndedComesLast == Spec => FinalBubbleBeforeEnded
  <1> DEFINE Step == \A t \in Tabs : CurrentPage(t) /\ page[t] = "open" /\ page'[t] = "ended" =>
                        Len(rendered[t]) >= Head(pipe[t]).said
  <1>1. TypeOK /\ ChannelInv /\ [Next]_vars => [Step]_vars
    <2> SUFFICES ASSUME TypeOK, ChannelInv, Next, NEW t \in Tabs, page[t] = "open", page'[t] = "ended"
                 PROVE  Len(rendered[t]) >= Head(pipe[t]).said
      OBVIOUS
    <2>1. ReceiveEnded(t)
      <3>1. ASSUME NEW u \in Tabs, Serves(u) \/ Receives(u) \/ Human(u) PROVE ReceiveEnded(t)
        <4>1. CASE Serves(u) \/ Drop(u) \/ ReceiveEntry(u) \/ ReceivePresence(u)
          BY <4>1 DEF Serves, Connect, Replay, Drop, ReceiveEntry, ReceivePresence
        <4>2. CASE OpenPage(u) \/ ClosePage(u)
          BY <4>2 DEF OpenPage, ClosePage, TypeOK
        <4>3. CASE ReceiveEnded(u)
          <5>1. u = t
            BY <4>3 DEF ReceiveEnded, TypeOK
          <5> QED BY <4>3, <5>1
        <4> QED BY <3>1, <4>1, <4>2, <4>3 DEF Receives, Human
      <3>2. ~ Environment
        BY DEF Environment, Say, PresenceMoves, End, Resurrect, Restart
      <3> QED BY <3>1, <3>2 DEF Next
    <2>2. pipe[t] \in Seq(Frame) /\ pipe[t] # <<>> /\ Head(pipe[t]).tag = "ended" /\ stream[t] = "live"
      BY <2>1 DEF ReceiveEnded, TypeOK
    <2>3. Head(pipe[t]) \in Frame /\ 1 \in 1..Len(pipe[t]) /\ Head(pipe[t]) = pipe[t][1]
      BY <2>2, Shifting
    <2>4. Ordered(pipe[t], Len(rendered[t])) /\ Len(rendered[t]) \in Nat
      BY <2>2 DEF ChannelInv, Page, Live, TypeOK
    <2>5. ~ Before(pipe[t], 1, pipe[t][1].said)
      BY DEF Before
    <2>6. pipe[t][1].said <= Len(rendered[t])
      BY <2>2, <2>3, <2>4, <2>5 DEF Ordered
    <2>7. Head(pipe[t]).said \in Nat
      BY <2>2, <2>3 DEF Frame
    <2> QED BY <2>3, <2>4, <2>6, <2>7
  <1> QED BY Invariants, <1>1, PTL DEF Spec, FinalBubbleBeforeEnded, Step
===============================================================================
