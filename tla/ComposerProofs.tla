---------------------------- MODULE ComposerProofs ----------------------------
(***************************************************************************)
(* What holds of the composer for any budget of outside events.            *)
(***************************************************************************)
EXTENDS Composer, SelectionProofs, TLAPS

(***************************************************************************)
(* The channels of the Bridge.                                             *)
(***************************************************************************)
\* The fields of a message are those of its kind.
LEMMA Kinds ==
  ASSUME NEW m \in BridgeMessage
  PROVE  /\ m \in SetMode <=> m.kind = "set-mode"
         /\ m \in Adding <=> m.kind = "annotation-added"
         /\ m.kind = "set-mode" => m.mode \in BOOLEAN
         /\ m.kind \in {"annotation-added", "annotation-removed"} => m.id \in Nat
         /\ m.kind = "snapshot-result" => m.doc \in Nat /\ m.shows \in Nat
  BY DEF BridgeMessage, SetMode, Adding

\* What the two sides post.
LEMMA Messages ==
  /\ \A id \in Nat : [kind |-> "annotation-added", id |-> id] \in BridgeMessage
  /\ \A id \in Nat : clearMarker(id) \in BridgeMessage
  /\ \A mode \in BOOLEAN : [kind |-> "set-mode", mode |-> mode] \in BridgeMessage
  /\ [kind |-> "snapshot-request"] \in BridgeMessage
  /\ \A d, n \in Nat : [kind |-> "snapshot-result", doc |-> d, shows |-> n] \in BridgeMessage
  BY DEF BridgeMessage, SetMode, Adding, clearMarker

\* The ids of the annotations in a channel.
Ids(u) == LET adds == Only(u, Adding) IN [i \in DOMAIN adds |-> adds[i].id]

\* The ids that a channel asks to remove.
Removing(d) == {d[i].id : i \in {j \in DOMAIN d : d[j].kind = "annotation-removed"}}

\* Selecting the annotations of a channel.
LEMMA AddsType ==
  ASSUME NEW u \in Seq(BridgeMessage)
  PROVE  /\ Only(u, Adding) \in Seq(Adding) /\ Len(Only(u, Adding)) \in Nat
         /\ Ids(u) \in Seq(Nat)
         /\ DOMAIN Ids(u) = 1..Len(Only(u, Adding)) /\ Len(Ids(u)) = Len(Only(u, Adding))
  <1> DEFINE a == Only(u, Adding)
  <1>1. a \in Seq(BridgeMessage \intersect Adding)
    BY OnlyType
  <1>2. a \in Seq(Adding)
    <2>1. BridgeMessage \intersect Adding \subseteq Adding
      OBVIOUS
    <2> HIDE DEF a
    <2> QED BY <1>1, <2>1
  <1>3. Ids(u) = [i \in DOMAIN a |-> a[i].id]
    BY DEF Ids
  <1> HIDE DEF a
  <1>4. \A i \in 1..Len(a) : a[i].id \in Nat
    <2>1. \A i \in 1..Len(a) : a[i] \in Adding
      BY <1>2
    <2> QED BY <2>1 DEF Adding
  <1>5. Len(a) \in Nat /\ DOMAIN a = 1..Len(a)
    BY <1>2
  <1>6. Ids(u) \in [1..Len(a) -> Nat]
    BY <1>3, <1>4, <1>5
  <1>7. Ids(u) \in Seq(Nat) /\ Len(Ids(u)) = Len(a) /\ DOMAIN Ids(u) = 1..Len(a)
    BY <1>5, <1>6
  <1> QED BY <1>2, <1>5, <1>7 DEF a

\* A message posted up adds its id if it is an annotation,
LEMMA IdsAppend ==
  ASSUME NEW u \in Seq(BridgeMessage), NEW m \in BridgeMessage
  PROVE  Ids(Append(u, m)) = IF m.kind = "annotation-added" THEN Append(Ids(u), m.id) ELSE Ids(u)
  <1> DEFINE a == Only(u, Adding)
             b == Only(Append(u, m), Adding)
  <1>1. b = IF m \in Adding THEN Append(a, m) ELSE a
    BY OnlyAppend
  <1>2. a \in Seq(Adding) /\ Ids(u) \in Seq(Nat) /\ Len(Ids(u)) = Len(a)
    BY AddsType
  <1>3. Ids(u) = [i \in DOMAIN a |-> a[i].id] /\ Ids(Append(u, m)) = [i \in DOMAIN b |-> b[i].id]
    BY DEF Ids
  <1>4. m \in Adding <=> m.kind = "annotation-added"
    BY Kinds
  <1> HIDE DEF a, b
  <1>5. CASE m \in Adding
    <2>1. b = Append(a, m)
      BY <1>1, <1>5
    <2>2. DOMAIN b = 1..Len(a) + 1 /\ DOMAIN a = 1..Len(a) /\ Len(a) \in Nat
      BY <1>2, <1>5, <2>1
    <2>3. \A i \in 1..Len(a) + 1 : b[i].id = IF i = Len(a) + 1 THEN m.id ELSE Ids(u)[i]
      BY <1>2, <1>3, <1>5, <2>1, <2>2
    <2>4. m.id \in Nat
      BY <1>5 DEF Adding
    <2>5. Ids(Append(u, m)) = [i \in 1..Len(a) + 1 |-> IF i = Len(a) + 1 THEN m.id ELSE Ids(u)[i]]
      BY <1>3, <2>2, <2>3
    <2>6. Append(Ids(u), m.id) = [i \in 1..Len(a) + 1 |-> IF i = Len(a) + 1 THEN m.id ELSE Ids(u)[i]]
      BY <1>2, <2>4
    <2> QED BY <1>4, <1>5, <2>5, <2>6
  <1>6. CASE m \notin Adding
    BY <1>1, <1>3, <1>4, <1>6
  <1> QED BY <1>5, <1>6

\* and the one that comes takes it away.
LEMMA IdsHead ==
  ASSUME NEW u \in Seq(BridgeMessage), u # <<>>
  PROVE  Ids(u) = IF Head(u).kind = "annotation-added" THEN <<Head(u).id>> \o Ids(Tail(u))
                  ELSE Ids(Tail(u))
  <1> DEFINE m == Head(u)
             a == Only(u, Adding)
             b == Only(Tail(u), Adding)
  <1>1. m \in BridgeMessage /\ Tail(u) \in Seq(BridgeMessage)
    OBVIOUS
  <1>2. a = IF m \in Adding THEN <<m>> \o b ELSE b
    BY OnlyHead
  <1>3. b \in Seq(Adding) /\ Ids(Tail(u)) \in Seq(Nat) /\ Len(Ids(Tail(u))) = Len(b)
    BY <1>1, AddsType
  <1>4. Ids(u) = [i \in DOMAIN a |-> a[i].id] /\ Ids(Tail(u)) = [i \in DOMAIN b |-> b[i].id]
    BY DEF Ids
  <1>5. m \in Adding <=> m.kind = "annotation-added"
    BY <1>1, Kinds
  <1> HIDE DEF a, b, m
  <1>6. CASE m \in Adding
    <2>1. a = <<m>> \o b
      BY <1>2, <1>6
    <2>2. DOMAIN a = 1..Len(b) + 1 /\ DOMAIN b = 1..Len(b) /\ Len(b) \in Nat
      BY <1>3, <1>6, <2>1
    <2>3. \A i \in 1..Len(b) + 1 : a[i].id = IF i = 1 THEN m.id ELSE Ids(Tail(u))[i - 1]
      <3> SUFFICES ASSUME NEW i \in 1..Len(b) + 1
                   PROVE  a[i].id = IF i = 1 THEN m.id ELSE Ids(Tail(u))[i - 1]
        OBVIOUS
      <3>1. a[i] = IF i = 1 THEN m ELSE b[i - 1]
        BY <1>3, <1>6, <2>1
      <3>2. i # 1 => i - 1 \in DOMAIN b
        BY <2>2
      <3> QED BY <1>4, <3>1, <3>2
    <2>4. m.id \in Nat
      BY <1>6 DEF Adding
    <2>5. Ids(u) = [i \in 1..Len(b) + 1 |-> IF i = 1 THEN m.id ELSE Ids(Tail(u))[i - 1]]
      BY <1>4, <2>2, <2>3
    <2>6. <<m.id>> \o Ids(Tail(u)) = [i \in 1..Len(b) + 1 |-> IF i = 1 THEN m.id ELSE Ids(Tail(u))[i - 1]]
      BY <1>3, <2>4
    <2> QED BY <1>5, <1>6, <2>5, <2>6 DEF m
  <1>7. CASE m \notin Adding
    BY <1>2, <1>4, <1>5, <1>7 DEF m
  <1> QED BY <1>6, <1>7

------------------------------------------------------------------------------
(***************************************************************************)
(* Types.  A rider is numbered by what had come, so the types need that    *)
(* the annotations come in order: those on their way are the last ones     *)
(* captured, and a row has come.                                           *)
(***************************************************************************)
Arrivals ==
  /\ Len(onTheirWay) <= Len(origin)
  /\ \A i \in 1..Len(onTheirWay) : onTheirWay[i] = arrived + i
  /\ \A id \in Range(rows) : id \in 1..arrived
  /\ \A id \in Removing(down) : id \in DOMAIN origin

\* A snapshot under way is of a document there has been.
Results == \A j \in DOMAIN up : up[j].kind = "snapshot-result" => up[j].doc \in 1..doc

TypeInv == TypeOK /\ Arrivals /\ Results

\* The pc of a submission moves.
LEMMA PcType ==
  ASSUME NEW q \in Seq(Submission), NEW s \in DOMAIN q, NEW pc \in Pc, NEW taken \in BOOLEAN
  PROVE  /\ [q EXCEPT ![s].pc = pc] \in Seq(Submission)
         /\ [q EXCEPT ![s].pc = pc, ![s].taken = taken] \in Seq(Submission)
  <1>1. q[s] \in Submission
    OBVIOUS
  <1>2. /\ [q[s] EXCEPT !.pc = pc] \in Submission
        /\ [q[s] EXCEPT !.pc = pc, !.taken = taken] \in Submission
    BY <1>1 DEF Submission
  <1>3. \A x \in Submission : [q EXCEPT ![s] = x] \in Seq(Submission)
    BY ExceptSeq
  <1>4. [q EXCEPT ![s].pc = pc] = [q EXCEPT ![s] = [q[s] EXCEPT !.pc = pc]]
    OBVIOUS
  <1>5. [q EXCEPT ![s].pc = pc, ![s].taken = taken]
          = [q EXCEPT ![s] = [q[s] EXCEPT !.pc = pc, !.taken = taken]]
    OBVIOUS
  <1> QED BY <1>2, <1>3, <1>4, <1>5

\* At the start nothing has come and nothing is under way.
LEMMA TypeInit == Init => TypeInv
  <1> SUFFICES ASSUME Init PROVE TypeInv
    OBVIOUS
  <1>1. left \in [DOMAIN left -> Nat]
    BY ComposerAssumption DEF Init
  <1>2. TypeOK
    <2>1. \A S : <<>> \in Seq(S)
      BY EmptySeq
    <2>2. DOMAIN subs = {}
      BY DEF Init
    <2>3. /\ input \in 0..typed /\ disabled \subseteq Buttons /\ resets \in Nat
          /\ doc \in Nat \ {0} /\ phase \in Phase
      BY DEF Init, Buttons, Phase
    <2> QED BY <1>1, <2>1, <2>2, <2>3 DEF Init, TypeOK
  <1>3. onTheirWay = <<>>
    BY OnlyEmpty DEF Init, onTheirWay
  <1>4. Arrivals /\ Results
    BY <1>3 DEF Init, Arrivals, Results, Range, Removing
  <1> QED BY <1>2, <1>4 DEF TypeInv

\* A budget stays one of natural numbers.
LEMMA SpendType ==
  ASSUME TypeOK, NEW what, Spend(what)
  PROVE  left' \in [DOMAIN left' -> Nat]
  <1>1. left \in [DOMAIN left -> Nat] /\ left[what] > 0 /\ left' = [left EXCEPT ![what] = left[what] - 1]
    BY DEF TypeOK, Spend
  <1>2. ASSUME NEW x \in DOMAIN left PROVE left'[x] \in Nat
    <2>1. left[x] \in Nat
      BY <1>1
    <2>2. CASE x = what
      BY <1>1, <2>1, <2>2
    <2>3. CASE x # what
      BY <1>1, <2>1, <2>3
    <2> QED BY <2>2, <2>3
  <1> QED BY <1>1, <1>2

\* A message goes down, or up.
LEMMA ChannelType ==
  ASSUME NEW u \in Seq(BridgeMessage), NEW m \in BridgeMessage
  PROVE  /\ Append(u, m) \in Seq(BridgeMessage)
         /\ \A v \in Seq(BridgeMessage) : u \o v \in Seq(BridgeMessage)
         /\ u # <<>> => Tail(u) \in Seq(BridgeMessage) /\ Head(u) \in BridgeMessage
  OBVIOUS

\* The markers that an accepted Send clears.
Clearing == [i \in DOMAIN rows |-> clearMarker(rows[i])]

\* They are messages, one for each row.
LEMMA ClearingType ==
  ASSUME TypeOK
  PROVE  /\ Clearing \in Seq(BridgeMessage) /\ DOMAIN Clearing = DOMAIN rows
         /\ Len(Clearing) = Len(rows)
         /\ \A i \in DOMAIN rows : Clearing[i] = clearMarker(rows[i])
  <1>1. rows \in Seq(Nat)
    BY DEF TypeOK
  <1>2. Len(rows) \in Nat /\ DOMAIN rows = 1..Len(rows) /\ \A i \in 1..Len(rows) : rows[i] \in Nat
    BY <1>1
  <1>3. \A i \in 1..Len(rows) : clearMarker(rows[i]) \in BridgeMessage
    BY <1>2, Messages
  <1>4. Clearing \in [1..Len(rows) -> BridgeMessage]
    BY <1>2, <1>3 DEF Clearing
  <1>5. Clearing \in Seq(BridgeMessage) /\ Len(Clearing) = Len(rows)
    BY <1>2, <1>4
  <1> QED BY <1>2, <1>5 DEF Clearing

\* What has come is a part of what was captured.
LEMMA ArrivedType ==
  ASSUME TypeOK, Arrivals
  PROVE  arrived \in Nat /\ Len(origin) \in Nat /\ Len(onTheirWay) \in Nat /\ arrived <= Len(origin)
  <1>1. Len(onTheirWay) \in Nat
    <2>1. onTheirWay = Ids(up)
      BY DEF onTheirWay, Ids
    <2> QED BY <2>1, AddsType DEF TypeOK
  <1> QED BY <1>1 DEF TypeOK, Arrivals, arrived

\* A rider is taken.
LEMMA TakenType ==
  ASSUME NEW x \in Submission, NEW text \in Nat, NEW list \in Seq(Nat), NEW d \in Nat,
         NEW c \in Nat, NEW n \in Nat, NEW t \in Nat
  PROVE  [x EXCEPT !.pc = "posting", !.text = text, !.notes = list, !.doc = d,
                   !.shows = c, !.upTo = n, !.textUpTo = t] \in Submission
  <1> DEFINE y == [x EXCEPT !.pc = "posting", !.text = text, !.notes = list, !.doc = d,
                            !.shows = c, !.upTo = n, !.textUpTo = t]
  <1>1. DOMAIN y = DOMAIN x /\ y = [f \in DOMAIN x |-> y[f]]
    OBVIOUS
  <1>2. DOMAIN x = {"kind", "pc", "text", "notes", "doc", "shows", "taken", "undone", "upTo", "textUpTo",
                    "beside"}
    BY DEF Submission
  <1>3. /\ y.kind = x.kind /\ y.pc = "posting" /\ y.text = text /\ y.notes = list /\ y.doc = d
        /\ y.shows = c /\ y.taken = x.taken /\ y.undone = x.undone
        /\ y.upTo = n /\ y.textUpTo = t /\ y.beside = x.beside
    BY <1>2
  <1>4. /\ x.kind \in {"send", "sendEnd"} /\ x.taken \in BOOLEAN /\ x.undone \in BOOLEAN
        /\ x.beside \in SUBSET Nat
    BY DEF Submission
  <1> HIDE DEF y
  <1>5. y \in Submission
    BY <1>1, <1>2, <1>3, <1>4 DEF Submission, Pc
  <1> QED BY <1>5 DEF y

\* When a snapshot comes the submissions stay submissions.
LEMMA RiderType ==
  ASSUME TypeOK, Arrivals, NEW m \in BridgeMessage, m.kind = "snapshot-result", m.doc > 0
  PROVE  LET q == [s \in DOMAIN subs |-> rider(s, m)]
         IN  /\ q \in Seq(Submission)
             /\ \A s \in DOMAIN q : q[s].pc \notin {"snapshot", "failed"} => q[s].doc > 0
  <1>1. /\ arrived \in Nat /\ input \in Nat /\ typed \in Nat /\ rows \in Seq(Nat)
        /\ m.doc \in Nat /\ m.shows \in Nat
    BY ArrivedType, Kinds DEF TypeOK
  <1>2. subs \in Seq(Submission) /\ Len(subs) \in Nat /\ DOMAIN subs = 1..Len(subs)
    BY DEF TypeOK
  <1>3. ASSUME NEW s \in DOMAIN subs
        PROVE  /\ rider(s, m) \in Submission
               /\ rider(s, m).pc \notin {"snapshot", "failed"} => rider(s, m).doc > 0
    <2>1. subs[s] \in Submission
      BY <1>2
    <2>2. CASE subs[s].pc = "snapshot"
      <3>1. rider(s, m) = [subs[s] EXCEPT !.pc = "posting", !.text = input, !.notes = rows, !.doc = m.doc,
                                          !.shows = m.shows, !.upTo = arrived, !.textUpTo = typed]
        BY <2>2 DEF rider
      <3>2. rider(s, m) \in Submission
        <4>1. \A x \in Submission, list \in Seq(Nat), text, d, c, n, t \in Nat :
                 [x EXCEPT !.pc = "posting", !.text = text, !.notes = list, !.doc = d,
                           !.shows = c, !.upTo = n, !.textUpTo = t] \in Submission
          BY TakenType
        <4>2. [subs[s] EXCEPT !.pc = "posting", !.text = input, !.notes = rows, !.doc = m.doc,
                              !.shows = m.shows, !.upTo = arrived, !.textUpTo = typed] \in Submission
          BY <1>1, <2>1, <4>1
        <4> QED BY <3>1, <4>2
      <3>3. rider(s, m).doc = m.doc
        BY <2>1, <3>1 DEF Submission
      <3> QED BY <3>2, <3>3
    <2>3. CASE subs[s].pc # "snapshot"
      BY <2>1, <2>3 DEF rider, TypeOK
    <2> QED BY <2>2, <2>3
  <1>4. [s \in DOMAIN subs |-> rider(s, m)] \in Seq(Submission)
    <2> DEFINE q == [s \in DOMAIN subs |-> rider(s, m)]
    <2>1. q \in [1..Len(subs) -> Submission]
      BY <1>2, <1>3
    <2> HIDE DEF q
    <2> QED BY <1>2, <2>1 DEF q
  <1> QED BY <1>3, <1>4

\* The types, action by action.
LEMMA TypeStep == TypeInv /\ [Next]_vars => TypeOK'
  <1> SUFFICES ASSUME TypeInv, [Next]_vars PROVE TypeOK'
    OBVIOUS
  <1> USE DEF TypeInv, chromeVars, frameVars, session
  <1>1. CASE Type
    <2>1. /\ typed' \in Nat /\ input' \in 0..typed'
          /\ left' \in [DOMAIN left' -> Nat] /\ disabled' \subseteq Buttons
      BY <1>1, SpendType DEF Type, TypeOK, sync, Buttons
    <2> QED BY <1>1, <2>1 DEF Type, TypeOK
  <1>2. CASE Erase
    <2>1. input' \in 0..typed /\ disabled' \subseteq Buttons
      BY <1>2 DEF Erase, TypeOK, sync, Buttons
    <2> QED BY <1>2, <2>1 DEF Erase, TypeOK
  <1>3. CASE Toggle
    <2>1. /\ pressed' \in BOOLEAN /\ left' \in [DOMAIN left' -> Nat]
          /\ down' \in Seq(BridgeMessage)
      BY <1>3, SpendType, Messages, ChannelType DEF Toggle, TypeOK
    <2> QED BY <1>3, <2>1 DEF Toggle, TypeOK
  <1>4. CASE ClickEnd
    <2>1. left' \in [DOMAIN left' -> Nat] /\ disabled' \subseteq Buttons
      BY <1>4, SpendType DEF ClickEnd, TypeOK, Buttons
    <2> QED BY <1>4, <2>1 DEF ClickEnd, TypeOK
  <1>5. CASE Capture
    <2>1. left' \in [DOMAIN left' -> Nat]
      BY <1>5, SpendType DEF Capture
    <2>2. Len(origin) + 1 \in Nat /\ origin' \in Seq(1..doc)
      BY <1>5 DEF Capture, TypeOK
    <2>3. up' \in Seq(BridgeMessage) /\ markers' \in Seq(Nat)
      BY <1>5, <2>2, Messages, ChannelType DEF Capture, TypeOK
    <2> QED BY <1>5, <2>1, <2>2, <2>3 DEF Capture, TypeOK, listening
  <1>6. ASSUME NEW button \in {"send", "sendEnd"}, Click(button) PROVE TypeOK'
    <2> DEFINE new == [kind |-> button, pc |-> "snapshot", text |-> 0, notes |-> <<>>, doc |-> 0,
                       shows |-> 0, taken |-> FALSE, undone |-> FALSE, upTo |-> 0, textUpTo |-> 0,
                       beside |-> inFlight]
    <2>1. left' \in [DOMAIN left' -> Nat] /\ disabled' \subseteq Buttons
      BY <1>6, SpendType DEF Click, TypeOK, Buttons
    <2>2. down' \in Seq(BridgeMessage)
      BY <1>6, Messages, ChannelType DEF Click, TypeOK
    <2>3. subs \in Seq(Submission) /\ Len(subs) \in Nat /\ DOMAIN subs = 1..Len(subs)
      BY DEF TypeOK
    <2>4. new \in Submission
      <3>1. inFlight \in SUBSET Nat
        BY <2>3 DEF inFlight
      <3>2. <<>> \in Seq(Nat)
        BY EmptySeq
      <3> QED BY <3>1, <3>2 DEF Submission, Pc
    <2>5. subs' = Append(subs, new)
      BY <1>6 DEF Click
    <2>6. new.pc = "snapshot"
      OBVIOUS
    <2> HIDE DEF new
    <2>7. subs' \in Seq(Submission)
      BY <2>3, <2>4, <2>5
    <2>8. \A s \in DOMAIN subs' : subs'[s].pc \notin {"snapshot", "failed"} => subs'[s].doc > 0
      <3> SUFFICES ASSUME NEW s \in DOMAIN subs', subs'[s].pc \notin {"snapshot", "failed"}
                   PROVE  subs'[s].doc > 0
        OBVIOUS
      <3>1. s \in DOMAIN subs \/ subs'[s] = new
        BY <2>3, <2>4, <2>5
      <3>2. s \in DOMAIN subs => subs'[s] = subs[s]
        BY <2>3, <2>4, <2>5
      <3> QED BY <2>6, <3>1, <3>2 DEF TypeOK
    <2> QED BY <1>6, <2>1, <2>2, <2>7, <2>8 DEF Click, TypeOK
  <1>7. ASSUME NEW id \in DOMAIN origin, RemoveRow(id) PROVE TypeOK'
    <2>1. id \in Nat
      BY DEF TypeOK
    <2>2. rows' \in Seq(Nat)
      BY <1>7, OnlyType DEF RemoveRow, without, TypeOK
    <2>3. down' \in Seq(BridgeMessage) /\ disabled' \subseteq Buttons
      BY <1>7, <2>1, Messages, ChannelType DEF RemoveRow, TypeOK, sync, Buttons
    <2> QED BY <1>7, <2>2, <2>3 DEF RemoveRow, TypeOK
  <1>8. CASE BreakEnd
    <2>1. left' \in [DOMAIN left' -> Nat] /\ disabled' \subseteq Buttons
      BY <1>8, SpendType DEF BreakEnd, TypeOK
    <2> QED BY <1>8, <2>1 DEF BreakEnd, TypeOK
  <1>9. ASSUME NEW s \in DOMAIN subs, Break(s) \/ SnapshotTimesOut(s) \/ Answer(s) PROVE TypeOK'
    <2>1. PICK pc \in {"done", "failed"} :
            /\ subs' = [subs EXCEPT ![s].pc = pc]
            /\ pc = "done" => subs[s].pc = "ok"
      BY <1>9 DEF Break, SnapshotTimesOut, Answer
    <2>2. subs \in Seq(Submission) /\ subs[s] \in Submission
      BY DEF TypeOK
    <2>3. subs' \in Seq(Submission)
      BY <2>1, <2>2, PcType DEF Pc
    <2>4. \A t \in DOMAIN subs' : subs'[t].pc \notin {"snapshot", "failed"} => subs'[t].doc > 0
      BY <2>1, <2>2 DEF TypeOK, Submission
    <2>5. \/ fail(s) /\ UNCHANGED down
          \/ clear(s)
      BY <1>9 DEF Break, SnapshotTimesOut, Answer
    <2>6. left' \in [DOMAIN left' -> Nat]
      BY <1>9, SpendType DEF Break, SnapshotTimesOut, Answer, TypeOK
    <2>7. /\ disabled' \subseteq Buttons /\ resets' \in Nat /\ down' \in Seq(BridgeMessage)
          /\ input' \in 0..typed /\ rows' \in Seq(Nat) /\ UNCHANGED <<pressed, ended>>
      <3>1. CASE fail(s) /\ UNCHANGED down
        <4>1. subs[s].kind \in Buttons
          BY <2>2 DEF Submission, Buttons
        <4> QED BY <3>1, <4>1 DEF fail, TypeOK
      <3>2. CASE clear(s) /\ subs[s].kind = "send"
        <4>1. <<>> \in Seq(Nat) /\ input' = 0 /\ rows' = <<>> /\ 0 \in 0..typed
          BY <3>2, EmptySeq DEF clear, TypeOK
        <4>2. disabled' \subseteq Buttons
          BY <3>2 DEF clear, TypeOK, sync, Buttons
        <4>3. down' = down \o Clearing
          BY <3>2 DEF clear, Clearing
        <4>4. down' \in Seq(BridgeMessage)
          BY <4>3, ClearingType DEF TypeOK
        <4> QED BY <3>2, <4>1, <4>2, <4>4 DEF clear, TypeOK
      <3>3. CASE clear(s) /\ subs[s].kind # "send"
        BY <3>3 DEF clear, TypeOK
      <3> QED BY <2>5, <3>1, <3>2, <3>3
    <2>8. UNCHANGED <<ending, session, up, typed, frameVars>>
      BY <1>9 DEF Break, SnapshotTimesOut, Answer
    <2> QED BY <2>3, <2>4, <2>6, <2>7, <2>8 DEF TypeOK
  <1>10. ASSUME NEW s \in DOMAIN subs, Arrive(s) \/ LandSend(s) \/ LandSendEnd(s) PROVE TypeOK'
    <2>1. subs \in Seq(Submission) /\ subs[s] \in Submission /\ subs[s].pc \in {"posting", "received"}
      BY <1>10 DEF TypeOK, Arrive, LandSend, LandSendEnd
    <2>2. PICK pc \in {"received", "ok", "refused"}, taken \in BOOLEAN :
            \/ subs' = [subs EXCEPT ![s].pc = pc]
            \/ subs' = [subs EXCEPT ![s].pc = pc, ![s].taken = taken]
      BY <1>10 DEF Arrive, LandSend, LandSendEnd, valid, isValid
    <2>3. subs' \in Seq(Submission)
      <3>1. pc \in Pc
        BY DEF Pc
      <3>2. /\ [subs EXCEPT ![s].pc = pc] \in Seq(Submission)
            /\ [subs EXCEPT ![s].pc = pc, ![s].taken = taken] \in Seq(Submission)
        BY <2>1, <3>1, PcType
      <3> QED BY <2>2, <3>2
    <2>4. \A t \in DOMAIN subs' : subs'[t].pc \notin {"snapshot", "failed"} => subs'[t].doc > 0
      <3>1. DOMAIN subs' = DOMAIN subs /\ \A t \in DOMAIN subs : t # s => subs'[t] = subs[t]
        BY <2>2
      <3>2. subs'[s].doc = subs[s].doc
        BY <2>1, <2>2 DEF Submission
      <3>3. subs[s].doc > 0
        BY <2>1 DEF TypeOK
      <3> QED BY <3>1, <3>2, <3>3 DEF TypeOK
    <2>5. over' \in BOOLEAN
      BY <1>10 DEF Arrive, LandSend, LandSendEnd, valid, isValid, TypeOK
    <2>6. left' \in [DOMAIN left' -> Nat]
      BY <1>10, SpendType DEF Arrive, LandSend, LandSendEnd, TypeOK
    <2>7. UNCHANGED <<ending, late, down, up, typed, chromeVars, frameVars>>
      BY <1>10 DEF Arrive, LandSend, LandSendEnd
    <2> QED BY <2>3, <2>4, <2>5, <2>6, <2>7 DEF TypeOK
  <1>11. CASE FrameReceives
    <2>1. Head(down) \in BridgeMessage /\ down' \in Seq(BridgeMessage)
      BY <1>11, ChannelType DEF FrameReceives, TypeOK
    <2>2. modeAfter(Head(down)) \in BOOLEAN
      BY <2>1, Kinds DEF modeAfter, TypeOK
    <2>3. markersAfter(Head(down)) \in Seq(Nat)
      BY OnlyType DEF markersAfter, without, TypeOK
    <2>4. answer(Head(down)) \in Seq(BridgeMessage)
      <3>1. [kind |-> "snapshot-result", doc |-> doc, shows |-> Len(origin)] \in BridgeMessage
        <4>1. doc \in Nat /\ Len(origin) \in Nat
          BY DEF TypeOK
        <4> QED BY <4>1, Messages
      <3> HIDE DEF TypeInv
      <3> QED BY <3>1, EmptySeq DEF answer
    <2>5. up' \in Seq(BridgeMessage) /\ markers' \in Seq(Nat) /\ capturing' \in BOOLEAN
      <3>1. up \in Seq(BridgeMessage) /\ markers \in Seq(Nat) /\ capturing \in BOOLEAN
        BY DEF TypeOK
      <3>2. up \o answer(Head(down)) \in Seq(BridgeMessage)
        BY <2>4, <3>1, ChannelType
      <3> QED BY <1>11, <2>2, <2>3, <3>1, <3>2 DEF FrameReceives
    <2>6. phase' \in {"booting", "bare"} => markers' = <<>> /\ ~capturing'
      BY <1>11 DEF FrameReceives, TypeOK, listening
    <2> QED BY <1>11, <2>1, <2>5, <2>6 DEF FrameReceives, TypeOK
  <1>12. CASE Commit
    <2>1. doc' \in Nat \ {0} /\ phase' \in Phase /\ origin \in Seq(1..doc') /\ <<>> \in Seq(Nat)
      <3>1. doc' \in Nat \ {0} /\ phase' \in Phase /\ 1..doc \subseteq 1..doc'
        BY <1>12 DEF Commit, TypeOK, Phase
      <3>2. origin \in Seq(1..doc)
        BY DEF TypeOK
      <3> QED BY <3>1, <3>2, SeqMonotonic, EmptySeq
    <2>2. down' \in Seq(BridgeMessage)
      BY <1>12, EmptySeq DEF Commit
    <2> QED BY <1>12, <2>1, <2>2 DEF Commit, TypeOK
  <1>13. CASE SdkRuns
    BY <1>13 DEF SdkRuns, TypeOK, Phase
  <1>14. CASE Load
    <2>1. down' \in Seq(BridgeMessage)
      BY <1>14, Messages, ChannelType DEF Load, TypeOK
    <2> QED BY <1>14, <2>1 DEF Load, TypeOK, Phase
  <1>15. ASSUME NEW to \in {"artifact", "bare"}, Leave(to) PROVE TypeOK'
    <2>1. left' \in [DOMAIN left' -> Nat]
      BY <1>15, SpendType DEF Leave
    <2> QED BY <1>15, <2>1 DEF Leave, TypeOK
  <1>16. CASE ChromeReceives
    <2>1. Head(up) \in BridgeMessage /\ up' \in Seq(BridgeMessage)
      BY <1>16, ChannelType DEF ChromeReceives, TypeOK
    <2>2. CASE ReceiveNote(Head(up))
      <3>1. Head(up).id \in Nat
        BY <2>1, <2>2, Kinds DEF ReceiveNote
      <3>2. rows' \in Seq(Nat) /\ disabled' \subseteq Buttons
        BY <2>2, <3>1 DEF ReceiveNote, TypeOK, sync, Buttons
      <3> QED BY <1>16, <2>1, <2>2, <3>2 DEF ChromeReceives, ReceiveNote, TypeOK
    <2>3. CASE ReceiveSnapshot(Head(up))
      <3>1. Head(up).kind = "snapshot-result" /\ Head(up).doc > 0
        BY <1>16, <2>3 DEF ReceiveSnapshot, ChromeReceives, Results, TypeOK
      <3>2. /\ subs' \in Seq(Submission)
            /\ \A s \in DOMAIN subs' : subs'[s].pc \notin {"snapshot", "failed"} => subs'[s].doc > 0
        BY <2>1, <2>3, <3>1, RiderType DEF ReceiveSnapshot
      <3> QED BY <1>16, <2>1, <2>3, <3>2 DEF ChromeReceives, ReceiveSnapshot, TypeOK
    <2> QED BY <1>16, <2>2, <2>3 DEF ChromeReceives
  <1>17. CASE ResetFires
    <2>1. resets' \in Nat /\ disabled' \subseteq Buttons
      BY <1>17 DEF ResetFires, TypeOK, sync, Buttons
    <2> QED BY <1>17, <2>1 DEF ResetFires, TypeOK
  <1>18. CASE HandleEnd
    BY <1>18 DEF HandleEnd, TypeOK
  <1>19. CASE AgentEnds
    <2>1. left' \in [DOMAIN left' -> Nat]
      BY <1>19, SpendType DEF AgentEnds
    <2> QED BY <1>19, <2>1 DEF AgentEnds, TypeOK
  <1>20. CASE applyEnded
    BY <1>20 DEF applyEnded, TypeOK
  <1>22. CASE Reopens
    <2>1. subs \in Seq(Submission) /\ Len(subs) \in Nat /\ DOMAIN subs = 1..Len(subs)
      BY DEF TypeOK
    <2>2. left' \in [DOMAIN left' -> Nat]
      BY <1>22, SpendType DEF Reopens
    <2>3. ASSUME NEW s \in DOMAIN subs
          PROVE  /\ subs'[s] \in Submission
                 /\ subs'[s].pc = subs[s].pc /\ subs'[s].doc = subs[s].doc
      <3>1. subs[s] \in Submission
        BY <2>1
      <3>2. PICK u \in BOOLEAN : subs'[s] = [subs[s] EXCEPT !.undone = u]
        BY <1>22, <3>1 DEF Reopens, Submission
      <3> QED BY <3>1, <3>2 DEF Submission
    <2>4. DOMAIN subs' = DOMAIN subs /\ subs' = [s \in DOMAIN subs |-> subs'[s]]
      BY <1>22 DEF Reopens
    <2>5. subs' \in [1..Len(subs) -> Submission]
      BY <2>1, <2>3, <2>4
    <2>6. subs' \in Seq(Submission)
      BY <2>1, <2>5
    <2>7. \A s \in DOMAIN subs' : subs'[s].pc \notin {"snapshot", "failed"} => subs'[s].doc > 0
      BY <2>3, <2>4 DEF TypeOK
    <2>8. over' \in BOOLEAN /\ late' \in BOOLEAN /\ (late' => ~ended)
      BY <1>22 DEF Reopens, TypeOK
    <2> QED BY <1>22, <2>2, <2>6, <2>7, <2>8 DEF Reopens, TypeOK
  <1>21. CASE UNCHANGED vars
    BY <1>21 DEF vars, TypeOK
  <1> QED BY <1>1, <1>2, <1>3, <1>4, <1>5, <1>6, <1>7, <1>8, <1>9, <1>10, <1>11, <1>12, <1>13,
             <1>14, <1>15, <1>16, <1>17, <1>18, <1>19, <1>20, <1>21, <1>22
          DEF Next, Human, Faults, Progress

------------------------------------------------------------------------------
(***************************************************************************)
(* The steps that concern the iframe, the Bridge and the rows; the others  *)
(* leave them all alone.                                                   *)
(***************************************************************************)
bridge == <<rows, pressed, doc, phase, markers, capturing, down, up, origin>>

Accepted(s) == subs[s].kind = "send" /\ subs[s].pc = "ok" /\ Answer(s)

LEMMA Quiet ==
  ASSUME [Next]_vars
  PROVE  \/ UNCHANGED bridge
         \/ \E id \in DOMAIN origin : RemoveRow(id)
         \/ Toggle \/ \E button \in {"send", "sendEnd"} : Click(button)
         \/ Capture \/ FrameReceives \/ Commit \/ SdkRuns \/ Load \/ ChromeReceives
         \/ \E s \in DOMAIN subs : Accepted(s)
  <1> USE DEF chromeVars, frameVars, bridge
  <1>1. CASE Type \/ Erase \/ ClickEnd
    BY <1>1 DEF Type, Erase, ClickEnd
  <1>2. CASE BreakEnd \/ ResetFires \/ HandleEnd \/ AgentEnds \/ Reopens \/ applyEnded
    BY <1>2 DEF BreakEnd, ResetFires, HandleEnd, AgentEnds, Reopens, applyEnded
  <1>3. CASE \E to \in {"artifact", "bare"} : Leave(to)
    BY <1>3 DEF Leave
  <1>4. CASE \E s \in DOMAIN subs :
               Break(s) \/ SnapshotTimesOut(s) \/ Arrive(s) \/ LandSend(s) \/ LandSendEnd(s)
    BY <1>4 DEF Break, SnapshotTimesOut, Arrive, LandSend, LandSendEnd, fail
  <1>5. CASE \E s \in DOMAIN subs : Answer(s)
    <2>1. PICK s \in DOMAIN subs : Answer(s)
      BY <1>5
    <2>2. CASE subs[s].pc = "ok" /\ subs[s].kind = "send"
      BY <2>1, <2>2 DEF Accepted
    <2>3. CASE subs[s].pc = "ok" /\ subs[s].kind # "send"
      BY <2>1, <2>3 DEF Answer, clear
    <2>4. CASE subs[s].pc # "ok"
      BY <2>1, <2>4 DEF Answer, fail
    <2> QED BY <2>2, <2>3, <2>4
  <1>6. CASE UNCHANGED vars
    BY <1>6 DEF vars
  <1> QED BY <1>1, <1>2, <1>3, <1>4, <1>5, <1>6 DEF Next, Human, Faults, Progress

\* What an accepted Send does to them.
LEMMA AcceptedClears ==
  ASSUME NEW s \in DOMAIN subs, Accepted(s)
  PROVE  /\ rows' = <<>> /\ input' = 0
         /\ down' = down \o Clearing
         /\ UNCHANGED <<pressed, doc, phase, markers, capturing, up, origin, typed>>
  BY DEF Accepted, Answer, clear, Clearing, frameVars

\* What a message that has come does to them.
LEMMA Received ==
  ASSUME TypeOK, ChromeReceives
  PROVE  /\ up # <<>> /\ up' = Tail(up) /\ Head(up) \in BridgeMessage
         /\ UNCHANGED <<pressed, doc, phase, markers, capturing, down, origin, input, typed, session>>
         /\ \/ Head(up).kind = "annotation-added" /\ rows' = Append(rows, Head(up).id) /\ UNCHANGED subs
            \/ /\ Head(up).kind = "snapshot-result" /\ UNCHANGED rows
               /\ subs' = [s \in DOMAIN subs |-> rider(s, Head(up))]
  <1>1. Head(up) \in BridgeMessage
    BY ChannelType DEF TypeOK, ChromeReceives
  <1> QED BY <1>1 DEF ChromeReceives, ReceiveNote, ReceiveSnapshot, chromeVars, frameVars

\* The elements of a longer sequence.
LEMMA AppendRange ==
  ASSUME NEW A, NEW s \in Seq(A), NEW e \in A
  PROVE  Range(Append(s, e)) = Range(s) \union {e}
  <1>1. DOMAIN Append(s, e) = 1..Len(s) + 1 /\ DOMAIN s = 1..Len(s) /\ Len(s) \in Nat
    OBVIOUS
  <1>2. \A i \in 1..Len(s) : Append(s, e)[i] = s[i]
    OBVIOUS
  <1>3. Append(s, e)[Len(s) + 1] = e
    OBVIOUS
  <1>4. \A i \in 1..Len(s) + 1 : i \in 1..Len(s) \/ i = Len(s) + 1
    BY <1>1
  <1> QED BY <1>1, <1>2, <1>3, <1>4 DEF Range

\* A row is a number.
LEMMA RowsRange ==
  ASSUME TypeOK
  PROVE  Range(rows) \subseteq Nat
  BY DEF TypeOK, Range

\* What it is to be under way to a removal.
LEMMA RemovingIs ==
  \A d, x : x \in Removing(d) <=> \E i \in DOMAIN d : d[i].kind = "annotation-removed" /\ x = d[i].id
  BY DEF Removing

\* A message sent down adds its removal, if it is one,
LEMMA RemovingAppend ==
  ASSUME NEW d \in Seq(BridgeMessage), NEW m \in BridgeMessage
  PROVE  Removing(Append(d, m)) = Removing(d) \union (IF m.kind = "annotation-removed" THEN {m.id} ELSE {})
  <1> DEFINE e == Append(d, m)
  <1>1. DOMAIN e = 1..Len(d) + 1 /\ DOMAIN d = 1..Len(d) /\ Len(d) \in Nat
    OBVIOUS
  <1>2. \A i \in 1..Len(d) : e[i] = d[i]
    OBVIOUS
  <1>3. e[Len(d) + 1] = m
    OBVIOUS
  <1>4. \A i \in 1..Len(d) + 1 : i \in 1..Len(d) \/ i = Len(d) + 1
    BY <1>1
  <1> HIDE DEF e
  <1>5. \A x : x \in Removing(e) <=> x \in Removing(d) \/ (m.kind = "annotation-removed" /\ x = m.id)
    <2>1. \A x : x \in Removing(e) <=> \E i \in 1..Len(d) + 1 : e[i].kind = "annotation-removed" /\ x = e[i].id
      BY <1>1, RemovingIs
    <2>2. \A x : x \in Removing(d) <=> \E i \in 1..Len(d) : d[i].kind = "annotation-removed" /\ x = d[i].id
      BY <1>1, RemovingIs
    <2>3. 1..Len(d) \subseteq 1..Len(d) + 1 /\ Len(d) + 1 \in 1..Len(d) + 1
      BY <1>1
    <2>4. ASSUME NEW x, x \in Removing(e)
          PROVE  x \in Removing(d) \/ (m.kind = "annotation-removed" /\ x = m.id)
      <3>1. PICK i \in 1..Len(d) + 1 : e[i].kind = "annotation-removed" /\ x = e[i].id
        BY <2>1, <2>4
      <3>2. CASE i \in 1..Len(d)
        BY <1>2, <2>2, <3>1, <3>2
      <3>3. CASE i = Len(d) + 1
        BY <1>3, <3>1, <3>3
      <3> QED BY <1>4, <3>2, <3>3
    <2>5. ASSUME NEW x, x \in Removing(d) PROVE x \in Removing(e)
      <3>1. PICK i \in 1..Len(d) : d[i].kind = "annotation-removed" /\ x = d[i].id
        BY <2>2, <2>5
      <3> QED BY <1>2, <2>1, <2>3, <3>1
    <2>6. m.kind = "annotation-removed" => m.id \in Removing(e)
      BY <1>3, <2>1, <2>3
    <2> QED BY <2>4, <2>5, <2>6
  <1> QED BY <1>5 DEF e

\* the one that is taken is no longer under way,
LEMMA RemovingHead ==
  ASSUME NEW d \in Seq(BridgeMessage), d # <<>>
  PROVE  Removing(d) = Removing(Tail(d))
                        \union (IF Head(d).kind = "annotation-removed" THEN {Head(d).id} ELSE {})
  <1> DEFINE m == Head(d)
             e == Tail(d)
  <1>1. Len(d) \in Nat \ {0} /\ DOMAIN e = 1..Len(d) - 1 /\ DOMAIN d = 1..Len(d)
    OBVIOUS
  <1>2. \A i \in 1..Len(d) - 1 : e[i] = d[i + 1] /\ i + 1 \in 1..Len(d)
    OBVIOUS
  <1>3. d[1] = m /\ 1 \in 1..Len(d)
    BY <1>1
  <1>4. \A i \in 1..Len(d) : i = 1 \/ \E j \in 1..Len(d) - 1 : i = j + 1
    <2> SUFFICES ASSUME NEW i \in 1..Len(d), i # 1 PROVE \E j \in 1..Len(d) - 1 : i = j + 1
      OBVIOUS
    <2>1. i - 1 \in 1..Len(d) - 1 /\ i = (i - 1) + 1
      BY <1>1
    <2> QED BY <2>1
  <1> HIDE DEF e, m
  <1>5. \A x : x \in Removing(d) <=> x \in Removing(e) \/ (m.kind = "annotation-removed" /\ x = m.id)
    <2>1. \A x : x \in Removing(e) <=> \E i \in 1..Len(d) - 1 : e[i].kind = "annotation-removed" /\ x = e[i].id
      BY <1>1, RemovingIs
    <2>2. \A x : x \in Removing(d) <=> \E i \in 1..Len(d) : d[i].kind = "annotation-removed" /\ x = d[i].id
      BY <1>1, RemovingIs
    <2>3. ASSUME NEW x, x \in Removing(d)
          PROVE  x \in Removing(e) \/ (m.kind = "annotation-removed" /\ x = m.id)
      <3>1. PICK i \in 1..Len(d) : d[i].kind = "annotation-removed" /\ x = d[i].id
        BY <2>2, <2>3
      <3>2. CASE i = 1
        BY <1>3, <3>1, <3>2
      <3>3. CASE i # 1
        <4>1. PICK j \in 1..Len(d) - 1 : i = j + 1
          BY <1>4, <3>3
        <4> QED BY <1>2, <2>1, <3>1, <4>1
      <3> QED BY <3>2, <3>3
    <2>4. ASSUME NEW x, x \in Removing(e) PROVE x \in Removing(d)
      <3>1. PICK i \in 1..Len(d) - 1 : e[i].kind = "annotation-removed" /\ x = e[i].id
        BY <2>1, <2>4
      <3> QED BY <1>2, <2>2, <3>1
    <2>5. m.kind = "annotation-removed" => m.id \in Removing(d)
      BY <1>3, <2>2
    <2> QED BY <2>3, <2>4, <2>5
  <1> QED BY <1>5 DEF e, m

\* and an accepted Send removes every row.
LEMMA RemovingClearing ==
  ASSUME TypeOK, NEW d \in Seq(BridgeMessage)
  PROVE  Removing(d \o Clearing) = Removing(d) \union Range(rows)
  <1> DEFINE c == Clearing
             e == d \o c
  <1>1. /\ c \in Seq(BridgeMessage) /\ DOMAIN c = DOMAIN rows
        /\ \A i \in DOMAIN rows : c[i].kind = "annotation-removed" /\ c[i].id = rows[i]
    BY ClearingType DEF clearMarker
  <1> HIDE DEF c
  <1>2. /\ Len(d) \in Nat /\ Len(c) \in Nat /\ DOMAIN d = 1..Len(d) /\ DOMAIN c = 1..Len(c)
        /\ DOMAIN e = 1..Len(d) + Len(c)
    BY <1>1
  <1>3. \A i \in 1..Len(d) : e[i] = d[i]
    BY <1>1
  <1>4. \A i \in 1..Len(c) : e[Len(d) + i] = c[i] /\ Len(d) + i \in 1..Len(d) + Len(c)
    BY <1>1
  <1>5. \A i \in 1..Len(d) + Len(c) : i \in 1..Len(d) \/ \E j \in 1..Len(c) : i = Len(d) + j
    <2> SUFFICES ASSUME NEW i \in 1..Len(d) + Len(c), i \notin 1..Len(d)
                 PROVE  \E j \in 1..Len(c) : i = Len(d) + j
      OBVIOUS
    <2>1. i - Len(d) \in 1..Len(c) /\ i = Len(d) + (i - Len(d))
      BY <1>2
    <2> QED BY <2>1
  <1>6. \A i \in 1..Len(d) : i \in 1..Len(d) + Len(c)
    BY <1>2
  <1> HIDE DEF e
  <1>7. \A x : x \in Removing(e) <=> x \in Removing(d) \/ \E i \in DOMAIN rows : x = rows[i]
    <2>1. \A x : x \in Removing(e) <=> \E i \in 1..Len(d) + Len(c) : e[i].kind = "annotation-removed" /\ x = e[i].id
      BY <1>2, RemovingIs
    <2>2. \A x : x \in Removing(d) <=> \E i \in 1..Len(d) : d[i].kind = "annotation-removed" /\ x = d[i].id
      BY <1>2, RemovingIs
    <2>3. ASSUME NEW x, x \in Removing(e)
          PROVE  x \in Removing(d) \/ \E i \in DOMAIN rows : x = rows[i]
      <3>1. PICK i \in 1..Len(d) + Len(c) : e[i].kind = "annotation-removed" /\ x = e[i].id
        BY <2>1, <2>3
      <3>2. CASE i \in 1..Len(d)
        BY <1>3, <2>2, <3>1, <3>2
      <3>3. CASE \E j \in 1..Len(c) : i = Len(d) + j
        <4>1. PICK j \in 1..Len(c) : i = Len(d) + j
          BY <3>3
        <4> QED BY <1>1, <1>2, <1>4, <3>1, <4>1
      <3> QED BY <1>5, <3>2, <3>3
    <2>4. ASSUME NEW x, x \in Removing(d) PROVE x \in Removing(e)
      <3>1. PICK i \in 1..Len(d) : d[i].kind = "annotation-removed" /\ x = d[i].id
        BY <2>2, <2>4
      <3> QED BY <1>3, <1>6, <2>1, <3>1
    <2>5. ASSUME NEW i \in DOMAIN rows PROVE rows[i] \in Removing(e)
      <3>1. i \in 1..Len(c) /\ c[i].kind = "annotation-removed" /\ c[i].id = rows[i]
        BY <1>1, <1>2
      <3>2. e[Len(d) + i] = c[i] /\ Len(d) + i \in 1..Len(d) + Len(c)
        BY <1>4, <3>1
      <3> QED BY <2>1, <3>1, <3>2
    <2> QED BY <2>3, <2>4, <2>5
  <1> QED BY <1>7 DEF Range, e, c

------------------------------------------------------------------------------
(***************************************************************************)
(* The annotations come in order.                                          *)
(***************************************************************************)
LEMMA OnTheirWay == onTheirWay = Ids(up) /\ onTheirWay' = Ids(up')
  BY DEF onTheirWay, Ids

\* A message that is not an annotation may come or go.
LEMMA SameArrivals ==
  ASSUME TypeInv, Ids(up') = Ids(up), origin' = origin,
         \A id \in Range(rows') : id \in Range(rows),
         \A id \in Removing(down') : id \in DOMAIN origin
  PROVE  Arrivals' /\ arrived' = arrived
  <1>1. onTheirWay' = onTheirWay
    BY OnTheirWay
  <1>2. arrived' = arrived
    BY <1>1 DEF arrived
  <1> QED BY <1>1, <1>2 DEF TypeInv, Arrivals

\* A message that is no annotation goes down.
LEMMA OtherDown ==
  ASSUME TypeOK, [Next]_vars,
         \/ Toggle \/ Load \/ \E button \in {"send", "sendEnd"} : Click(button)
  PROVE  /\ Removing(down') = Removing(down)
         /\ UNCHANGED <<rows, markers, up, origin, doc>>
         /\ phase' = phase \/ (phase = "running" /\ phase' = "ready")
  <1>1. PICK m \in BridgeMessage : down' = Append(down, m) /\ m.kind # "annotation-removed"
    <2>1. CASE Toggle
      <3>1. [kind |-> "set-mode", mode |-> ~pressed] \in BridgeMessage
        BY Messages DEF TypeOK
      <3> QED BY <2>1, <3>1 DEF Toggle
    <2>2. CASE Load
      <3>1. [kind |-> "set-mode", mode |-> pressed] \in BridgeMessage
        BY Messages DEF TypeOK
      <3> QED BY <2>2, <3>1 DEF Load
    <2>3. CASE \E button \in {"send", "sendEnd"} : Click(button)
      <3>1. [kind |-> "snapshot-request"] \in BridgeMessage
        BY Messages
      <3> QED BY <2>3, <3>1 DEF Click
    <2> QED BY <2>1, <2>2, <2>3
  <1>2. Removing(down') = Removing(down)
    BY <1>1, RemovingAppend DEF TypeOK
  <1> QED BY <1>2 DEF Toggle, Load, Click, frameVars, chromeVars

\* The frame takes a message and answers it.
LEMMA FrameAnswers ==
  ASSUME TypeOK, FrameReceives
  PROVE  /\ Ids(up') = Ids(up) /\ UNCHANGED <<rows, origin, doc, phase, pressed>>
         /\ \/ up' = up
            \/ /\ listening
               /\ up' = Append(up, [kind |-> "snapshot-result", doc |-> doc, shows |-> Len(origin)])
  <1> DEFINE m == [kind |-> "snapshot-result", doc |-> doc, shows |-> Len(origin)]
  <1>1. m \in BridgeMessage /\ up \in Seq(BridgeMessage)
    <2>1. doc \in Nat /\ Len(origin) \in Nat /\ up \in Seq(BridgeMessage)
      BY DEF TypeOK
    <2> QED BY <2>1, Messages
  <1>2. up' = up \/ (listening /\ up' = Append(up, m))
    <2>1. up \o <<m>> = Append(up, m) /\ up \o <<>> = up
      <3> HIDE DEF m
      <3> QED BY <1>1
    <2>2. listening => up' = up \o answer(Head(down))
      BY DEF FrameReceives
    <2>3. ~ listening => up' = up
      BY DEF FrameReceives
    <2>4. answer(Head(down)) = <<m>> \/ answer(Head(down)) = <<>>
      BY DEF answer
    <2> QED BY <2>1, <2>2, <2>3, <2>4
  <1>3. Ids(Append(up, m)) = Ids(up)
    <2>1. m.kind # "annotation-added"
      OBVIOUS
    <2> HIDE DEF m
    <2> QED BY <1>1, <2>1, IdsAppend
  <1> QED BY <1>2, <1>3 DEF FrameReceives, chromeVars

\* A new annotation is the last of all, and no removal under way is of it.
LEMMA Captured ==
  ASSUME TypeInv, Capture
  PROVE  LET id == Len(origin) + 1
         IN  /\ listening /\ id \in Nat
             /\ markers' = Append(markers, id) /\ onTheirWay' = Append(onTheirWay, id)
             /\ onTheirWay \in Seq(Nat)
             /\ origin' = Append(origin, doc) /\ DOMAIN origin' = DOMAIN origin \union {id}
             /\ \A k \in DOMAIN origin : origin'[k] = origin[k] /\ k < id
             /\ origin'[id] = doc
             /\ up' = Append(up, [kind |-> "annotation-added", id |-> id])
             /\ UNCHANGED <<rows, down, doc, phase, capturing, pressed>>
  <1> DEFINE id == Len(origin) + 1
             m == [kind |-> "annotation-added", id |-> id]
  <1>1. /\ origin \in Seq(1..doc) /\ doc \in 1..doc /\ Len(origin) \in Nat
        /\ DOMAIN origin = 1..Len(origin) /\ id \in Nat
    BY DEF TypeInv, TypeOK
  <1>2. m \in BridgeMessage
    BY <1>1, Messages
  <1>3. /\ listening /\ markers' = Append(markers, id) /\ up' = Append(up, m)
        /\ origin' = Append(origin, doc)
        /\ UNCHANGED <<rows, down, doc, phase, capturing, pressed>>
    BY DEF Capture, chromeVars
  <1>4. m.kind = "annotation-added" /\ m.id = id
    OBVIOUS
  <1>5. onTheirWay' = Append(onTheirWay, id) /\ onTheirWay \in Seq(Nat)
    <2>1. up \in Seq(BridgeMessage)
      BY DEF TypeInv, TypeOK
    <2> HIDE DEF m, id
    <2>2. Ids(up') = Append(Ids(up), id)
      BY <1>2, <1>3, <1>4, <2>1, IdsAppend
    <2> QED BY <2>1, <2>2, OnTheirWay, AddsType
  <1>6. DOMAIN origin' = 1..Len(origin) + 1
    BY <1>1, <1>3
  <1>7. DOMAIN origin' = DOMAIN origin \union {id}
    BY <1>1, <1>6
  <1>8. /\ \A k \in DOMAIN origin : origin'[k] = origin[k] /\ k < id
        /\ origin'[id] = doc
    BY <1>1, <1>3
  <1> QED BY <1>1, <1>3, <1>5, <1>7, <1>8

\* An annotation that comes is the next one.
LEMMA NoteArrives ==
  ASSUME TypeInv, ChromeReceives, Head(up).kind = "annotation-added"
  PROVE  LET id == arrived + 1
         IN  /\ rows' = Append(rows, id) /\ id \in Nat /\ id = Head(up).id
             /\ onTheirWay = <<id>> \o onTheirWay' /\ onTheirWay' \in Seq(Nat)
             /\ arrived' = id /\ id \in DOMAIN origin
  <1> DEFINE id == Head(up).id
  <1>1. up \in Seq(BridgeMessage) /\ up # <<>> /\ up' = Tail(up) /\ up' \in Seq(BridgeMessage)
    BY Received, ChannelType DEF TypeInv, TypeOK
  <1>2. rows' = Append(rows, id) /\ origin' = origin /\ id \in Nat
    BY Received, Kinds DEF TypeInv
  <1>3. Ids(up) = <<id>> \o Ids(up')
    BY <1>1, IdsHead
  <1>4. onTheirWay = <<id>> \o onTheirWay'
    BY <1>3, OnTheirWay
  <1>5. onTheirWay \in Seq(Nat) /\ onTheirWay' \in Seq(Nat)
    BY <1>1, OnTheirWay, AddsType
  <1>6. Len(onTheirWay) = Len(onTheirWay') + 1 /\ onTheirWay[1] = id /\ 1 \in 1..Len(onTheirWay)
    BY <1>2, <1>4, <1>5
  <1>7. id = arrived + 1
    BY <1>6 DEF TypeInv, Arrivals
  <1>8. Len(origin) \in Nat /\ DOMAIN origin = 1..Len(origin) /\ Len(onTheirWay') \in Nat
    BY <1>5 DEF TypeInv, TypeOK
  <1>9. arrived' = Len(origin) - Len(onTheirWay') /\ arrived = Len(origin) - Len(onTheirWay)
    BY <1>2 DEF arrived
  <1>10. Len(onTheirWay) <= Len(origin)
    BY DEF TypeInv, Arrivals
  <1>11. arrived' = arrived + 1 /\ arrived + 1 \in 1..Len(origin)
    BY <1>6, <1>8, <1>9, <1>10
  <1> QED BY <1>2, <1>4, <1>5, <1>7, <1>8, <1>11

\* They come in order, action by action.
LEMMA ArrivalsStep == TypeInv /\ [Next]_vars => Arrivals'
  <1> SUFFICES ASSUME TypeInv, [Next]_vars PROVE Arrivals'
    OBVIOUS
  <1> USE DEF TypeInv
  <1>0. /\ Len(onTheirWay) <= Len(origin)
        /\ \A i \in 1..Len(onTheirWay) : onTheirWay[i] = arrived + i
        /\ \A id \in Range(rows) : id \in 1..arrived
        /\ \A id \in Removing(down) : id \in DOMAIN origin
        /\ Len(origin) \in Nat /\ DOMAIN origin = 1..Len(origin) /\ Len(onTheirWay) \in Nat
        /\ arrived \in Nat /\ arrived <= Len(origin) /\ arrived = Len(origin) - Len(onTheirWay)
    BY ArrivedType DEF Arrivals, TypeOK, arrived
  <1>1. CASE UNCHANGED bridge
    BY <1>0, <1>1, SameArrivals DEF bridge
  <1>2. ASSUME NEW id \in DOMAIN origin, RemoveRow(id) PROVE Arrivals'
    <2>1. rows' = Only(rows, Nat \ {id}) /\ UNCHANGED <<up, origin>> /\ down' = Append(down, clearMarker(id))
      BY <1>2 DEF RemoveRow, without, frameVars
    <2>2. \A k \in Range(rows') : k \in Range(rows)
      BY <2>1, OnlyRange DEF TypeOK
    <2>3. Removing(down') = Removing(down) \union {id}
      <3>1. clearMarker(id) \in BridgeMessage
        BY <1>0, Messages
      <3>2. clearMarker(id).kind = "annotation-removed" /\ clearMarker(id).id = id
        BY DEF clearMarker
      <3> QED BY <2>1, <3>1, <3>2, RemovingAppend DEF TypeOK
    <2> QED BY <1>0, <2>1, <2>2, <2>3, SameArrivals
  <1>3. CASE Toggle \/ Load \/ \E button \in {"send", "sendEnd"} : Click(button)
    BY <1>0, <1>3, OtherDown, SameArrivals
  <1>4. CASE Capture
    <2> DEFINE id == Len(origin) + 1
               w == onTheirWay
    <2>1. /\ onTheirWay' = Append(w, id) /\ origin' = Append(origin, doc) /\ w \in Seq(Nat)
          /\ rows' = rows /\ down' = down /\ id \in Nat
          /\ DOMAIN origin' = DOMAIN origin \union {id}
      BY <1>4, Captured
    <2>2. Len(onTheirWay') = Len(w) + 1 /\ Len(origin') = Len(origin) + 1
      BY <2>1 DEF TypeOK
    <2>3. arrived' = arrived
      BY <1>0, <2>2 DEF arrived
    <2>4. \A i \in 1..Len(w) + 1 : Append(w, id)[i] = arrived + i
      <3> HIDE DEF w, id
      <3>1. \A i \in 1..Len(w) : Append(w, id)[i] = w[i]
        BY <2>1
      <3>2. Append(w, id)[Len(w) + 1] = id /\ id = arrived + (Len(w) + 1)
        BY <1>0, <2>1 DEF w, id
      <3>3. \A i \in 1..Len(w) : w[i] = arrived + i
        BY <1>0 DEF w
      <3>4. Len(w) \in Nat
        BY <2>1
      <3> QED BY <3>1, <3>2, <3>3, <3>4
    <2> QED BY <1>0, <2>1, <2>2, <2>3, <2>4 DEF Arrivals
  <1>5. CASE FrameReceives
    <2>1. \A id \in Removing(down') : id \in Removing(down)
      BY <1>5, RemovingHead DEF FrameReceives, TypeOK
    <2> QED BY <1>0, <1>5, <2>1, FrameAnswers, SameArrivals
  <1>6. CASE Commit
    <2>1. \A id : id \notin Removing(down')
      BY <1>6, RemovingIs DEF Commit
    <2> QED BY <1>0, <1>6, <2>1, SameArrivals DEF Commit, chromeVars
  <1>7. CASE SdkRuns
    BY <1>0, <1>7, SameArrivals DEF SdkRuns, chromeVars
  <1>8. CASE ChromeReceives
    <2>1. origin' = origin /\ down' = down
      BY <1>8, Received
    <2>2. CASE Head(up).kind = "annotation-added"
      <3> DEFINE id == arrived + 1
                 w == onTheirWay'
      <3>1. /\ rows' = Append(rows, id) /\ onTheirWay = <<id>> \o w /\ w \in Seq(Nat)
            /\ id \in Nat /\ arrived' = id /\ id \in DOMAIN origin
        BY <1>8, <2>2, NoteArrives
      <3> HIDE DEF w
      <3>2. Len(w) \in Nat /\ Len(onTheirWay) = Len(w) + 1
        BY <3>1
      <3>3. \A i \in 1..Len(w) : w[i] = onTheirWay[i + 1] /\ i + 1 \in 1..Len(onTheirWay)
        BY <3>1, <3>2
      <3>4. \A i \in 1..Len(w) : w[i] = arrived + 1 + i
        BY <1>0, <3>2, <3>3
      <3>5. \A k \in Range(rows') : k \in 1..arrived + 1
        <4>1. Range(rows') = Range(rows) \union {id}
          <5>1. rows \in Seq(Nat)
            BY DEF TypeOK
          <5>2. id \in Nat /\ rows' = Append(rows, id)
            BY <3>1
          <5> HIDE DEF id
          <5>3. Range(Append(rows, id)) = Range(rows) \union {id}
            BY <5>1, <5>2, AppendRange
          <5> QED BY <5>2, <5>3
        <4> QED BY <1>0, <4>1
      <3>6. Len(w) <= Len(origin)
        BY <1>0, <3>2
      <3> QED BY <1>0, <2>1, <3>1, <3>4, <3>5, <3>6 DEF Arrivals, w
    <2>3. CASE Head(up).kind = "snapshot-result"
      <3>1. Ids(up') = Ids(up) /\ rows' = rows
        BY <1>8, <2>3, Received, IdsHead DEF TypeOK
      <3> QED BY <1>0, <2>1, <3>1, SameArrivals
    <2> QED BY <1>8, <2>2, <2>3, Received
  <1>9. ASSUME NEW s \in DOMAIN subs, Accepted(s) PROVE Arrivals'
    <2>1. Removing(down') = Removing(down) \union Range(rows)
      BY <1>9, AcceptedClears, RemovingClearing DEF TypeOK
    <2>2. \A id \in Range(rows') : id \in Range(rows)
      BY <1>9, AcceptedClears DEF Range
    <2> QED BY <1>0, <1>9, <2>1, <2>2, AcceptedClears, SameArrivals
  <1> QED BY <1>1, <1>2, <1>3, <1>4, <1>5, <1>6, <1>7, <1>8, <1>9, Quiet

\* A snapshot is made of the document there is.
LEMMA ResultsStep == TypeInv /\ [Next]_vars => Results'
  <1> SUFFICES ASSUME TypeInv, [Next]_vars PROVE Results'
    OBVIOUS
  <1> USE DEF TypeInv
  <1>1. CASE up' = up /\ doc' \in {doc, doc + 1}
    BY <1>1 DEF Results, TypeOK
  <1>2. ASSUME NEW m \in BridgeMessage, up' = Append(up, m), doc' = doc,
               m.kind = "snapshot-result" => m.doc = doc
        PROVE  Results'
    <2>1. \A j \in DOMAIN up' : (j \in DOMAIN up /\ up'[j] = up[j]) \/ up'[j] = m
      <3>1. up \in Seq(BridgeMessage)
        BY DEF TypeOK
      <3>2. /\ DOMAIN up' = 1..Len(up) + 1 /\ DOMAIN up = 1..Len(up) /\ Len(up) \in Nat
            /\ \A j \in 1..Len(up) : up'[j] = up[j]
            /\ up'[Len(up) + 1] = m
        BY <1>2, <3>1
      <3> QED BY <3>2
    <2> QED BY <1>2, <2>1 DEF Results, TypeOK
  <1>3. CASE up # <<>> /\ up' = Tail(up) /\ doc' = doc
    <2>1. \A j \in DOMAIN up' : j + 1 \in DOMAIN up /\ up'[j] = up[j + 1]
      BY <1>3 DEF TypeOK
    <2> QED BY <1>3, <2>1 DEF Results
  <1>4. CASE UNCHANGED bridge
    BY <1>1, <1>4 DEF bridge
  <1>5. CASE Toggle \/ Load \/ \E button \in {"send", "sendEnd"} : Click(button)
    BY <1>1, <1>5, OtherDown
  <1>6. CASE (\E id \in DOMAIN origin : RemoveRow(id)) \/ Commit \/ SdkRuns
    BY <1>1, <1>6 DEF RemoveRow, Commit, SdkRuns, frameVars
  <1>7. CASE Capture
    <2>1. [kind |-> "annotation-added", id |-> Len(origin) + 1] \in BridgeMessage
      BY <1>7, Captured, Messages
    <2> QED BY <1>2, <1>7, <2>1, Captured
  <1>8. CASE FrameReceives
    <2>1. [kind |-> "snapshot-result", doc |-> doc, shows |-> Len(origin)] \in BridgeMessage
      <3>1. doc \in Nat /\ Len(origin) \in Nat
        BY DEF TypeOK
      <3> QED BY <3>1, Messages
    <2> QED BY <1>1, <1>2, <1>8, <2>1, FrameAnswers
  <1>9. CASE ChromeReceives
    BY <1>3, <1>9, Received
  <1>10. ASSUME NEW s \in DOMAIN subs, Accepted(s) PROVE Results'
    BY <1>1, <1>10, AcceptedClears
  <1> QED BY <1>4, <1>5, <1>6, <1>7, <1>8, <1>9, <1>10, Quiet

\* Together they are inductive.
LEMMA TypeInvStep == TypeInv /\ [Next]_vars => TypeInv'
  BY TypeStep, ArrivalsStep, ResultsStep DEF TypeInv

(***************************************************************************)
(* Every variable keeps its type, what is posted has its snapshot, a page  *)
(* without a running SDK has no marks, and a page that shows the end       *)
(* expects no other frame of it.                                           *)
(***************************************************************************)
THEOREM TypeCorrect == Spec => []TypeOK
  <1>1. TypeInv => TypeOK
    BY DEF TypeInv
  <1> QED BY <1>1, TypeInit, TypeInvStep, PTL DEF Spec

------------------------------------------------------------------------------
(***************************************************************************)
(* The mode that a document is left in by what is under way to it.         *)
(***************************************************************************)
FinalMode(d, c) ==
  LET modes == Only(d, SetMode)
  IN  IF modes = <<>> THEN c ELSE modes[Len(modes)].mode

\* A message sent down is the final mode if it is one at all,
LEMMA FinalModeAppend ==
  ASSUME NEW d \in Seq(BridgeMessage), NEW m \in BridgeMessage, NEW c
  PROVE  FinalMode(Append(d, m), c) = IF m.kind = "set-mode" THEN m.mode ELSE FinalMode(d, c)
  <1> DEFINE modes == Only(d, SetMode)
  <1>1. Only(Append(d, m), SetMode) = IF m \in SetMode THEN Append(modes, m) ELSE modes
    BY OnlyAppend
  <1>2. modes \in Seq(BridgeMessage)
    BY OnlyType
  <1>3. m \in SetMode <=> m.kind = "set-mode"
    BY Kinds
  <1> HIDE DEF modes
  <1>4. Append(modes, m) # <<>> /\ Append(modes, m)[Len(Append(modes, m))] = m
    BY <1>2
  <1> QED BY <1>1, <1>3, <1>4 DEF FinalMode, modes

\* one that is taken leaves the final mode what it is,
LEMMA FinalModeHead ==
  ASSUME NEW d \in Seq(BridgeMessage), d # <<>>, NEW c
  PROVE  FinalMode(d, c) = FinalMode(Tail(d), IF Head(d).kind = "set-mode" THEN Head(d).mode ELSE c)
  <1> DEFINE modes == Only(Tail(d), SetMode)
             m == Head(d)
  <1>1. Only(d, SetMode) = IF m \in SetMode THEN <<m>> \o modes ELSE modes
    BY OnlyHead
  <1>2. modes \in Seq(BridgeMessage) /\ m \in BridgeMessage
    <2>1. Tail(d) \in Seq(BridgeMessage) /\ m \in BridgeMessage
      OBVIOUS
    <2> HIDE DEF m
    <2> QED BY <2>1, OnlyType
  <1>3. m \in SetMode <=> m.kind = "set-mode"
    BY <1>2, Kinds
  <1> HIDE DEF modes, m
  <1>4. /\ <<m>> \o modes # <<>>
        /\ modes # <<>> => (<<m>> \o modes)[Len(<<m>> \o modes)] = modes[Len(modes)]
        /\ modes = <<>> => (<<m>> \o modes)[Len(<<m>> \o modes)] = m
    BY <1>2
  <1>5. CASE m \in SetMode
    <2>1. FinalMode(d, c) = (<<m>> \o modes)[Len(<<m>> \o modes)].mode
      BY <1>1, <1>4, <1>5 DEF FinalMode
    <2>2. FinalMode(Tail(d), m.mode) = IF modes = <<>> THEN m.mode ELSE modes[Len(modes)].mode
      BY DEF FinalMode, modes
    <2> QED BY <1>3, <1>4, <1>5, <2>1, <2>2 DEF m
  <1>6. CASE m \notin SetMode
    <2>1. FinalMode(d, c) = FinalMode(Tail(d), c)
      BY <1>1, <1>6 DEF FinalMode, modes
    <2> QED BY <1>3, <1>6, <2>1 DEF m
  <1> QED BY <1>5, <1>6

\* and removals are no modes.
LEMMA FinalModeClearing ==
  ASSUME TypeOK, NEW c
  PROVE  FinalMode(down \o Clearing, c) = FinalMode(down, c)
  <1>1. down \in Seq(BridgeMessage) /\ Clearing \in Seq(BridgeMessage)
    BY ClearingType DEF TypeOK
  <1>2. Only(Clearing, SetMode) = <<>>
    <2>1. \A i \in 1..Len(Clearing) : Clearing[i].kind = "annotation-removed"
      <3>1. \A i \in DOMAIN rows : Clearing[i].kind = "annotation-removed"
        BY ClearingType DEF clearMarker
      <3>2. DOMAIN rows = 1..Len(Clearing)
        BY ClearingType DEF TypeOK
      <3> QED BY <3>1, <3>2
    <2>2. \A i \in 1..Len(Clearing) : Clearing[i] \notin SetMode
      BY <1>1, <2>1, Kinds
    <2> QED BY <1>1, <2>2, OnlyNone
  <1>3. Only(down \o Clearing, SetMode) = Only(down, SetMode) \o <<>>
    <2>1. Only(down \o Clearing, SetMode) = Only(down, SetMode) \o Only(Clearing, SetMode)
      BY <1>1, OnlyConcat
    <2> QED BY <1>2, <2>1
  <1>4. Only(down, SetMode) \in Seq(BridgeMessage)
    BY <1>1, OnlyType
  <1>5. Only(down \o Clearing, SetMode) = Only(down, SetMode)
    BY <1>3, <1>4, ConcatEmptySeq
  <1> QED BY <1>5 DEF FinalMode

\* Nothing has been toggled yet.
LEMMA ModeInit == Init => ModeFollowsToggle
  BY DEF Init, ModeFollowsToggle

\* The final mode follows the toggle, action by action.
LEMMA ModeStep == TypeInv /\ ModeFollowsToggle /\ [Next]_vars => ModeFollowsToggle'
  <1> SUFFICES ASSUME TypeInv, ModeFollowsToggle, [Next]_vars, phase' = "ready"
               PROVE  pressed' = FinalMode(down', capturing')
    BY DEF ModeFollowsToggle, FinalMode
  <1>0. /\ phase = "ready" => pressed = FinalMode(down, capturing)
        /\ down \in Seq(BridgeMessage) /\ pressed \in BOOLEAN
    BY DEF ModeFollowsToggle, FinalMode, TypeInv, TypeOK
  <1>1. CASE UNCHANGED bridge
    BY <1>0, <1>1 DEF bridge
  <1>2. ASSUME NEW id \in DOMAIN origin, RemoveRow(id) PROVE pressed' = FinalMode(down', capturing')
    <2>1. clearMarker(id) \in BridgeMessage /\ clearMarker(id).kind = "annotation-removed"
      <3>1. id \in Nat
        BY DEF TypeInv, TypeOK
      <3>2. clearMarker(id).kind = "annotation-removed"
        BY DEF clearMarker
      <3> QED BY <3>1, <3>2, Messages
    <2> QED BY <1>0, <1>2, <2>1, FinalModeAppend DEF RemoveRow, frameVars
  <1>3. CASE Toggle
    <2> DEFINE m == [kind |-> "set-mode", mode |-> ~pressed]
    <2>1. m \in BridgeMessage
      BY <1>0, Messages
    <2>2. m.kind = "set-mode" /\ m.mode = ~pressed /\ down' = Append(down, m) /\ pressed' = ~pressed
      BY <1>3 DEF Toggle
    <2> HIDE DEF m
    <2>3. \A c : FinalMode(Append(down, m), c) = m.mode
      BY <1>0, <2>1, <2>2, FinalModeAppend
    <2> QED BY <2>2, <2>3
  <1>4. ASSUME NEW button \in {"send", "sendEnd"}, Click(button)
        PROVE  pressed' = FinalMode(down', capturing')
    <2> DEFINE m == [kind |-> "snapshot-request"]
    <2>1. m \in BridgeMessage /\ m.kind # "set-mode"
      BY Messages
    <2>2. down' = Append(down, m) /\ UNCHANGED <<phase, pressed, capturing>>
      BY <1>4 DEF Click, frameVars
    <2> HIDE DEF m
    <2> QED BY <1>0, <2>1, <2>2, FinalModeAppend
  <1>5. CASE Capture
    BY <1>0, <1>5, Captured
  <1>6. CASE FrameReceives
    <2>1. /\ down # <<>> /\ down' = Tail(down) /\ phase = "ready" /\ pressed' = pressed
          /\ capturing' = IF Head(down).kind = "set-mode" THEN Head(down).mode ELSE capturing
      BY <1>6 DEF FrameReceives, listening, modeAfter, chromeVars
    <2> QED BY <1>0, <2>1, FinalModeHead
  <1>7. CASE Commit \/ SdkRuns
    BY <1>7 DEF Commit, SdkRuns
  <1>8. CASE Load
    <2> DEFINE m == [kind |-> "set-mode", mode |-> pressed]
    <2>1. m \in BridgeMessage
      BY <1>0, Messages
    <2>2. m.kind = "set-mode" /\ m.mode = pressed /\ down' = Append(down, m) /\ pressed' = pressed
      BY <1>8 DEF Load, chromeVars
    <2> HIDE DEF m
    <2>3. \A c : FinalMode(Append(down, m), c) = m.mode
      BY <1>0, <2>1, <2>2, FinalModeAppend
    <2> QED BY <2>2, <2>3
  <1>9. CASE ChromeReceives
    BY <1>0, <1>9, Received DEF TypeInv
  <1>10. ASSUME NEW s \in DOMAIN subs, Accepted(s) PROVE pressed' = FinalMode(down', capturing')
    BY <1>0, <1>10, AcceptedClears, FinalModeClearing DEF TypeInv
  <1> QED BY <1>1, <1>2, <1>3, <1>4, <1>5, <1>6, <1>7, <1>8, <1>9, <1>10, Quiet

(***************************************************************************)
(* A loaded artifact ends up in the mode of the toggle: of the messages    *)
(* under way to it the last mode counts, and each toggle and each load     *)
(* sends one.                                                              *)
(***************************************************************************)
THEOREM ModeIsKept == Spec => []ModeFollowsToggle
  BY TypeInit, TypeInvStep, ModeInit, ModeStep, PTL DEF Spec

------------------------------------------------------------------------------
(***************************************************************************)
(* The markers follow the rows.  The inductive form selects the rows of    *)
(* the document; that they come after the rows kept from earlier ones      *)
(* follows from the order in which annotations come.  A document that has  *)
(* just replaced another has no marker, so nothing was captured in it.     *)
(***************************************************************************)
Mine(o, d) == {id \in DOMAIN o : o[id] = d}

MarkedRows ==
  listening => Only(markers, Nat \ Removing(down)) = Only(rows \o onTheirWay, Mine(origin, doc))

MarkInv ==
  /\ MarkedRows
  /\ phase \in {"booting", "bare"} => Mine(origin, doc) = {}

\* Rows are in the order of their capture, and documents follow one another.
Orderly ==
  /\ Rising(rows)
  /\ \A i, j \in DOMAIN origin : i < j => origin[i] <= origin[j]

\* The invariant, before and after a step.
LEMMA MarkersAre ==
  /\ MarkedRows <=>
       (listening => Only(markers, Nat \ Removing(down)) = Only(rows \o onTheirWay, Mine(origin, doc)))
  /\ MarkedRows' <=>
       (listening' => Only(markers', Nat \ Removing(down')) = Only(rows' \o onTheirWay', Mine(origin', doc')))
  BY DEF MarkedRows, Mine

\* What is left of two sequences, one after the other.
LEMMA ConcatOfIds == \A K : \A s, t \in Seq(Nat) : Only(s \o t, K) = Only(s, K) \o Only(t, K)
  BY OnlyConcat

\* What is left after a removal is left of both, if no row that comes is removed.
LEMMA RemovedFromBoth ==
  ASSUME NEW ms \in Seq(Nat), NEW r \in Seq(Nat), NEW w \in Seq(Nat), NEW G, NEW M, NEW K,
         Only(ms, G) = Only(r \o w, M),
         \A i \in 1..Len(w) : w[i] \in K
  PROVE  Only(ms, G \intersect K) = Only(Only(r, K) \o w, M)
  <1>1. Only(ms, G \intersect K) = Only(Only(ms, G), K)
    BY OnlyTwice
  <1>2. Only(Only(r \o w, M), K) = Only(Only(r \o w, K), M)
    <2> DEFINE l == r \o w
    <2>1. l \in Seq(Nat)
      OBVIOUS
    <2>2. M \intersect K = K \intersect M
      OBVIOUS
    <2> HIDE DEF l
    <2>3. Only(Only(l, M), K) = Only(l, M \intersect K)
      BY <2>1, OnlyTwice
    <2>4. Only(Only(l, K), M) = Only(l, K \intersect M)
      BY <2>1, OnlyTwice
    <2> QED BY <2>2, <2>3, <2>4 DEF l
  <1>3. Only(r \o w, K) = Only(r, K) \o w
    <2>1. Only(r \o w, K) = Only(r, K) \o Only(w, K)
      BY ConcatOfIds
    <2>2. Only(w, K) = w
      BY OnlyAll
    <2> QED BY <2>1, <2>2
  <1> QED BY <1>1, <1>2, <1>3

\* There are no marks yet.
LEMMA MarkInit == Init => MarkInv
  BY DEF Init, MarkInv, MarkedRows, listening, Mine

\* Markers and rows lose and gain the same, action by action.
LEMMA MarkStep == TypeInv /\ MarkInv /\ [Next]_vars => MarkInv'
  <1> SUFFICES ASSUME TypeInv, MarkInv, [Next]_vars PROVE MarkInv'
    OBVIOUS
  <1> DEFINE w == onTheirWay
             D == Removing(down)
             M == Mine(origin, doc)
             Marked == Only(markers, Nat \ D) = Only(rows \o w, M)
  <1>1. /\ listening => Marked
        /\ ~ listening => M = {}
    BY MarkersAre DEF MarkInv, listening, TypeInv, TypeOK, Phase
  <1>2. /\ rows \in Seq(Nat) /\ markers \in Seq(Nat) /\ w \in Seq(Nat) /\ up \in Seq(BridgeMessage)
        /\ down \in Seq(BridgeMessage) /\ origin \in Seq(1..doc) /\ doc \in Nat
        /\ DOMAIN origin = 1..Len(origin) /\ Len(origin) \in Nat /\ phase \in Phase
    BY OnTheirWay, AddsType DEF TypeInv, TypeOK
  <1>3. /\ Len(w) \in Nat /\ arrived \in Nat /\ arrived + Len(w) = Len(origin)
        /\ \A i \in 1..Len(w) : w[i] = arrived + i
        /\ \A id \in Range(rows) : id \in 1..arrived
        /\ \A id \in D : id \in DOMAIN origin
    BY <1>2, ArrivedType DEF TypeInv, Arrivals, arrived
  \* It is enough to follow the markers and the rows of a document that listens.
  <1>4. ASSUME listening' => Only(markers', Nat \ Removing(down')) = Only(rows' \o onTheirWay', M),
               origin' = origin, doc' = doc, phase' = phase \/ (listening /\ listening')
        PROVE  MarkInv'
    <2>1. Mine(origin, doc)' = M
      BY <1>4
    <2>2. phase' \in {"booting", "bare"} => M = {}
      BY <1>1, <1>4 DEF listening
    <2>3. MarkedRows'
      BY <1>4, <2>1, MarkersAre
    <2> QED BY <2>1, <2>2, <2>3 DEF MarkInv
  <1> HIDE DEF Marked, M, D, w
  <1>5. ASSUME markers' = markers, rows' = rows, onTheirWay' = w, Removing(down') = D,
               origin' = origin, doc' = doc, phase' = phase \/ (listening /\ listening')
        PROVE  MarkInv'
    <2>1. listening' => listening
      BY <1>5 DEF listening
    <2>2. listening' => Only(markers', Nat \ Removing(down')) = Only(rows' \o onTheirWay', M)
      BY <1>1, <1>5, <2>1 DEF Marked
    <2> QED BY <1>4, <1>5, <2>2
  <1>6. CASE UNCHANGED bridge
    <2>1. onTheirWay' = w
      BY <1>6, OnTheirWay DEF bridge, w
    <2> QED BY <1>5, <1>6, <2>1 DEF bridge, D
  <1>7. CASE Toggle \/ Load \/ \E button \in {"send", "sendEnd"} : Click(button)
    <2>1. /\ Removing(down') = D /\ UNCHANGED <<rows, markers, up, origin, doc>>
          /\ phase' = phase \/ (phase = "running" /\ phase' = "ready")
      BY <1>7, OtherDown DEF TypeInv, D
    <2>2. onTheirWay' = w
      BY <2>1, OnTheirWay DEF w
    <2> QED BY <1>5, <2>1, <2>2 DEF listening
  \* Rows go, and their markers' removals go down.
  <1>8. ASSUME NEW R, R \subseteq Range(rows), rows' = Only(rows, Nat \ R), Removing(down') = D \union R,
               UNCHANGED <<markers, up, origin, doc, phase>>
        PROVE  MarkInv'
    <2>1. onTheirWay' = w
      BY <1>8, OnTheirWay DEF w
    <2>2. \A i \in 1..Len(w) : w[i] \notin R
      BY <1>3, <1>8
    <2>3. Marked => Only(markers, Nat \ (D \union R)) = Only(Only(rows, Nat \ R) \o w, M)
      <3>1. markers \in Seq(Nat) /\ rows \in Seq(Nat) /\ w \in Seq(Nat)
        BY <1>2
      <3>2. ASSUME NEW G, NEW K, Only(markers, G) = Only(rows \o w, M), \A i \in 1..Len(w) : w[i] \in K
            PROVE  Only(markers, G \intersect K) = Only(Only(rows, K) \o w, M)
        BY <3>1, <3>2, RemovedFromBoth
      <3>3. \A i \in 1..Len(w) : w[i] \in Nat \ R
        BY <2>2, <3>1
      <3>4. (Nat \ D) \intersect (Nat \ R) = Nat \ (D \union R)
        OBVIOUS
      <3> QED BY <3>2, <3>3, <3>4 DEF Marked
    <2>4. listening' => Only(markers', Nat \ Removing(down')) = Only(rows' \o onTheirWay', M)
      BY <1>1, <1>8, <2>1, <2>3 DEF listening
    <2> QED BY <1>4, <1>8, <2>4
  <1>9. ASSUME NEW id \in DOMAIN origin, RemoveRow(id) PROVE MarkInv'
    <2>1. rows' = Only(rows, Nat \ {id}) /\ down' = Append(down, clearMarker(id))
          /\ UNCHANGED <<markers, up, origin, doc, phase>>
      BY <1>9 DEF RemoveRow, without, frameVars
    <2>2. {id} \subseteq Range(rows)
      BY <1>9 DEF RemoveRow, Contains, Range
    <2>3. Removing(down') = D \union {id}
      <3>1. clearMarker(id) \in BridgeMessage
        BY <1>2, Messages
      <3>2. clearMarker(id).kind = "annotation-removed" /\ clearMarker(id).id = id
        BY DEF clearMarker
      <3> QED BY <1>2, <2>1, <3>1, <3>2, RemovingAppend DEF D
    <2> QED BY <1>8, <2>1, <2>2, <2>3
  <1>10. ASSUME NEW s \in DOMAIN subs, Accepted(s) PROVE MarkInv'
    <2>1. rows' = <<>> /\ down' = down \o Clearing /\ UNCHANGED <<markers, up, origin, doc, phase>>
      BY <1>10, AcceptedClears
    <2>2. Removing(down') = D \union Range(rows)
      BY <1>2, <2>1, RemovingClearing DEF TypeInv, D
    <2>3. Only(rows, Nat \ Range(rows)) = <<>>
      <3>1. \A n \in 1..Len(rows) : rows[n] \notin Nat \ Range(rows)
        BY <1>2 DEF Range
      <3> QED BY <1>2, <3>1, OnlyNone
    <2> QED BY <1>8, <2>1, <2>2, <2>3
  <1>11. CASE Capture
    <2> DEFINE id == Len(origin) + 1
    <2>1. /\ listening /\ id \in Nat /\ markers' = Append(markers, id) /\ onTheirWay' = Append(w, id)
          /\ DOMAIN origin' = DOMAIN origin \union {id} /\ origin'[id] = doc
          /\ \A k \in DOMAIN origin : origin'[k] = origin[k] /\ k < id
          /\ UNCHANGED <<rows, down, doc, phase>>
      BY <1>11, Captured DEF w
    <2>2. id \notin DOMAIN origin
      BY <1>2
    <2> HIDE DEF id
    <2>3. Mine(origin', doc) = M \union {id} /\ id \notin D
      BY <1>3, <2>1, <2>2 DEF Mine, M
    <2>4. Only(Append(markers, id), Nat \ D) = Append(Only(markers, Nat \ D), id)
      <3>1. id \in Nat \ D
        BY <2>1, <2>3
      <3>2. \A s \in Seq(Nat) : Only(Append(s, id), Nat \ D) = Append(Only(s, Nat \ D), id)
        BY <3>1, OnlyAppend
      <3> QED BY <1>2, <3>2
    <2> DEFINE l == rows \o w
    <2>5. l \in Seq(Nat) /\ rows \o Append(w, id) = Append(l, id)
      <3>1. l \in Seq(Nat) /\ <<id>> \in Seq(Nat)
        BY <1>2, <2>1
      <3>2. \A s \in Seq(Nat) : Append(s, id) = s \o <<id>>
        BY <2>1, AppendIsConcat
      <3>3. \A r, s, t \in Seq(Nat) : (r \o s) \o t = r \o (s \o t)
        BY ConcatAssociative
      <3>4. (rows \o w) \o <<id>> = rows \o (w \o <<id>>)
        BY <1>2, <3>1, <3>3
      <3> QED BY <1>2, <3>1, <3>2, <3>4
    <2>6. \A i \in 1..Len(l) : l[i] \in DOMAIN origin
      <3>1. \A k \in Range(rows) : k \in DOMAIN origin
        BY <1>2, <1>3
      <3>2. \A i \in 1..Len(rows) : rows[i] \in DOMAIN origin
        BY <1>2, <3>1 DEF Range
      <3>3. \A i \in 1..Len(w) : w[i] \in DOMAIN origin
        <4>1. \A i \in 1..Len(w) : arrived + i \in 1..Len(origin)
          BY <1>3
        <4> QED BY <1>2, <1>3, <4>1
      <3>4. Len(rows) \in Nat /\ Len(w) \in Nat /\ Len(l) = Len(rows) + Len(w)
        BY <1>2
      <3>5. \A i \in 1..Len(l) : \/ i \in 1..Len(rows) /\ l[i] = rows[i]
                                 \/ i - Len(rows) \in 1..Len(w) /\ l[i] = w[i - Len(rows)]
        BY <1>2, <3>4
      <3> QED BY <3>2, <3>3, <3>5
    <2> HIDE DEF l
    <2>7. Only(Append(l, id), M \union {id}) = Append(Only(l, M), id)
      <3>1. Only(Append(l, id), M \union {id}) = Append(Only(l, M \union {id}), id)
        BY <2>1, <2>5, OnlyAppend
      <3>2. \A i \in 1..Len(l) : l[i] \in M \union {id} <=> l[i] \in M
        BY <2>2, <2>6
      <3>3. Only(l, M \union {id}) = Only(l, M)
        BY <2>5, <3>2, OnlySame
      <3> QED BY <3>1, <3>3
    <2>8. Only(markers, Nat \ D) = Only(l, M)
      BY <1>1, <2>1 DEF Marked, l
    <2>9. Only(markers', Nat \ Removing(down')) = Only(rows' \o onTheirWay', Mine(origin', doc'))
      BY <2>1, <2>3, <2>4, <2>5, <2>7, <2>8 DEF D, l
    <2>10. MarkedRows'
      BY <2>9, MarkersAre
    <2> QED BY <2>1, <2>10 DEF MarkInv, listening
  <1>12. CASE FrameReceives
    <2> DEFINE m == Head(down)
               E == Removing(Tail(down))
    <2>1. /\ down # <<>> /\ down' = Tail(down) /\ UNCHANGED <<rows, origin, doc, phase>> /\ onTheirWay' = w
      BY <1>12, FrameAnswers, OnTheirWay DEF FrameReceives, TypeInv, w
    <2>2. D = E \union (IF m.kind = "annotation-removed" THEN {m.id} ELSE {})
      BY <1>2, <2>1, RemovingHead DEF D
    <2>3. listening => markers' = IF m.kind = "annotation-removed" THEN Only(markers, Nat \ {m.id}) ELSE markers
      BY <1>12 DEF FrameReceives, markersAfter, without
    <2> HIDE DEF m, E
    <2>4. listening => Only(markers', Nat \ E) = Only(markers, Nat \ D)
      <3>1. CASE m.kind = "annotation-removed"
        <4>1. (Nat \ {m.id}) \intersect (Nat \ E) = Nat \ D
          BY <2>2, <3>1
        <4>2. Only(Only(markers, Nat \ {m.id}), Nat \ E) = Only(markers, (Nat \ {m.id}) \intersect (Nat \ E))
          <5>1. \A S, R : \A s \in Seq(Nat) : Only(Only(s, S), R) = Only(s, S \intersect R)
            BY OnlyTwice
          <5> QED BY <1>2, <5>1
        <4> QED BY <2>3, <3>1, <4>1, <4>2
      <3>2. CASE m.kind # "annotation-removed"
        BY <2>2, <2>3, <3>2
      <3> QED BY <3>1, <3>2
    <2>5. listening' => Only(markers', Nat \ Removing(down')) = Only(rows' \o onTheirWay', M)
      BY <1>1, <2>1, <2>4 DEF listening, Marked, E
    <2> QED BY <1>4, <2>1, <2>5
  <1>13. CASE Commit
    <2>1. Mine(origin', doc') = {}
      <3>1. \A id \in DOMAIN origin : origin[id] \in 1..doc
        BY <1>2
      <3> QED BY <1>2, <1>13, <3>1 DEF Commit, Mine
    <2> QED BY <1>13, <2>1, MarkersAre DEF Commit, MarkInv, listening
  <1>14. CASE SdkRuns
    <2>1. markers = <<>> /\ UNCHANGED <<markers, rows, up, down, origin, doc>> /\ M = {} /\ phase' = "running"
      BY <1>1, <1>14 DEF SdkRuns, TypeInv, TypeOK, chromeVars, listening
    <2>2. onTheirWay' = w
      BY <2>1, OnTheirWay DEF w
    <2>3. rows \o w \in Seq(Nat) /\ \A n \in 1..Len(rows \o w) : (rows \o w)[n] \notin {}
      BY <1>2
    <2>4. Only(rows \o w, {}) = <<>>
      BY <2>3, OnlyNone
    <2>5. Only(<<>>, Nat \ D) = <<>>
      BY OnlyEmpty
    <2>6. Only(markers', Nat \ Removing(down')) = Only(rows' \o onTheirWay', Mine(origin', doc'))
      BY <2>1, <2>2, <2>4, <2>5 DEF M, D
    <2>7. MarkedRows'
      BY <2>6, MarkersAre
    <2> QED BY <2>1, <2>7 DEF MarkInv
  <1>15. CASE ChromeReceives
    <2>1. UNCHANGED <<down, origin, doc, phase, markers>>
      BY <1>15, Received DEF TypeInv
    <2>2. CASE Head(up).kind = "annotation-added"
      <3> DEFINE id == arrived + 1
                 v == onTheirWay'
      <3>1. rows' = Append(rows, id) /\ w = <<id>> \o v /\ v \in Seq(Nat) /\ id \in Nat
        BY <1>15, <2>2, NoteArrives DEF w
      <3> HIDE DEF id, v
      <3>2. rows' \o v = rows \o w
        <4>1. Append(rows, id) = rows \o <<id>> /\ <<id>> \in Seq(Nat)
          BY <1>2, <3>1, AppendIsConcat
        <4> QED BY <1>2, <3>1, <4>1, ConcatAssociative
      <3>3. listening' => Only(markers', Nat \ Removing(down')) = Only(rows' \o onTheirWay', M)
        BY <1>1, <2>1, <3>2 DEF listening, Marked, D, v
      <3> QED BY <1>4, <2>1, <3>3
    <2>3. CASE Head(up).kind = "snapshot-result"
      <3>1. Ids(up') = Ids(up) /\ rows' = rows
        BY <1>2, <1>15, <2>3, Received, IdsHead DEF TypeInv
      <3>2. onTheirWay' = w
        BY <3>1, OnTheirWay DEF w
      <3> QED BY <1>5, <2>1, <3>1, <3>2 DEF D
    <2> QED BY <1>15, <2>2, <2>3, Received DEF TypeInv
  <1> QED BY <1>6, <1>7, <1>9, <1>10, <1>11, <1>12, <1>13, <1>14, <1>15, Quiet

\* No row and no annotation is there yet.
LEMMA OrderlyInit == Init => Orderly
  BY DEF Init, Orderly, Rising

\* An annotation that comes is the last row, one that is captured is of the last document.
LEMMA OrderlyStep == TypeInv /\ Orderly /\ [Next]_vars => Orderly'
  <1> SUFFICES ASSUME TypeInv, Orderly, [Next]_vars PROVE Orderly'
    OBVIOUS
  <1>1. /\ rows \in Seq(Nat) /\ origin \in Seq(1..doc) /\ doc \in Nat /\ Rising(rows)
        /\ DOMAIN origin = 1..Len(origin) /\ Len(origin) \in Nat
        /\ \A i, j \in DOMAIN origin : i < j => origin[i] <= origin[j]
    BY DEF TypeInv, TypeOK, Orderly
  <1>2. CASE Rising(rows') /\ origin' = origin
    BY <1>1, <1>2 DEF Orderly
  <1>3. CASE UNCHANGED <<rows, origin>>
    BY <1>1, <1>2, <1>3
  <1>4. ASSUME NEW id \in DOMAIN origin, RemoveRow(id) PROVE Orderly'
    <2>1. rows' = Only(rows, Nat \ {id}) /\ origin' = origin
      BY <1>4 DEF RemoveRow, without, frameVars
    <2>2. Rising(Only(rows, Nat \ {id}))
      BY <1>1, OnlyRising
    <2> QED BY <1>2, <2>1, <2>2
  <1>5. CASE Capture
    <2> DEFINE id == Len(origin) + 1
    <2>1. /\ DOMAIN origin' = DOMAIN origin \union {id} /\ origin'[id] = doc /\ rows' = rows
          /\ \A k \in DOMAIN origin : origin'[k] = origin[k] /\ k < id
      BY <1>5, Captured
    <2>2. \A k \in DOMAIN origin : origin[k] <= doc /\ ~ (id < k)
      BY <1>1
    <2> HIDE DEF id
    <2>3. ASSUME NEW i \in DOMAIN origin', NEW j \in DOMAIN origin', i < j
          PROVE  origin'[i] <= origin'[j]
      <3>1. CASE j \in DOMAIN origin
        <4>1. i \in DOMAIN origin
          BY <2>1, <2>2, <2>3, <3>1
        <4> QED BY <1>1, <2>1, <2>3, <3>1, <4>1
      <3>2. CASE j = id /\ i \in DOMAIN origin
        BY <2>1, <2>2, <3>2
      <3>3. CASE j = id /\ i = id
        BY <1>1, <2>1, <3>3
      <3> QED BY <2>1, <3>1, <3>2, <3>3
    <2> QED BY <1>1, <2>1, <2>3 DEF Orderly
  <1>6. CASE ChromeReceives
    <2>1. CASE Head(up).kind = "annotation-added"
      <3> DEFINE id == arrived + 1
      <3>1. rows' = Append(rows, id) /\ id \in Nat /\ origin' = origin
        BY <1>6, <2>1, NoteArrives, Received DEF TypeInv
      <3>2. \A x \in Range(rows) : x < id
        BY ArrivedType DEF TypeInv, Arrivals
      <3> HIDE DEF id
      <3>3. Rising(rows')
        BY <1>1, <3>1, <3>2, RisingAppend
      <3> QED BY <1>2, <3>1, <3>3
    <2>2. CASE Head(up).kind # "annotation-added"
      BY <1>3, <1>6, <2>2, Received DEF TypeInv
    <2> QED BY <2>1, <2>2
  <1>7. ASSUME NEW s \in DOMAIN subs, Accepted(s) PROVE Orderly'
    BY <1>2, <1>7, AcceptedClears DEF Rising
  <1>8. CASE Toggle \/ Load \/ \E button \in {"send", "sendEnd"} : Click(button)
    BY <1>3, <1>8, OtherDown DEF TypeInv
  <1>9. CASE FrameReceives \/ Commit \/ SdkRuns
    BY <1>3, <1>9 DEF FrameReceives, Commit, SdkRuns, chromeVars
  <1>10. CASE UNCHANGED bridge
    BY <1>3, <1>10 DEF bridge
  <1> QED BY <1>4, <1>5, <1>6, <1>7, <1>8, <1>9, <1>10, Quiet

\* So the rows that are kept come first.
LEMMA KeptFirst == TypeInv /\ MarkInv /\ Orderly => MarkersFollowRows
  <1> DEFINE w == onTheirWay
             shown == rows \o w
             M == Mine(origin, doc)
             kept == Only(markers, Nat \ Removing(down))
             Goal == \E survivors \in 0..Len(shown) :
                        /\ SubSeq(shown, survivors + 1, Len(shown)) = kept
                        /\ \A n \in 1..Len(shown) :
                             IF n <= survivors THEN origin[shown[n]] < doc ELSE origin[shown[n]] = doc
  <1> SUFFICES ASSUME TypeInv, MarkInv, Orderly, listening PROVE Goal
    BY DEF MarkersFollowRows, Removing
  <1>2. /\ rows \in Seq(Nat) /\ w \in Seq(Nat) /\ origin \in Seq(1..doc) /\ doc \in Nat
        /\ DOMAIN origin = 1..Len(origin) /\ Len(origin) \in Nat
    BY OnTheirWay, AddsType DEF TypeInv, TypeOK
  <1>3. /\ Len(w) \in Nat /\ arrived \in Nat /\ arrived + Len(w) = Len(origin)
        /\ \A i \in 1..Len(w) : w[i] = arrived + i
        /\ \A i \in 1..Len(rows) : rows[i] \in 1..arrived
        /\ \A i, j \in 1..Len(rows) : i < j => rows[i] < rows[j]
    <2>1. Len(w) \in Nat /\ arrived \in Nat /\ arrived + Len(w) = Len(origin)
      BY <1>2, ArrivedType DEF TypeInv, arrived
    <2>2. \A i \in 1..Len(w) : w[i] = arrived + i
      BY DEF TypeInv, Arrivals
    <2>3. \A i \in 1..Len(rows) : rows[i] \in Range(rows)
      BY <1>2 DEF Range
    <2>4. \A i \in 1..Len(rows) : rows[i] \in 1..arrived
      BY <2>3 DEF TypeInv, Arrivals
    <2>5. \A i, j \in 1..Len(rows) : i < j => rows[i] < rows[j]
      BY <1>2 DEF Orderly, Rising
    <2> QED BY <2>1, <2>2, <2>4, <2>5
  <1>4. kept = Only(shown, M)
    BY DEF MarkInv, MarkedRows
  <1> HIDE DEF kept, w, M
  <1>5. /\ shown \in Seq(Nat) /\ Len(rows) \in Nat /\ Len(shown) = Len(rows) + Len(w)
        /\ \A i \in 1..Len(shown) : \/ i \in 1..Len(rows) /\ shown[i] = rows[i]
                                    \/ i - Len(rows) \in 1..Len(w) /\ shown[i] = w[i - Len(rows)]
    BY <1>2
  <1> HIDE DEF shown
  <1>6. \A i \in 1..Len(shown) : \/ i \in 1..Len(rows) /\ shown[i] = rows[i] /\ shown[i] \in 1..arrived
                                 \/ i - Len(rows) \in 1..Len(w) /\ shown[i] = arrived + (i - Len(rows))
    BY <1>3, <1>5
  <1>7. \A i \in 1..Len(shown) : shown[i] \in 1..Len(origin)
    BY <1>3, <1>5, <1>6
  <1>8. \A i, j \in 1..Len(shown) : i < j => shown[i] < shown[j]
    <2> SUFFICES ASSUME NEW i \in 1..Len(shown), NEW j \in 1..Len(shown), i < j
                 PROVE  shown[i] < shown[j]
      OBVIOUS
    <2>1. CASE i \in 1..Len(rows) /\ j \in 1..Len(rows)
      <3>1. i - Len(rows) \notin 1..Len(w) /\ j - Len(rows) \notin 1..Len(w)
        BY <1>3, <1>5, <2>1
      <3>2. shown[i] = rows[i] /\ shown[j] = rows[j]
        BY <1>6, <3>1
      <3> QED BY <1>3, <2>1, <3>2
    <2>2. CASE i \notin 1..Len(rows) /\ j \notin 1..Len(rows)
      <3>1. shown[i] = arrived + (i - Len(rows)) /\ shown[j] = arrived + (j - Len(rows))
        BY <1>6, <2>2
      <3> QED BY <1>3, <1>5, <3>1
    <2>3. CASE i \in 1..Len(rows) /\ j \notin 1..Len(rows)
      <3>1. /\ j - Len(rows) \in 1..Len(w) /\ shown[j] = arrived + (j - Len(rows))
            /\ i - Len(rows) \notin 1..Len(w)
        BY <1>3, <1>5, <1>6, <2>3
      <3>2. shown[i] \in 1..arrived
        BY <1>6, <3>1
      <3> QED BY <1>3, <1>5, <3>1, <3>2
    <2>4. i \in 1..Len(rows) \/ j \notin 1..Len(rows)
      BY <1>5
    <2> QED BY <2>1, <2>2, <2>3, <2>4
  <1>9. \A k \in 1..Len(origin) : origin[k] \in 1..doc /\ (k \in M <=> origin[k] = doc)
    BY <1>2 DEF M, Mine
  <1>10. \A i, j \in 1..Len(shown) : i < j /\ shown[i] \in M => shown[j] \in M
    <2> SUFFICES ASSUME NEW i \in 1..Len(shown), NEW j \in 1..Len(shown), i < j, shown[i] \in M
                 PROVE  shown[j] \in M
      OBVIOUS
    <2>1. origin[shown[i]] = doc /\ origin[shown[i]] <= origin[shown[j]]
      <3>1. shown[i] \in DOMAIN origin /\ shown[j] \in DOMAIN origin /\ shown[i] < shown[j]
        BY <1>2, <1>7, <1>8
      <3>2. origin[shown[i]] <= origin[shown[j]]
        BY <3>1 DEF Orderly
      <3> QED BY <1>7, <1>9, <3>2
    <2>2. origin[shown[j]] \in 1..doc
      BY <1>7, <1>9
    <2> QED BY <1>2, <1>7, <1>9, <2>1, <2>2
  <1>11. PICK k \in 0..Len(shown) : /\ SubSeq(shown, k + 1, Len(shown)) = Only(shown, M)
                                    /\ \A n \in 1..Len(shown) : shown[n] \in M <=> k < n
    BY <1>5, <1>10, OnlyLast
  <1>12. \A n \in 1..Len(shown) : IF n <= k THEN origin[shown[n]] < doc ELSE origin[shown[n]] = doc
    <2> SUFFICES ASSUME NEW n \in 1..Len(shown)
                 PROVE  IF n <= k THEN origin[shown[n]] < doc ELSE origin[shown[n]] = doc
      OBVIOUS
    <2>1. origin[shown[n]] \in 1..doc /\ (shown[n] \in M <=> origin[shown[n]] = doc)
      BY <1>7, <1>9
    <2> QED BY <1>2, <1>5, <1>11, <2>1
  <1> QED BY <1>4, <1>11, <1>12

(***************************************************************************)
(* The overlay shows a marker for each pending annotation of its document  *)
(* and no other, in the order of the rows, which come after those that     *)
(* earlier documents left: the n-th marker is the n-th row after them, up  *)
(* to what is under way.                                                   *)
(***************************************************************************)
THEOREM MarkersAreTheRows == Spec => []MarkersFollowRows
  BY TypeInit, TypeInvStep, MarkInit, MarkStep, OrderlyInit, OrderlyStep, KeptFirst, PTL DEF Spec

------------------------------------------------------------------------------
(***************************************************************************)
(* What a step makes of a submission: it is clicked, it is left alone, it  *)
(* takes its rider, it fails, the daemon finds its session, it lands there,*)
(* its answer comes, or the end that it made is undone.                    *)
(***************************************************************************)
SameRider(s) ==
  /\ subs'[s].kind = subs[s].kind /\ subs'[s].text = subs[s].text /\ subs'[s].notes = subs[s].notes
  /\ subs'[s].doc = subs[s].doc /\ subs'[s].shows = subs[s].shows /\ subs'[s].upTo = subs[s].upTo
  /\ subs'[s].textUpTo = subs[s].textUpTo /\ subs'[s].beside = subs[s].beside
  /\ subs[s].undone => subs'[s].undone

Clicked(s) ==
  /\ s = Len(subs) + 1
  /\ subs'[s].pc = "snapshot" /\ subs'[s].text = 0 /\ subs'[s].notes = <<>>
  /\ subs'[s].upTo = 0 /\ subs'[s].textUpTo = 0 /\ ~subs'[s].taken
  /\ subs'[s].beside = inFlight

Alike(s) == subs'[s] = subs[s] /\ (over => over')

Rides(s) ==
  /\ subs[s].pc = "snapshot" /\ ChromeReceives /\ Head(up).kind = "snapshot-result"
  /\ subs'[s].pc = "posting" /\ subs'[s].text = input /\ subs'[s].notes = rows
  /\ subs'[s].doc = Head(up).doc /\ subs'[s].shows = Head(up).shows
  /\ subs'[s].upTo = arrived /\ subs'[s].textUpTo = typed
  /\ subs'[s].kind = subs[s].kind /\ subs'[s].taken = subs[s].taken
  /\ subs'[s].beside = subs[s].beside

GivenUp(s) ==
  /\ SameRider(s) /\ subs'[s].taken = subs[s].taken
  /\ subs[s].pc \in {"snapshot", "posting", "received", "ok", "refused"} /\ subs'[s].pc = "failed"

Arrived(s) ==
  /\ SameRider(s) /\ subs'[s].taken = subs[s].taken
  /\ subs[s].pc = "posting" /\ subs'[s].pc \in {"received", "ok", "refused"}
  /\ subs'[s].pc = "received" => ~over
  /\ subs'[s].pc = "ok" => subs[s].kind = "sendEnd" /\ over'

Landed(s) ==
  /\ SameRider(s)
  /\ subs[s].pc = "received" /\ subs'[s].pc \in {"ok", "refused"}
  /\ subs'[s].pc = "ok" => subs'[s].taken
  /\ subs'[s].pc = "ok" /\ subs[s].kind = "sendEnd" => over'

Answered(s) ==
  /\ SameRider(s) /\ subs'[s].taken = subs[s].taken
  /\ subs[s].pc = "ok" /\ subs'[s].pc = "done" /\ over' = over
  /\ subs[s].kind = "send" => Accepted(s)

Undone(s) ==
  /\ SameRider(s) /\ subs'[s].taken = subs[s].taken /\ subs'[s].pc = subs[s].pc
  /\ subs[s].kind = "sendEnd" /\ subs[s].pc \in {"ok", "done"} => subs'[s].undone

\* What else is left alone when a pc moves.
LEMMA PcMoves ==
  ASSUME TypeOK, NEW s \in DOMAIN subs, NEW pc, subs' = [subs EXCEPT ![s].pc = pc]
  PROVE  /\ DOMAIN subs' = DOMAIN subs /\ \A t \in DOMAIN subs : t # s => subs'[t] = subs[t]
         /\ SameRider(s) /\ subs'[s].taken = subs[s].taken /\ subs'[s].pc = pc
  <1>1. subs[s] \in Submission
    BY DEF TypeOK
  <1>2. subs'[s] = [subs[s] EXCEPT !.pc = pc]
    OBVIOUS
  <1> QED BY <1>1, <1>2 DEF Submission, SameRider

\* These are all.
LEMMA Fate ==
  ASSUME TypeInv, [Next]_vars, NEW s \in DOMAIN subs'
  PROVE  \/ s \notin DOMAIN subs /\ Clicked(s)
         \/ s \in DOMAIN subs /\ (\/ Alike(s) \/ Rides(s) \/ GivenUp(s) \/ Arrived(s) \/ Landed(s)
                                 \/ Answered(s) \/ Undone(s))
  <1> DEFINE Goal == \/ s \notin DOMAIN subs /\ Clicked(s)
                     \/ s \in DOMAIN subs /\ (\/ Alike(s) \/ Rides(s) \/ GivenUp(s) \/ Arrived(s) \/ Landed(s)
                                             \/ Answered(s) \/ Undone(s))
  <1> USE DEF session
  <1>0. TypeOK /\ subs \in Seq(Submission) /\ DOMAIN subs = 1..Len(subs) /\ Len(subs) \in Nat
    BY DEF TypeInv, TypeOK
  <1>1. CASE subs' = subs /\ (over => over')
    BY <1>1 DEF Alike
  <1>2. CASE \E button \in {"send", "sendEnd"} : Click(button)
    <2>1. PICK button \in {"send", "sendEnd"} : Click(button)
      BY <1>2
    <2> DEFINE new == [kind |-> button, pc |-> "snapshot", text |-> 0, notes |-> <<>>, doc |-> 0,
                       shows |-> 0, taken |-> FALSE, undone |-> FALSE, upTo |-> 0, textUpTo |-> 0,
                       beside |-> inFlight]
    <2>2. subs' = Append(subs, new) /\ over' = over
      BY <2>1 DEF Click
    <2>3. /\ new.pc = "snapshot" /\ new.text = 0 /\ new.notes = <<>> /\ new.upTo = 0
          /\ new.textUpTo = 0 /\ ~new.taken /\ new.beside = inFlight
      OBVIOUS
    <2> HIDE DEF new
    <2>4. DOMAIN subs' = 1..Len(subs) + 1
      BY <1>0, <2>2
    <2>5. CASE s \in 1..Len(subs)
      <3>1. subs'[s] = subs[s]
        BY <1>0, <2>2, <2>5
      <3> QED BY <1>0, <2>2, <2>5, <3>1 DEF Alike
    <2>6. CASE s = Len(subs) + 1
      <3>1. subs'[s] = new /\ s \notin DOMAIN subs
        BY <1>0, <2>2, <2>6
      <3> QED BY <2>3, <2>6, <3>1 DEF Clicked
    <2> QED BY <1>0, <2>4, <2>5, <2>6
  <1>3. CASE ChromeReceives
    <2>1. CASE Head(up).kind = "snapshot-result"
      <3>1. /\ subs' = [t \in DOMAIN subs |-> rider(t, Head(up))] /\ s \in DOMAIN subs
            /\ over' = over
        BY <1>0, <1>3, <2>1, Received
      <3>2. subs'[s] = rider(s, Head(up)) /\ subs[s] \in Submission
        BY <1>0, <3>1
      <3>3. CASE subs[s].pc # "snapshot"
        BY <3>1, <3>2, <3>3 DEF rider, Alike
      <3>4. CASE subs[s].pc = "snapshot"
        <4>1. subs'[s] = [subs[s] EXCEPT !.pc = "posting", !.text = input, !.notes = rows, !.doc = Head(up).doc,
                                         !.shows = Head(up).shows, !.upTo = arrived, !.textUpTo = typed]
          BY <3>2, <3>4 DEF rider
        <4>2. Rides(s)
          BY <1>3, <2>1, <3>2, <3>4, <4>1 DEF Rides, Submission
        <4> QED BY <3>1, <4>2
      <3> QED BY <3>3, <3>4
    <2>2. CASE Head(up).kind = "annotation-added"
      BY <1>0, <1>1, <1>3, <2>2, Received
    <2> QED BY <1>0, <1>3, <2>1, <2>2, Received
  \* One submission moves: it is enough to see what happens to it.
  <1>4. ASSUME NEW t \in DOMAIN subs, DOMAIN subs' = DOMAIN subs,
               \A r \in DOMAIN subs : r # t => subs'[r] = subs[r],
               GivenUp(t) \/ Arrived(t) \/ Landed(t) \/ Answered(t), over => over'
        PROVE  Goal
    <2>1. CASE s = t
      BY <1>4, <2>1
    <2>2. CASE s # t
      BY <1>4, <2>2 DEF Alike
    <2> QED BY <2>1, <2>2
  <1> HIDE DEF Goal
  <1>5. ASSUME NEW t \in DOMAIN subs, Break(t) \/ SnapshotTimesOut(t) PROVE Goal
    <2>1. /\ subs' = [subs EXCEPT ![t].pc = "failed"] /\ over' = over
          /\ subs[t].pc \in {"snapshot", "posting", "received", "ok", "refused"}
      BY <1>5 DEF Break, SnapshotTimesOut
    <2>2. GivenUp(t)
      BY <1>0, <2>1, PcMoves DEF GivenUp
    <2> QED BY <1>0, <1>4, <2>1, <2>2, PcMoves
  <1>6. ASSUME NEW t \in DOMAIN subs, Answer(t) PROVE Goal
    <2>1. CASE subs[t].pc = "refused"
      <3>1. subs' = [subs EXCEPT ![t].pc = "failed"] /\ over' = over
        BY <1>6, <2>1 DEF Answer
      <3>2. GivenUp(t)
        BY <1>0, <2>1, <3>1, PcMoves DEF GivenUp
      <3> QED BY <1>0, <1>4, <3>1, <3>2, PcMoves
    <2>2. CASE subs[t].pc = "ok"
      <3>1. subs' = [subs EXCEPT ![t].pc = "done"] /\ over' = over
        BY <1>6, <2>2 DEF Answer
      <3>2. Answered(t)
        BY <1>0, <1>6, <2>2, <3>1, PcMoves DEF Answered, Accepted
      <3> QED BY <1>0, <1>4, <3>1, <3>2, PcMoves
    <2> QED BY <1>6, <2>1, <2>2 DEF Answer
  <1>7. ASSUME NEW t \in DOMAIN subs, Arrive(t) PROVE Goal
    <2>1. PICK pc \in {"received", "ok", "refused"} :
            /\ subs' = [subs EXCEPT ![t].pc = pc] /\ over' = over /\ subs[t].pc = "posting"
            /\ pc = "received" => ~over
            /\ pc = "ok" => subs[t].kind = "sendEnd" /\ over
      BY <1>7 DEF Arrive
    <2>2. Arrived(t)
      BY <1>0, <2>1, PcMoves DEF Arrived
    <2> QED BY <1>0, <1>4, <2>1, <2>2, PcMoves
  <1>12. ASSUME NEW t \in DOMAIN subs, LandSend(t) \/ LandSendEnd(t) PROVE Goal
    <2>1. PICK pc \in {"ok", "refused"}, taken \in BOOLEAN :
            /\ subs' = [subs EXCEPT ![t].pc = pc, ![t].taken = taken] /\ subs[t].pc = "received"
            /\ over => over'
            /\ pc = "ok" => taken
            /\ pc = "ok" /\ subs[t].kind = "sendEnd" => over'
      <3>1. valid(t) \in BOOLEAN
        BY DEF valid, isValid
      <3>2. CASE LandSend(t)
        BY <3>1, <3>2 DEF LandSend
      <3>3. CASE LandSendEnd(t)
        BY <3>1, <3>3 DEF LandSendEnd
      <3> QED BY <1>12, <3>2, <3>3
    <2>2. /\ DOMAIN subs' = DOMAIN subs /\ \A r \in DOMAIN subs : r # t => subs'[r] = subs[r]
          /\ subs'[t] = [subs[t] EXCEPT !.pc = pc, !.taken = taken] /\ subs[t] \in Submission
      BY <1>0, <2>1
    <2>3. SameRider(t) /\ subs'[t].pc = pc /\ subs'[t].taken = taken
      BY <2>2 DEF SameRider, Submission
    <2>4. Landed(t)
      BY <2>1, <2>3 DEF Landed
    <2> QED BY <1>4, <2>1, <2>2, <2>4
  <1>13. CASE Reopens
    <2>1. s \in DOMAIN subs /\ subs[s] \in Submission
      BY <1>0, <1>13 DEF Reopens
    <2>2. subs'[s] = [subs[s] EXCEPT !.undone =
                        subs[s].undone \/ (subs[s].kind = "sendEnd" /\ subs[s].pc \in {"ok", "done"})]
      BY <1>13, <2>1 DEF Reopens
    <2>3. /\ subs'[s].undone = (subs[s].undone \/ (subs[s].kind = "sendEnd" /\ subs[s].pc \in {"ok", "done"}))
          /\ subs'[s].taken = subs[s].taken /\ subs'[s].pc = subs[s].pc
          /\ subs'[s].kind = subs[s].kind /\ subs'[s].text = subs[s].text /\ subs'[s].notes = subs[s].notes
          /\ subs'[s].doc = subs[s].doc /\ subs'[s].shows = subs[s].shows /\ subs'[s].upTo = subs[s].upTo
          /\ subs'[s].textUpTo = subs[s].textUpTo /\ subs'[s].beside = subs[s].beside
      BY <2>1, <2>2 DEF Submission
    <2>4. Undone(s)
      BY <2>3 DEF Undone, SameRider
    <2> QED BY <2>1, <2>4 DEF Goal
  <1>8. CASE Type \/ Erase \/ Toggle \/ ClickEnd \/ Capture \/ BreakEnd
    BY <1>1, <1>8 DEF Goal, Type, Erase, Toggle, ClickEnd, Capture, BreakEnd
  <1>9. CASE FrameReceives \/ Commit \/ SdkRuns \/ Load \/ ResetFires \/ HandleEnd \/ AgentEnds \/ applyEnded
    BY <1>1, <1>9 DEF Goal, FrameReceives, Commit, SdkRuns, Load, ResetFires, HandleEnd, AgentEnds, applyEnded
  <1>10. CASE (\E id \in DOMAIN origin : RemoveRow(id)) \/ \E to \in {"artifact", "bare"} : Leave(to)
    BY <1>1, <1>10 DEF Goal, RemoveRow, Leave
  <1>11. CASE UNCHANGED vars
    BY <1>1, <1>11 DEF Goal, vars
  <1> QED BY <1>2, <1>3, <1>5, <1>6, <1>7, <1>8, <1>9, <1>10, <1>11, <1>12, <1>13
          DEF Goal, Next, Human, Faults, Progress

------------------------------------------------------------------------------
(***************************************************************************)
(* What a step makes of the composer: new text and new rows come later     *)
(* than all that had come before.                                          *)
(***************************************************************************)
LEMMA InputStep ==
  ASSUME TypeInv, [Next]_vars
  PROVE  /\ input \in Nat /\ typed \in Nat /\ typed' \in Nat /\ typed <= typed'
         /\ \/ UNCHANGED <<input, typed>>
            \/ Type /\ input' > typed
            \/ Erase /\ input' = 0
            \/ input' = 0 /\ \E s \in DOMAIN subs : Accepted(s)
  <1>1. input \in Nat /\ typed \in Nat /\ typed <= typed + 1 /\ typed + 1 > typed
    BY DEF TypeInv, TypeOK
  <1>2. CASE Type
    BY <1>1, <1>2 DEF Type
  <1>3. CASE Erase
    BY <1>1, <1>3 DEF Erase
  <1>4. CASE \E s \in DOMAIN subs : Accepted(s)
    <2>1. input' = 0 /\ typed' = typed
      BY <1>4, AcceptedClears
    <2> QED BY <1>1, <1>4, <2>1
  <1>5. CASE \E s \in DOMAIN subs : Answer(s) /\ ~Accepted(s)
    <2>1. PICK s \in DOMAIN subs : Answer(s) /\ ~Accepted(s)
      BY <1>5
    <2>2. UNCHANGED <<input, typed>>
      BY <2>1 DEF Answer, Accepted, clear, fail, chromeVars
    <2> QED BY <1>1, <2>2
  <1>6. CASE ChromeReceives
    BY <1>1, <1>6, Received DEF TypeInv
  <1>7. CASE \E s \in DOMAIN subs :
               Break(s) \/ SnapshotTimesOut(s) \/ Arrive(s) \/ LandSend(s) \/ LandSendEnd(s)
    <2>1. UNCHANGED <<input, typed>>
      BY <1>7 DEF Break, SnapshotTimesOut, Arrive, LandSend, LandSendEnd, fail, chromeVars
    <2> QED BY <1>1, <2>1
  <1>8. CASE Toggle \/ ClickEnd \/ Capture \/ \E button \in {"send", "sendEnd"} : Click(button)
    BY <1>1, <1>8 DEF Toggle, ClickEnd, Capture, Click, chromeVars
  <1>9. CASE (\E id \in DOMAIN origin : RemoveRow(id)) \/ \E to \in {"artifact", "bare"} : Leave(to)
    BY <1>1, <1>9 DEF RemoveRow, Leave, chromeVars
  <1>10. CASE FrameReceives \/ Commit \/ SdkRuns \/ Load \/ BreakEnd \/ ResetFires
    BY <1>1, <1>10 DEF FrameReceives, Commit, SdkRuns, Load, BreakEnd, ResetFires, chromeVars
  <1>11. CASE HandleEnd \/ AgentEnds \/ Reopens \/ applyEnded
    <2>1. UNCHANGED <<input, typed>>
      BY <1>11 DEF HandleEnd, AgentEnds, Reopens, applyEnded, chromeVars
    <2> QED BY <1>1, <2>1
  <1>12. CASE UNCHANGED vars
    BY <1>1, <1>12 DEF vars
  <1> QED BY <1>2, <1>3, <1>4, <1>5, <1>6, <1>7, <1>8, <1>9, <1>10, <1>11, <1>12
          DEF Next, Human, Faults, Progress

\* The rows.
LEMMA RowsStep ==
  ASSUME TypeInv, [Next]_vars
  PROVE  /\ arrived \in Nat /\ arrived' \in Nat /\ arrived <= arrived'
         /\ \/ UNCHANGED rows
            \/ \E id \in DOMAIN origin : RemoveRow(id) /\ Range(rows') \subseteq Range(rows)
            \/ ChromeReceives /\ Range(rows') = Range(rows) \union {arrived + 1}
            \/ rows' = <<>> /\ \E s \in DOMAIN subs : Accepted(s)
  <1>1. arrived \in Nat /\ arrived' \in Nat
    <2>1. arrived \in Nat
      BY ArrivedType DEF TypeInv
    <2>2. Len(onTheirWay') \in Nat /\ Len(origin') \in Nat /\ Len(onTheirWay') <= Len(origin')
      BY TypeInvStep, OnTheirWay, AddsType DEF TypeInv, TypeOK, Arrivals
    <2>3. arrived' = Len(origin') - Len(onTheirWay')
      BY DEF arrived
    <2> QED BY <2>1, <2>2, <2>3
  \* What is on its way and what was captured stays, or both grow by one.
  <1>2. ASSUME Ids(up') = Ids(up), origin' = origin PROVE arrived' = arrived
    BY <1>2, OnTheirWay DEF arrived
  <1>3. CASE UNCHANGED bridge
    BY <1>1, <1>2, <1>3 DEF bridge
  <1>4. ASSUME NEW id \in DOMAIN origin, RemoveRow(id)
        PROVE  arrived' = arrived /\ Range(rows') \subseteq Range(rows)
    <2>1. rows \in Seq(Nat) /\ rows' = Only(rows, Nat \ {id}) /\ UNCHANGED <<up, origin>>
      BY <1>4 DEF RemoveRow, without, TypeInv, TypeOK, frameVars
    <2>2. Range(rows') = Range(rows) \intersect (Nat \ {id})
      BY <2>1, OnlyRange
    <2> QED BY <1>2, <2>1, <2>2
  <1>5. CASE Toggle \/ Load \/ \E button \in {"send", "sendEnd"} : Click(button)
    BY <1>1, <1>2, <1>5, OtherDown DEF TypeInv
  <1>6. CASE Capture
    <2>1. /\ onTheirWay' = Append(onTheirWay, Len(origin) + 1) /\ onTheirWay \in Seq(Nat)
          /\ origin' = Append(origin, doc) /\ rows' = rows
      BY <1>6, Captured
    <2>2. origin \in Seq(1..doc) /\ Len(origin) \in Nat /\ Len(onTheirWay) \in Nat
      BY <2>1 DEF TypeInv, TypeOK
    <2>3. Len(onTheirWay') = Len(onTheirWay) + 1 /\ Len(origin') = Len(origin) + 1
      BY <2>1, <2>2
    <2>4. arrived' = arrived
      BY <2>2, <2>3 DEF arrived
    <2> QED BY <1>1, <2>1, <2>4
  <1>7. CASE FrameReceives
    BY <1>1, <1>2, <1>7, FrameAnswers DEF TypeInv
  <1>8. CASE Commit \/ SdkRuns
    BY <1>1, <1>2, <1>8 DEF Commit, SdkRuns, chromeVars
  <1>9. CASE ChromeReceives
    <2>1. CASE Head(up).kind = "annotation-added"
      <3>1. rows' = Append(rows, arrived + 1) /\ arrived + 1 \in Nat /\ arrived' = arrived + 1
        BY <1>9, <2>1, NoteArrives
      <3>2. rows \in Seq(Nat)
        BY DEF TypeInv, TypeOK
      <3> DEFINE id == arrived + 1
      <3>3. id \in Nat /\ rows' = Append(rows, id)
        BY <3>1
      <3> HIDE DEF id
      <3>4. Range(Append(rows, id)) = Range(rows) \union {id}
        BY <3>2, <3>3, AppendRange
      <3>5. Range(rows') = Range(rows) \union {arrived + 1}
        BY <3>3, <3>4 DEF id
      <3>6. arrived <= arrived'
        BY <1>1, <3>1
      <3> QED BY <1>1, <1>9, <3>5, <3>6
    <2>2. CASE Head(up).kind = "snapshot-result"
      <3>1. Ids(up') = Ids(up) /\ rows' = rows /\ origin' = origin
        BY <1>9, <2>2, Received, IdsHead DEF TypeInv, TypeOK
      <3> QED BY <1>1, <1>2, <3>1
    <2> QED BY <1>9, <2>1, <2>2, Received DEF TypeInv
  <1>10. ASSUME NEW s \in DOMAIN subs, Accepted(s) PROVE rows' = <<>> /\ arrived' = arrived
    BY <1>2, <1>10, AcceptedClears
  <1> QED BY <1>1, <1>3, <1>4, <1>5, <1>6, <1>7, <1>8, <1>9, <1>10, Quiet

\* In short.
LEMMA Growth ==
  ASSUME TypeInv, [Next]_vars
  PROVE  /\ arrived \in Nat /\ arrived' \in Nat /\ arrived <= arrived'
         /\ typed \in Nat /\ typed' \in Nat /\ typed <= typed'
         /\ input \in Nat /\ (input' \in {input, 0} \/ input' > typed)
         /\ \A id \in Range(rows') : id \in Range(rows) \/ id > arrived
         /\ \A id \in Range(rows) : id \in Nat /\ id >= 1 /\ id <= arrived
  <1>1. rows' = <<>> => Range(rows') = {}
    BY DEF Range
  <1>2. \A id \in Range(rows) : id \in Nat /\ id >= 1 /\ id <= arrived
    BY RowsStep DEF TypeInv, Arrivals
  <1>3. arrived + 1 > arrived
    BY RowsStep
  <1>4. \A id \in Range(rows') : id \in Range(rows) \/ id > arrived
    BY <1>1, <1>3, RowsStep
  <1> QED BY <1>2, <1>4, InputStep, RowsStep

\* An annotation on its way was captured.
LEMMA AddsCaptured ==
  ASSUME TypeOK, Arrivals
  PROVE  \A i \in 1..Len(up) : up[i].kind = "annotation-added" => up[i].id \in DOMAIN origin
  <1> DEFINE a == Only(up, Adding)
  <1>1. up \in Seq(BridgeMessage) /\ DOMAIN origin = 1..Len(origin) /\ Len(origin) \in Nat
    BY DEF TypeOK
  <1>2. Range(a) = Range(up) \intersect Adding /\ DOMAIN onTheirWay = DOMAIN a
        /\ \A n \in DOMAIN a : onTheirWay[n] = a[n].id
    BY <1>1, OnlyRange DEF onTheirWay
  <1>3. DOMAIN a = 1..Len(onTheirWay)
    BY <1>1, <1>2, AddsType, OnTheirWay
  <1>4. \A n \in 1..Len(onTheirWay) : onTheirWay[n] \in DOMAIN origin
    <2>1. \A n \in 1..Len(onTheirWay) : arrived + n \in 1..Len(origin)
      BY <1>1, ArrivedType DEF arrived
    <2> QED BY <1>1, <2>1 DEF Arrivals
  <1> HIDE DEF a
  <1>5. ASSUME NEW i \in 1..Len(up), up[i].kind = "annotation-added"
        PROVE  up[i].id \in DOMAIN origin
    <2>1. up[i] \in Adding /\ up[i] \in Range(up)
      BY <1>1, <1>5, Kinds DEF Range
    <2>2. PICK n \in DOMAIN a : a[n] = up[i]
      BY <1>2, <2>1 DEF Range
    <2> QED BY <1>2, <1>3, <1>4, <2>2
  <1> QED BY <1>5

------------------------------------------------------------------------------
(***************************************************************************)
(* A snapshot is not older than what it is sent with: nothing that is or   *)
(* was before it on the way up, and no row, is of a later document or was  *)
(* captured after it was serialised.                                       *)
(***************************************************************************)
Covers(o, d, n, id) == id \in DOMAIN o /\ o[id] <= d /\ id <= n

CoverInv ==
  /\ \A s \in DOMAIN subs : \A id \in Range(subs[s].notes) : Covers(origin, subs[s].doc, subs[s].shows, id)
  /\ \A j \in DOMAIN up : up[j].kind = "snapshot-result" =>
       /\ \A id \in Range(rows) : Covers(origin, up[j].doc, up[j].shows, id)
       /\ \A i \in 1..(j - 1) :
             up[i].kind = "annotation-added" => Covers(origin, up[j].doc, up[j].shows, up[i].id)

\* There is no snapshot yet.
LEMMA CoverInit == Init => CoverInv
  BY DEF Init, CoverInv

\* What a document covers it goes on covering: a history only grows.
LEMMA CoversOn ==
  ASSUME TypeInv, [Next]_vars, NEW d \in Nat, NEW n \in Nat, NEW id, Covers(origin, d, n, id)
  PROVE  Covers(origin', d, n, id)
  <1>1. CASE origin' = origin
    BY <1>1 DEF Covers
  <1>2. CASE Capture
    <2>1. id \in DOMAIN origin' /\ origin'[id] = origin[id]
      BY <1>2, Captured DEF Covers
    <2> QED BY <2>1 DEF Covers
  <1>3. origin' = origin \/ Capture
    <2>1. CASE UNCHANGED bridge
      BY <2>1 DEF bridge
    <2>2. CASE Toggle \/ Load \/ (\E button \in {"send", "sendEnd"} : Click(button)) \/ FrameReceives
      BY <2>2, OtherDown, FrameAnswers DEF TypeInv
    <2>3. CASE (\E i \in DOMAIN origin : RemoveRow(i)) \/ Commit \/ SdkRuns
      BY <2>3 DEF RemoveRow, Commit, SdkRuns, frameVars
    <2>4. CASE ChromeReceives \/ \E s \in DOMAIN subs : Accepted(s)
      BY <2>4, Received, AcceptedClears DEF TypeInv
    <2> QED BY <2>1, <2>2, <2>3, <2>4, Quiet
  <1> QED BY <1>1, <1>2, <1>3

\* A new snapshot is of the newest document; what comes between it and the chrome came before it.
LEMMA CoverStep == TypeInv /\ CoverInv /\ [Next]_vars => CoverInv'
  <1> SUFFICES ASSUME TypeInv, CoverInv, [Next]_vars PROVE CoverInv'
    OBVIOUS
  <1>0. /\ doc \in Nat /\ origin \in Seq(1..doc) /\ DOMAIN origin = 1..Len(origin) /\ Len(origin) \in Nat
        /\ up \in Seq(BridgeMessage) /\ DOMAIN up = 1..Len(up) /\ Len(up) \in Nat
        /\ subs \in Seq(Submission) /\ arrived \in Nat /\ arrived <= Len(origin)
    BY ArrivedType DEF TypeInv, TypeOK
  \* The riders.
  <1>1. ASSUME NEW s \in DOMAIN subs', NEW id \in Range(subs'[s].notes)
        PROVE  Covers(origin', subs'[s].doc, subs'[s].shows, id)
    <2>1. CASE s \notin DOMAIN subs
      <3>1. subs'[s].notes = <<>>
        BY <2>1, Fate DEF Clicked
      <3> QED BY <1>1, <3>1 DEF Range
    <2>2. CASE /\ s \in DOMAIN subs /\ subs'[s].notes = subs[s].notes /\ subs'[s].doc = subs[s].doc
               /\ subs'[s].shows = subs[s].shows
      <3> DEFINE d == subs[s].doc
                 n == subs[s].shows
      <3>1. d \in Nat /\ n \in Nat
        <4>1. subs[s] \in Submission
          BY <1>0, <2>2
        <4> QED BY <4>1 DEF Submission
      <3>2. Covers(origin, d, n, id)
        BY <1>1, <2>2 DEF CoverInv
      <3> HIDE DEF d, n
      <3>3. Covers(origin', d, n, id)
        BY <3>1, <3>2, CoversOn
      <3> QED BY <2>2, <3>3 DEF d, n
    <2>3. CASE s \in DOMAIN subs /\ Rides(s)
      <3>1. /\ subs'[s].notes = rows /\ subs'[s].doc = Head(up).doc /\ up # <<>>
            /\ subs'[s].shows = Head(up).shows
            /\ Head(up).kind = "snapshot-result" /\ Head(up) = up[1] /\ 1 \in DOMAIN up
            /\ origin' = origin
        BY <1>0, <2>3, Received DEF Rides, TypeInv
      <3>2. Covers(origin, Head(up).doc, Head(up).shows, id)
        BY <1>1, <3>1 DEF CoverInv
      <3> QED BY <3>1, <3>2 DEF Covers
    <2>4. CASE s \in DOMAIN subs /\ (\/ Alike(s) \/ GivenUp(s) \/ Arrived(s) \/ Landed(s)
                                    \/ Answered(s) \/ Undone(s))
      BY <2>2, <2>4 DEF Alike, GivenUp, Arrived, Landed, Answered, Undone, SameRider
    <2> QED BY <2>1, <2>3, <2>4, Fate
  \* The snapshots under way: those that were, and the rows they cover.
  <1>2. ASSUME NEW j \in DOMAIN up', up'[j].kind = "snapshot-result"
        PROVE  /\ \A id \in Range(rows') : Covers(origin', up'[j].doc, up'[j].shows, id)
               /\ \A i \in 1..(j - 1) : up'[i].kind = "annotation-added"
                                          => Covers(origin', up'[j].doc, up'[j].shows, up'[i].id)
    <2> DEFINE Goal == /\ \A id \in Range(rows') : Covers(origin', up'[j].doc, up'[j].shows, id)
                       /\ \A i \in 1..(j - 1) : up'[i].kind = "annotation-added"
                                                  => Covers(origin', up'[j].doc, up'[j].shows, up'[i].id)
           \* Nothing is before it that was not before the k-th message, and no new row.
           RowsFrom(k) == \A id \in Range(rows') :
              id \in Range(rows) \/ \E h \in 1..(k - 1) : up[h].kind = "annotation-added" /\ up[h].id = id
           NotesFrom(k) == \A i \in 1..(j - 1) :
              up'[i].kind = "annotation-added" => \E h \in 1..(k - 1) : up'[i] = up[h]
    <2> SUFFICES Goal
      BY DEF Goal
    <2> HIDE DEF Goal, RowsFrom, NotesFrom
    <2>1. ASSUME NEW k \in DOMAIN up, up'[j] = up[k], RowsFrom(k), NotesFrom(k)
          PROVE  Goal
      <3>1. PICK d \in Nat, n \in Nat : d = up[k].doc /\ n = up[k].shows
        BY <1>0, <1>2, <2>1, Kinds
      <3>2. /\ \A id \in Range(rows) : Covers(origin, d, n, id)
            /\ \A h \in 1..(k - 1) : up[h].kind = "annotation-added" => Covers(origin, d, n, up[h].id)
        BY <1>2, <2>1, <3>1 DEF CoverInv
      <3>3. \A id : Covers(origin, d, n, id) => Covers(origin', d, n, id)
        BY CoversOn
      <3>4. \A id \in Range(rows') : Covers(origin', d, n, id)
        BY <2>1, <3>2, <3>3 DEF RowsFrom
      <3>5. ASSUME NEW i \in 1..(j - 1), up'[i].kind = "annotation-added" PROVE Covers(origin', d, n, up'[i].id)
        <4>1. PICK h \in 1..(k - 1) : up'[i] = up[h]
          BY <2>1, <3>5 DEF NotesFrom
        <4>2. Covers(origin, d, n, up[h].id)
          BY <3>2, <3>5, <4>1
        <4> QED BY <3>3, <4>1, <4>2
      <3>7. up'[j].doc = d /\ up'[j].shows = n
        BY <2>1, <3>1
      <3> QED BY <3>4, <3>5, <3>7 DEF Goal
    <2>2. CASE up' = up /\ \A id \in Range(rows') : id \in Range(rows)
      <3>1. j \in DOMAIN up /\ up'[j] = up[j]
        BY <2>2
      <3>2. RowsFrom(j)
        BY <2>2 DEF RowsFrom
      <3>3. NotesFrom(j)
        BY <2>2 DEF NotesFrom
      <3> QED BY <2>1, <3>1, <3>2, <3>3
    <2>3. CASE Capture
      <3>1. up' = Append(up, [kind |-> "annotation-added", id |-> Len(origin) + 1]) /\ rows' = rows
        BY <2>3, Captured
      <3>2. \A i \in 1..Len(up) : up'[i] = up[i]
        BY <1>0, <3>1
      <3>3. j \in 1..Len(up)
        <4>1. j \in 1..Len(up) + 1 /\ up'[Len(up) + 1].kind = "annotation-added"
          BY <1>0, <3>1
        <4> QED BY <1>0, <1>2, <4>1
      <3>4. \A i \in 1..(j - 1) : i \in 1..Len(up)
        BY <1>0, <3>3
      <3>5. RowsFrom(j)
        BY <3>1 DEF RowsFrom
      <3>6. NotesFrom(j)
        BY <3>2, <3>4 DEF NotesFrom
      <3>7. j \in DOMAIN up /\ up'[j] = up[j]
        BY <1>0, <3>2, <3>3
      <3> QED BY <2>1, <3>5, <3>6, <3>7
    <2>4. CASE FrameReceives /\ up' # up
      <3> DEFINE m == [kind |-> "snapshot-result", doc |-> doc, shows |-> Len(origin)]
      <3>1. up' = Append(up, m) /\ rows' = rows /\ origin' = origin
        BY <2>4, FrameAnswers DEF TypeInv
      <3>2. \A i \in 1..Len(up) : up'[i] = up[i]
        BY <1>0, <3>1
      <3>3. j \in 1..Len(up) + 1 /\ up'[Len(up) + 1] = m /\ m.doc = doc /\ m.shows = Len(origin)
        BY <1>0, <3>1
      <3>4. CASE j \in 1..Len(up)
        <4>1. \A i \in 1..(j - 1) : i \in 1..Len(up)
          BY <1>0, <3>4
        <4>2. RowsFrom(j)
          BY <3>1 DEF RowsFrom
        <4>3. NotesFrom(j)
          BY <3>2, <4>1 DEF NotesFrom
        <4>4. j \in DOMAIN up /\ up'[j] = up[j]
          BY <1>0, <3>2, <3>4
        <4> QED BY <2>1, <4>2, <4>3, <4>4
      <3>5. CASE j = Len(up) + 1
        <4>1. \A id \in DOMAIN origin : Covers(origin, doc, Len(origin), id)
          BY <1>0 DEF Covers
        <4>2. \A id \in Range(rows) : id \in DOMAIN origin
          BY <1>0 DEF TypeInv, Arrivals
        <4>3. \A i \in 1..Len(up) : up[i].kind = "annotation-added" => up[i].id \in DOMAIN origin
          BY <1>0, AddsCaptured DEF TypeInv
        <4>4. up'[j].doc = doc /\ up'[j].shows = Len(origin) /\ \A i \in 1..(j - 1) : i \in 1..Len(up)
          BY <1>0, <3>3, <3>5
        <4> QED BY <3>1, <3>2, <4>1, <4>2, <4>3, <4>4 DEF Goal, Covers
      <3> QED BY <1>0, <3>3, <3>4, <3>5
    <2>5. CASE ChromeReceives
      <3>1. up # <<>> /\ up' = Tail(up) /\ Head(up) = up[1]
        BY <1>0, <2>5, Received DEF TypeInv
      <3>2. \A i \in DOMAIN up' : up'[i] = up[i + 1] /\ i + 1 \in DOMAIN up /\ i \in Nat /\ i >= 1
        BY <1>0, <3>1
      <3> DEFINE k == j + 1
      <3>3. k \in Nat /\ k - 1 = j /\ k \in DOMAIN up /\ up'[j] = up[k] /\ j \in Nat /\ j >= 1
        BY <3>2
      <3> HIDE DEF k
      <3>4. \A id \in Range(rows') :
               \/ id \in Range(rows)
               \/ \E h \in 1..(k - 1) : up[h].kind = "annotation-added" /\ up[h].id = id
        <4>1. CASE Head(up).kind = "annotation-added"
          <5>1. Range(rows') = Range(rows) \union {Head(up).id}
            <6>1. rows' = Append(rows, Head(up).id) /\ Head(up).id \in Nat /\ rows \in Seq(Nat)
              BY <2>5, <4>1, NoteArrives DEF TypeInv, TypeOK
            <6> QED BY <6>1, AppendRange
          <5>2. 1 \in 1..(k - 1)
            BY <3>3
          <5> QED BY <3>1, <4>1, <5>1, <5>2
        <4>2. CASE Head(up).kind = "snapshot-result"
          BY <2>5, <4>2, Received DEF TypeInv
        <4> QED BY <2>5, <4>1, <4>2, Received DEF TypeInv
      <3>5. \A i \in 1..(j - 1) : \E h \in 1..(k - 1) : up'[i] = up[h]
        <4> SUFFICES ASSUME NEW i \in 1..(j - 1) PROVE \E h \in 1..(k - 1) : up'[i] = up[h]
          OBVIOUS
        <4>1. i \in DOMAIN up'
          <5>1. DOMAIN up' = 1..Len(up) - 1
            BY <1>0, <3>1
          <5> QED BY <1>0, <5>1
        <4>2. i + 1 \in 1..(k - 1)
          BY <3>3
        <4> QED BY <3>2, <4>1, <4>2
      <3>6. RowsFrom(k)
        BY <3>4 DEF RowsFrom
      <3>7. NotesFrom(k)
        BY <3>5 DEF NotesFrom
      <3> QED BY <2>1, <3>6, <3>7, <3>3
    <2>6. CASE UNCHANGED bridge
      BY <2>2, <2>6 DEF bridge
    <2>7. CASE Toggle \/ Load \/ (\E button \in {"send", "sendEnd"} : Click(button))
                \/ (FrameReceives /\ up' = up)
      BY <2>2, <2>7, OtherDown, FrameAnswers DEF TypeInv
    <2>8. CASE Commit \/ SdkRuns
      BY <2>2, <2>8 DEF Commit, SdkRuns, chromeVars
    <2>9. ASSUME NEW id \in DOMAIN origin, RemoveRow(id) PROVE Goal
      <3>1. up' = up
        BY <2>9 DEF RemoveRow
      <3>2. rows \in Seq(Nat) /\ rows' = Only(rows, Nat \ {id})
        BY <2>9 DEF RemoveRow, without, TypeInv, TypeOK
      <3>3. Range(rows') = Range(rows) \intersect (Nat \ {id})
        BY <3>2, OnlyRange
      <3>4. \A i \in Range(rows') : i \in Range(rows)
        BY <3>3
      <3> QED BY <2>2, <3>1, <3>4
    <2>10. ASSUME NEW s \in DOMAIN subs, Accepted(s) PROVE Goal
      <3>1. up' = up /\ rows' = <<>>
        BY <2>10, AcceptedClears
      <3>2. Range(rows') = {}
        BY <3>1 DEF Range
      <3>3. \A i \in Range(rows') : i \in Range(rows)
        BY <3>2
      <3> QED BY <2>2, <3>1, <3>3
    <2>11. CASE FrameReceives
      BY <2>4, <2>7, <2>11
    <2> QED BY <2>3, <2>5, <2>6, <2>7, <2>8, <2>9, <2>10, <2>11, Quiet
  <1> QED BY <1>1, <1>2 DEF CoverInv, Covers

(***************************************************************************)
(* A snapshot was serialised after all the annotations it is sent with had *)
(* been captured, in its document or in an earlier one.                    *)
(***************************************************************************)
THEOREM SnapshotsAreFresh == Spec => []NotesPredateSnapshot
  <1>1. CoverInv => NotesPredateSnapshot
    BY DEF CoverInv, Covers, NotesPredateSnapshot, Range
  <1> QED BY <1>1, TypeInit, TypeInvStep, CoverInit, CoverStep, PTL DEF Spec

------------------------------------------------------------------------------
(***************************************************************************)
(* A rider against the composer: what had come when it was taken is in it, *)
(* or has gone from the composer since.                                    *)
(***************************************************************************)
RiderHolds(s) ==
  /\ \A id \in Range(subs[s].notes) : id \in Nat /\ id >= 1 /\ id <= subs[s].upTo
  /\ subs[s].text <= subs[s].textUpTo /\ subs[s].upTo <= arrived /\ subs[s].textUpTo <= typed
  /\ \A id \in Range(rows) : id <= subs[s].upTo => id \in Range(subs[s].notes)
  /\ input <= subs[s].textUpTo => input \in {0, subs[s].text}
  /\ subs[s].kind = "send" /\ subs[s].pc = "ok" => subs[s].taken

RiderInv == \A s \in DOMAIN subs : RiderHolds(s)

\* There is no rider yet.
LEMMA RiderInit == Init => RiderInv
  BY DEF Init, RiderInv

\* The fields of a submission.
LEMMA SubTypes ==
  ASSUME TypeOK, NEW s \in DOMAIN subs
  PROVE  /\ subs[s].text \in Nat /\ subs[s].upTo \in Nat /\ subs[s].textUpTo \in Nat
         /\ subs[s].notes \in Seq(Nat) /\ subs[s].kind \in {"send", "sendEnd"}
         /\ subs[s].taken \in BOOLEAN /\ subs[s].undone \in BOOLEAN
         /\ subs[s].pc \in Pc
  <1>1. subs[s] \in Submission
    BY DEF TypeOK
  <1> QED BY <1>1 DEF Submission

\* A rider keeps what it holds, and what comes into the composer is newer.
LEMMA RiderStep == TypeInv /\ RiderInv /\ [Next]_vars => RiderInv'
  <1> SUFFICES ASSUME TypeInv, RiderInv, [Next]_vars, NEW s \in DOMAIN subs'
               PROVE  RiderHolds(s)'
    BY DEF RiderInv
  <1> DEFINE n == subs'[s]
  <1>0. /\ arrived \in Nat /\ arrived' \in Nat /\ arrived <= arrived'
        /\ typed \in Nat /\ typed' \in Nat /\ typed <= typed'
        /\ input \in Nat /\ (input' \in {input, 0} \/ input' > typed)
        /\ \A id \in Range(rows') : id \in Range(rows) \/ id > arrived
        /\ \A id \in Range(rows) : id \in Nat /\ id >= 1 /\ id <= arrived
    BY Growth
  <1>1. input' \in Nat /\ \A id \in Range(rows') : id \in Nat /\ id >= 1 /\ id <= arrived'
    <2>1. TypeInv'
      BY TypeInvStep
    <2>2. input' \in 0..typed' /\ \A id \in Range(rows') : id \in 1..arrived'
      BY <2>1 DEF TypeInv, TypeOK, Arrivals
    <2> QED BY <1>0, <2>2
  <1>2. ASSUME s \in DOMAIN subs, SameRider(s),
               n.kind = "send" /\ n.pc = "ok" => n.taken
        PROVE  RiderHolds(s)'
    <2>1. RiderHolds(s) /\ subs[s].text \in Nat /\ subs[s].upTo \in Nat /\ subs[s].textUpTo \in Nat
      BY <1>2, SubTypes DEF RiderInv, TypeInv
    <2>2. /\ n.text = subs[s].text /\ n.notes = subs[s].notes /\ n.upTo = subs[s].upTo
          /\ n.textUpTo = subs[s].textUpTo
      BY <1>2 DEF SameRider
    <2> HIDE DEF n
    <2>3. n.upTo <= arrived' /\ n.textUpTo <= typed'
      BY <1>0, <2>1, <2>2 DEF RiderHolds
    <2>4. \A id \in Range(rows') : id <= n.upTo => id \in Range(n.notes)
      BY <1>0, <1>1, <2>1, <2>2 DEF RiderHolds
    <2>5. n.textUpTo >= input' => input' \in {0, n.text}
      BY <1>0, <1>1, <2>1, <2>2 DEF RiderHolds
    <2>6. input' <= n.textUpTo => input' \in {0, n.text}
      BY <1>1, <2>1, <2>2, <2>5
    <2>7. /\ \A id \in Range(n.notes) : id \in Nat /\ id >= 1 /\ id <= n.upTo
          /\ n.text <= n.textUpTo
      BY <2>1, <2>2 DEF RiderHolds
    <2> QED BY <1>2, <2>3, <2>4, <2>6, <2>7 DEF RiderHolds, n
  <1>3. CASE s \notin DOMAIN subs
    <2>1. /\ n.pc = "snapshot" /\ n.text = 0 /\ n.notes = <<>> /\ n.upTo = 0 /\ n.textUpTo = 0
      BY <1>3, Fate DEF Clicked
    <2>2. Range(n.notes) = {}
      BY <2>1 DEF Range
    <2> HIDE DEF n
    <2>3. /\ n.text <= n.textUpTo /\ n.upTo <= arrived' /\ n.textUpTo <= typed'
          /\ \A id \in Range(rows') : ~(id <= n.upTo)
          /\ input' <= n.textUpTo => input' = 0
      BY <1>0, <1>1, <2>1
    <2> QED BY <2>1, <2>2, <2>3 DEF RiderHolds, n
  <1>4. CASE s \in DOMAIN subs /\ Rides(s)
    <2>1. /\ n.pc = "posting" /\ n.text = input /\ n.notes = rows /\ n.upTo = arrived /\ n.textUpTo = typed
          /\ rows' = rows /\ input' = input
      BY <1>4, Received DEF Rides, TypeInv
    <2>2. input <= typed
      BY DEF TypeInv, TypeOK
    <2> HIDE DEF n
    <2>3. /\ \A id \in Range(n.notes) : id \in Nat /\ id >= 1 /\ id <= n.upTo
          /\ n.text <= n.textUpTo /\ n.upTo <= arrived' /\ n.textUpTo <= typed'
          /\ \A id \in Range(rows') : id <= n.upTo => id \in Range(n.notes)
          /\ input' <= n.textUpTo => input' \in {0, n.text}
      BY <1>0, <2>1, <2>2
    <2> QED BY <2>1, <2>3 DEF RiderHolds, n
  <1>5. CASE s \in DOMAIN subs /\ (Alike(s) \/ Undone(s))
    <2>1. RiderHolds(s)
      BY <1>5 DEF RiderInv
    <2> QED BY <1>2, <1>5, <2>1 DEF SameRider, RiderHolds, Alike, Undone
  <1>6. CASE s \in DOMAIN subs /\ (GivenUp(s) \/ Answered(s))
    BY <1>2, <1>6 DEF GivenUp, Answered
  <1>7. CASE s \in DOMAIN subs /\ (Arrived(s) \/ Landed(s))
    BY <1>2, <1>7 DEF Arrived, Landed, SameRider
  <1> QED BY <1>3, <1>4, <1>5, <1>6, <1>7, Fate

(***************************************************************************)
(* The composer is emptied only of what was taken, or of what came after   *)
(* the rider of the Send that empties it.                                  *)
(***************************************************************************)
LEMMA LossStep == TypeInv /\ RiderInv /\ [Next]_vars =>
  \/ humanEdits
  \/ input' = input /\ Range(rows) \subseteq Range(rows')
  \/ \E s \in DOMAIN subs :
       /\ subs[s].kind = "send" /\ subs[s].pc = "ok" /\ subs'[s].pc = "done"
       /\ \A id \in Range(rows) : id \in sentNotes \/ id > subs[s].upTo
       /\ input \in sentTexts \union {0} \/ input > subs[s].textUpTo
  <1> SUFFICES ASSUME TypeInv, RiderInv, [Next]_vars, ~humanEdits,
                      ~(input' = input /\ Range(rows) \subseteq Range(rows'))
               PROVE  \E s \in DOMAIN subs :
                        /\ subs[s].kind = "send" /\ subs[s].pc = "ok" /\ subs'[s].pc = "done"
                        /\ \A id \in Range(rows) : id \in sentNotes \/ id > subs[s].upTo
                        /\ input \in sentTexts \union {0} \/ input > subs[s].textUpTo
    OBVIOUS
  <1>1. PICK s \in DOMAIN subs : Accepted(s)
    BY InputStep, RowsStep DEF humanEdits
  <1>2. subs[s].kind = "send" /\ subs[s].pc = "ok" /\ subs'[s].pc = "done"
    <2>1. subs' = [subs EXCEPT ![s].pc = "done"] /\ TypeOK
      BY <1>1 DEF Accepted, Answer, TypeInv
    <2> QED BY <1>1, <2>1, PcMoves DEF Accepted
  <1>3. RiderHolds(s) /\ subs[s].taken /\ s \in takenSubs
    BY <1>2 DEF RiderInv, RiderHolds, takenSubs
  <1>4. subs[s].upTo \in Nat /\ subs[s].textUpTo \in Nat /\ input \in Nat
    BY SubTypes DEF TypeInv, TypeOK
  <1>5. ASSUME NEW id \in Range(rows) PROVE id \in sentNotes \/ id > subs[s].upTo
    <2>1. id \in Nat
      BY Growth
    <2>2. CASE id <= subs[s].upTo
      BY <1>3, <2>2 DEF RiderHolds, sentNotes
    <2> QED BY <1>4, <2>1, <2>2
  <1>6. input \in sentTexts \union {0} \/ input > subs[s].textUpTo
    <2>1. CASE input <= subs[s].textUpTo
      BY <1>3, <2>1 DEF RiderHolds, sentTexts
    <2> QED BY <1>4, <2>1
  <1> QED BY <1>2, <1>5, <1>6

(***************************************************************************)
(* What the human typed or captured leaves the composer by the human's own *)
(* hand, when the daemon has taken it, or, the known exception, with an    *)
(* answered Send whose rider was taken before it came.                     *)
(***************************************************************************)
THEOREM NothingIsLostAlone == Spec => LossNeedsOverlap
  <1> DEFINE Inv == TypeInv /\ RiderInv
  <1>1. Init => Inv
    BY TypeInit, RiderInit
  <1>2. Inv /\ [Next]_vars => Inv'
    BY TypeInvStep, RiderStep
  <1>3. Inv /\ [Next]_vars =>
          [\/ humanEdits
           \/ input' = input /\ Range(rows) \subseteq Range(rows')
           \/ \E s \in DOMAIN subs :
                /\ subs[s].kind = "send" /\ subs[s].pc = "ok" /\ subs'[s].pc = "done"
                /\ \A id \in Range(rows) : id \in sentNotes \/ id > subs[s].upTo
                /\ input \in sentTexts \union {0} \/ input > subs[s].textUpTo]_vars
    BY LossStep
  <1> HIDE DEF Inv
  <1> QED BY <1>1, <1>2, <1>3, PTL DEF Spec, LossNeedsOverlap

------------------------------------------------------------------------------
(***************************************************************************)
(* An accepted Send & end has ended the session, until that is undone.     *)
(***************************************************************************)
EndInv ==
  \A s \in DOMAIN subs :
    subs[s].kind = "sendEnd" /\ subs[s].pc \in {"ok", "done"} => over \/ subs[s].undone

LEMMA EndInit == Init => EndInv
  BY DEF Init, EndInv

LEMMA EndStep == TypeInv /\ EndInv /\ [Next]_vars => EndInv'
  <1> SUFFICES ASSUME TypeInv, EndInv, [Next]_vars, NEW s \in DOMAIN subs',
                      subs'[s].kind = "sendEnd", subs'[s].pc \in {"ok", "done"}
               PROVE  over' \/ subs'[s].undone
    BY DEF EndInv
  <1>1. CASE s \notin DOMAIN subs
    BY <1>1, Fate DEF Clicked
  <1>2. CASE s \in DOMAIN subs /\ (Alike(s) \/ Answered(s))
    BY <1>2 DEF EndInv, Alike, Answered, SameRider
  <1>3. CASE s \in DOMAIN subs /\ (Arrived(s) \/ Landed(s))
    BY <1>3 DEF Arrived, Landed, SameRider
  <1>4. CASE s \in DOMAIN subs /\ (Rides(s) \/ GivenUp(s))
    BY <1>4 DEF Rides, GivenUp
  <1>5. CASE s \in DOMAIN subs /\ Undone(s)
    BY <1>5 DEF Undone, SameRider
  <1> QED BY <1>1, <1>2, <1>3, <1>4, <1>5, Fate

------------------------------------------------------------------------------
(***************************************************************************)
(* One submission after another: an accepted Send leaves behind only what  *)
(* came after its rider, so a later submission that it did not overlap     *)
(* with has nothing of it; after an accepted Send & end none is taken,     *)
(* unless the end is undone.                                               *)
(***************************************************************************)
Alone(s) ==
  /\ subs[s].taken => subs[s].pc \in {"ok", "refused", "done", "failed"}
  /\ subs[s].pc = "done" /\ subs[s].kind = "send" =>
       /\ \A id \in Range(rows) : id > subs[s].upTo
       /\ input = 0 \/ input > subs[s].textUpTo

Follows(s, t) ==
  s < t /\ s \notin subs[t].beside =>
    /\ subs[s].pc \in {"done", "failed"}
    /\ subs[s].pc = "done" /\ subs[s].kind = "send" =>
         /\ \A id \in Range(subs[t].notes) : id > subs[s].upTo
         /\ subs[t].text = 0 \/ subs[t].text > subs[s].textUpTo
    /\ subs[s].pc = "done" /\ subs[s].kind = "sendEnd" =>
         subs[s].undone \/ (~subs[t].taken /\ subs[t].pc # "received")

OnceInv == \A s \in DOMAIN subs : Alone(s) /\ \A t \in DOMAIN subs : Follows(s, t)

\* There is no submission yet.
LEMMA OnceInit == Init => OnceInv
  BY DEF Init, OnceInv

\* A submission alone.
LEMMA AloneStep ==
  ASSUME TypeInv, RiderInv, OnceInv, [Next]_vars, NEW s \in DOMAIN subs'
  PROVE  Alone(s)'
  <1>0. /\ arrived \in Nat /\ typed \in Nat
        /\ input \in Nat /\ (input' \in {input, 0} \/ input' > typed)
        /\ \A id \in Range(rows') : id \in Range(rows) \/ id > arrived
        /\ \A id \in Range(rows') : id \in Nat
        /\ input' \in Nat
    <2>1. rows' \in Seq(Nat) /\ typed' \in Nat /\ input' \in 0..typed'
      BY TypeInvStep DEF TypeInv, TypeOK
    <2> QED BY <2>1, Growth DEF Range
  <1>1. CASE s \notin DOMAIN subs
    BY <1>1, Fate DEF Clicked, Alone
  <1>2. ASSUME s \in DOMAIN subs
        PROVE  Alone(s) /\ subs[s].upTo \in Nat /\ subs[s].textUpTo \in Nat
               /\ subs[s].upTo <= arrived /\ subs[s].textUpTo <= typed
    BY <1>2, SubTypes DEF TypeInv, OnceInv, RiderInv, RiderHolds
  <1>3. CASE s \in DOMAIN subs /\ (Alike(s) \/ Undone(s))
    <2>1. /\ subs'[s].taken => subs'[s].pc \in {"ok", "refused", "done", "failed"}
          /\ subs'[s].pc = subs[s].pc /\ subs'[s].kind = subs[s].kind
          /\ subs'[s].upTo = subs[s].upTo /\ subs'[s].textUpTo = subs[s].textUpTo
      BY <1>2, <1>3 DEF Alone, Alike, Undone, SameRider
    <2>2. ASSUME subs[s].pc = "done", subs[s].kind = "send"
          PROVE  /\ \A id \in Range(rows') : id > subs[s].upTo
                 /\ input' = 0 \/ input' > subs[s].textUpTo
      <3> DEFINE u == subs[s].upTo
                 v == subs[s].textUpTo
      <3>1. u \in Nat /\ v \in Nat /\ u <= arrived /\ v <= typed
            /\ (\A id \in Range(rows) : id > u) /\ (input = 0 \/ input > v)
        BY <1>2, <1>3, <2>2 DEF Alone
      <3> HIDE DEF u, v
      <3>2. (\A id \in Range(rows') : id > u) /\ (input' = 0 \/ input' > v)
        BY <1>0, <3>1
      <3> QED BY <3>2 DEF u, v
    <2> QED BY <1>3, <2>1, <2>2 DEF Alone
  <1>4. CASE s \in DOMAIN subs /\ Rides(s)
    BY <1>2, <1>4 DEF Rides, Alone
  <1>5. CASE s \in DOMAIN subs /\ GivenUp(s)
    BY <1>0, <1>2, <1>5 DEF GivenUp, SameRider, Alone
  <1>6. CASE s \in DOMAIN subs /\ (Arrived(s) \/ Landed(s))
    BY <1>2, <1>6 DEF Arrived, Landed, SameRider, Alone
  <1>7. CASE s \in DOMAIN subs /\ Answered(s)
    <2>1. /\ subs[s].pc = "ok" /\ subs'[s].pc = "done" /\ subs'[s].kind = subs[s].kind
          /\ subs'[s].taken = subs[s].taken
      BY <1>7 DEF Answered, SameRider
    <2>2. subs[s].kind = "send" => Range(rows') = {} /\ input' = 0
      BY <1>7, AcceptedClears DEF Answered, Range
    <2> QED BY <1>0, <1>2, <1>7, <2>1, <2>2 DEF Alone
  <1> QED BY <1>1, <1>3, <1>4, <1>5, <1>6, <1>7, Fate

\* A submission that is over stays as it is, but for an end that is undone.
LEMMA OverStays ==
  ASSUME TypeInv, [Next]_vars, NEW s \in DOMAIN subs, s \in DOMAIN subs', subs[s].pc \in {"done", "failed"}
  PROVE  SameRider(s) /\ subs'[s].pc = subs[s].pc /\ subs'[s].taken = subs[s].taken
  BY Fate DEF Alike, Rides, GivenUp, Arrived, Landed, Answered, Undone, SameRider

\* A submission and an earlier one.
LEMMA FollowsStep ==
  ASSUME TypeInv, RiderInv, EndInv, OnceInv, [Next]_vars, NEW s \in DOMAIN subs', NEW t \in DOMAIN subs'
  PROVE  Follows(s, t)'
  <1> SUFFICES ASSUME s < t, s \notin subs'[t].beside
               PROVE  /\ subs'[s].pc \in {"done", "failed"}
                      /\ subs'[s].pc = "done" /\ subs'[s].kind = "send" =>
                           /\ \A id \in Range(subs'[t].notes) : id > subs'[s].upTo
                           /\ subs'[t].text = 0 \/ subs'[t].text > subs'[s].textUpTo
                      /\ subs'[s].pc = "done" /\ subs'[s].kind = "sendEnd" =>
                           subs'[s].undone \/ (~subs'[t].taken /\ subs'[t].pc # "received")
    BY DEF Follows
  <1>0. DOMAIN subs = 1..Len(subs) /\ Len(subs) \in Nat /\ DOMAIN subs' \subseteq Nat \ {0}
    <2>1. subs \in Seq(Submission) /\ subs' \in Seq(Submission)
      BY TypeInvStep DEF TypeInv, TypeOK
    <2> QED BY <2>1
  <1>1. CASE t \notin DOMAIN subs
    <2>1. /\ t = Len(subs) + 1 /\ subs'[t].text = 0 /\ subs'[t].notes = <<>> /\ ~subs'[t].taken
          /\ subs'[t].beside = inFlight /\ subs'[t].pc = "snapshot"
      BY <1>1, Fate DEF Clicked
    <2>2. s \in DOMAIN subs
      BY <1>0, <2>1
    <2>3. subs[s].pc \in {"done", "failed"}
      BY <2>1, <2>2 DEF inFlight
    <2>4. subs'[s].pc = subs[s].pc
      BY <2>2, <2>3, OverStays
    <2>5. Range(subs'[t].notes) = {}
      BY <2>1 DEF Range
    <2> QED BY <2>1, <2>3, <2>4, <2>5
  <1>2. CASE t \in DOMAIN subs
    <2>1. s \in DOMAIN subs
      BY <1>0, <1>2
    <2>2. subs'[t].beside = subs[t].beside
      BY <1>2, Fate DEF Alike, Rides, GivenUp, Arrived, Landed, Answered, Undone, SameRider
    <2>3. /\ subs[s].pc \in {"done", "failed"} /\ Alone(s)
          /\ subs[s].pc = "done" /\ subs[s].kind = "send" =>
               /\ \A id \in Range(subs[t].notes) : id > subs[s].upTo
               /\ subs[t].text = 0 \/ subs[t].text > subs[s].textUpTo
          /\ subs[s].pc = "done" /\ subs[s].kind = "sendEnd" =>
               subs[s].undone \/ (~subs[t].taken /\ subs[t].pc # "received")
          /\ subs[s].pc = "done" /\ subs[s].kind = "sendEnd" => over \/ subs[s].undone
      BY <1>2, <2>1, <2>2 DEF OnceInv, EndInv, Follows
    <2>4. /\ subs'[s].pc = subs[s].pc /\ subs'[s].kind = subs[s].kind
          /\ subs'[s].upTo = subs[s].upTo /\ subs'[s].textUpTo = subs[s].textUpTo
          /\ subs[s].undone => subs'[s].undone
      BY <2>1, <2>3, OverStays DEF SameRider
    <2>5. CASE Rides(t)
      <3>1. /\ subs'[t].text = input /\ subs'[t].notes = rows /\ subs'[t].taken = subs[t].taken
            /\ subs'[t].pc = "posting"
        BY <2>5 DEF Rides
      <3> QED BY <2>3, <2>4, <3>1 DEF Alone
    <2>6. CASE Arrived(t)
      <3>1. /\ subs'[t].text = subs[t].text /\ subs'[t].notes = subs[t].notes
            /\ subs'[t].taken = subs[t].taken
            /\ subs'[t].pc = "received" => ~over
        BY <2>6 DEF Arrived, SameRider
      <3> QED BY <2>3, <2>4, <3>1
    <2>7. CASE Landed(t)
      <3>1. /\ subs'[t].text = subs[t].text /\ subs'[t].notes = subs[t].notes
            /\ subs[t].pc = "received"
        BY <2>7 DEF Landed, SameRider
      <3> QED BY <2>3, <2>4, <3>1
    <2>8. CASE Alike(t) \/ GivenUp(t) \/ Answered(t) \/ Undone(t)
      <3>1. /\ subs'[t].text = subs[t].text /\ subs'[t].notes = subs[t].notes
            /\ subs'[t].taken = subs[t].taken
            /\ subs'[t].pc = "received" => subs[t].pc = "received"
        BY <2>8 DEF Alike, GivenUp, Answered, Undone, SameRider
      <3> QED BY <2>3, <2>4, <3>1
    <2> QED BY <1>2, <2>5, <2>6, <2>7, <2>8, Fate
  <1> QED BY <1>1, <1>2

\* Together they are inductive.
LEMMA OnceStep == TypeInv /\ RiderInv /\ EndInv /\ OnceInv /\ [Next]_vars => OnceInv'
  BY AloneStep, FollowsStep DEF OnceInv

(***************************************************************************)
(* The same text or annotation is taken twice only from two submissions    *)
(* that overlapped, after the first was told to have failed and the human  *)
(* tried again, or after the end that the first made was undone.           *)
(***************************************************************************)
THEOREM TakenOnce == Spec => []TwiceOnlyIfOverlapped
  <1>1. TypeInv /\ RiderInv /\ OnceInv => TwiceOnlyIfOverlapped
    <2> SUFFICES ASSUME TypeInv, RiderInv, OnceInv,
                        NEW s \in takenSubs, NEW t \in takenSubs, s < t,
                        \/ Range(subs[s].notes) \intersect Range(subs[t].notes) # {}
                        \/ subs[s].text = subs[t].text /\ subs[s].text # 0,
                        s \notin subs[t].beside, subs[s].pc # "failed", ~subs[s].undone
                 PROVE  FALSE
      BY DEF TwiceOnlyIfOverlapped
    <2>1. s \in DOMAIN subs /\ t \in DOMAIN subs /\ subs[s].taken /\ subs[t].taken
      BY DEF takenSubs
    <2>2. /\ subs[s].pc = "done" /\ subs[s].kind = "send"
          /\ \A id \in Range(subs[t].notes) : id > subs[s].upTo
          /\ subs[t].text = 0 \/ subs[t].text > subs[s].textUpTo
      <3>1. Follows(s, t) /\ subs[s].kind \in {"send", "sendEnd"}
        BY <2>1, SubTypes DEF OnceInv, TypeInv
      <3> QED BY <2>1, <3>1 DEF Follows
    <2>3. /\ \A id \in Range(subs[s].notes) : id \in Nat /\ id <= subs[s].upTo
          /\ subs[s].text <= subs[s].textUpTo
          /\ subs[s].text \in Nat /\ subs[s].textUpTo \in Nat /\ subs[s].upTo \in Nat
      BY <2>1, SubTypes DEF RiderInv, RiderHolds, TypeInv
    <2> QED BY <2>2, <2>3
  <1> QED BY <1>1, TypeInit, TypeInvStep, RiderInit, RiderStep, EndInit, EndStep, OnceInit, OnceStep, PTL
         DEF Spec

------------------------------------------------------------------------------
(***************************************************************************)
(* What ComposerComesBack needs in every state: a composer that has        *)
(* something to send and a grey button has a submission under way or a     *)
(* timer running, which will look at the buttons again, or its session has *)
(* ended, or it is forsaken.  What keeps it is that only a Send & end      *)
(* leaves a button grey when it is done.                                   *)
(***************************************************************************)
sending == {"send", "sendEnd"}

Grey == isValid(input, rows) /\ ~ended /\ disabled \intersect sending # {}

NeverGreyForNothing == Grey => inFlight # {} \/ resets > 0 \/ over \/ late \/ forsaken

endings == {s \in DOMAIN subs : subs[s].kind = "sendEnd" /\ subs[s].pc = "done"}

GreyInv == Grey => inFlight # {} \/ resets > 0 \/ endings # {}

\* An empty composer has nothing to send.
LEMMA GreyInit == Init => GreyInv
  BY DEF Init, GreyInv, Grey, isValid

\* sync leaves no button of a composer grey that has something to send.
LEMMA Synced ==
  ASSUME disabled' = sync(input', rows', disabled), isValid(input, rows)'
  PROVE  disabled' \intersect sending = {}
  BY DEF sync, isValid, sending

\* A done Send & end stays one.
LEMMA EndingsStay ==
  ASSUME TypeInv, [Next]_vars, DOMAIN subs \subseteq DOMAIN subs'
  PROVE  endings \subseteq endings'
  BY OverStays DEF endings, SameRider

\* Some button may turn grey, but never for nothing.
LEMMA GreyStep == TypeInv /\ GreyInv /\ [Next]_vars => GreyInv'
  <1> SUFFICES ASSUME TypeInv, GreyInv, [Next]_vars,
                      isValid(input, rows)', ~ended', disabled' \intersect sending # {}
               PROVE  inFlight' # {} \/ resets' > 0 \/ endings' # {}
    BY DEF GreyInv, Grey
  <1> USE DEF chromeVars, frameVars
  <1>0. /\ resets \in Nat /\ subs \in Seq(Submission) /\ DOMAIN subs = 1..Len(subs) /\ Len(subs) \in Nat
        /\ isValid(input, rows) /\ ~ended /\ disabled \intersect sending # {}
             => inFlight # {} \/ resets > 0 \/ endings # {}
    BY DEF TypeInv, TypeOK, GreyInv, Grey
  \* The buttons are looked at.
  <1>1. CASE Type \/ Erase \/ ResetFires \/ \E id \in DOMAIN origin : RemoveRow(id)
    <2>1. disabled' = sync(input', rows', disabled)
      BY <1>1 DEF Type, Erase, ResetFires, RemoveRow, sync
    <2> QED BY <2>1, Synced
  \* Nothing that matters happens.
  <1>2. ASSUME UNCHANGED <<input, rows, ended, resets, subs>>,
               disabled' \intersect sending \subseteq disabled
        PROVE  inFlight' # {} \/ resets' > 0 \/ endings' # {}
    <2>1. /\ disabled \intersect sending # {} /\ isValid(input, rows)
          /\ inFlight' = inFlight /\ endings' = endings
      BY <1>2 DEF isValid, inFlight, endings
    <2> QED BY <1>0, <1>2, <2>1
  <1>3. CASE Toggle \/ ClickEnd \/ BreakEnd \/ HandleEnd \/ AgentEnds \/ UNCHANGED vars
    <2>1. /\ UNCHANGED <<input, rows, ended, resets, subs>>
          /\ disabled' \in {disabled, disabled \union {"end"}, disabled \ {"end"}}
      BY <1>3 DEF Toggle, ClickEnd, BreakEnd, HandleEnd, AgentEnds, vars
    <2>2. disabled' \intersect sending \subseteq disabled
      BY <2>1 DEF sending
    <2> QED BY <1>2, <2>1, <2>2
  <1>4. CASE Capture \/ FrameReceives \/ Commit \/ SdkRuns \/ Load \/ \E to \in {"artifact", "bare"} : Leave(to)
    <2>1. UNCHANGED <<input, rows, ended, resets, subs, disabled>>
      BY <1>4 DEF Capture, FrameReceives, Commit, SdkRuns, Load, Leave
    <2> QED BY <1>2, <2>1
  <1>5. CASE \E button \in {"send", "sendEnd"} : Click(button)
    <2> DEFINE n == Len(subs) + 1
    <2>1. n \in DOMAIN subs' /\ n \notin DOMAIN subs
      BY <1>0, <1>5 DEF Click
    <2>2. Clicked(n)
      BY <2>1, Fate
    <2> QED BY <2>1, <2>2 DEF Clicked, inFlight
  <1>6. CASE ChromeReceives
    <2>1. CASE ReceiveNote(Head(up))
      <3>1. disabled' = sync(input', rows', disabled)
        BY <2>1 DEF ReceiveNote, sync
      <3> QED BY <3>1, Synced
    <2>2. CASE ReceiveSnapshot(Head(up))
      <3>1. UNCHANGED <<input, rows, ended, resets, disabled>> /\ subs' = [s \in DOMAIN subs |-> rider(s, Head(up))]
        BY <2>2 DEF ReceiveSnapshot
      <3>2. ASSUME NEW s \in inFlight PROVE s \in inFlight'
        <4>1. s \in DOMAIN subs /\ s \in DOMAIN subs' /\ subs[s].pc \notin {"done", "failed"}
          BY <3>1 DEF inFlight
        <4>2. subs'[s].pc = subs[s].pc \/ subs'[s].pc = "posting"
          <5>1. subs'[s] = rider(s, Head(up)) /\ subs[s] \in Submission
            BY <1>0, <3>1, <4>1
          <5> QED BY <5>1 DEF rider, Submission
        <4> QED BY <4>1, <4>2 DEF inFlight
      <3>3. isValid(input, rows) /\ ~ended /\ disabled \intersect sending # {}
        BY <3>1 DEF isValid
      <3>4. endings \subseteq endings'
        BY <3>1, EndingsStay
      <3> QED BY <1>0, <3>1, <3>2, <3>3, <3>4
    <2> QED BY <1>6, <2>1, <2>2 DEF ChromeReceives
  \* It failed, and its timer runs.
  <1>7. ASSUME NEW s \in DOMAIN subs, fail(s) PROVE inFlight' # {} \/ resets' > 0 \/ endings' # {}
    BY <1>0, <1>7 DEF fail
  <1>8. ASSUME NEW s \in DOMAIN subs, Arrive(s) \/ LandSend(s) \/ LandSendEnd(s)
        PROVE inFlight' # {} \/ resets' > 0 \/ endings' # {}
    <2>1. DOMAIN subs' = DOMAIN subs
      BY <1>8 DEF Arrive, LandSend, LandSendEnd
    <2>2. subs[s] \in Submission
      BY <1>0
    <2>3. subs'[s].pc \in {"received", "ok", "refused"}
      BY <1>8, <2>2 DEF Arrive, LandSend, LandSendEnd, Submission
    <2> QED BY <2>1, <2>3 DEF inFlight
  <1>9. ASSUME NEW s \in DOMAIN subs, Answer(s) PROVE inFlight' # {} \/ resets' > 0 \/ endings' # {}
    <2>1. CASE subs[s].pc = "refused"
      BY <1>7, <1>9, <2>1 DEF Answer
    <2>2. CASE subs[s].pc = "ok" /\ subs[s].kind = "send"
      <3>1. input' = 0 /\ rows' = <<>>
        BY <1>9, <2>2, AcceptedClears DEF Accepted
      <3> QED BY <3>1 DEF isValid
    <2>3. CASE subs[s].pc = "ok" /\ subs[s].kind = "sendEnd"
      <3>1. subs' = [subs EXCEPT ![s].pc = "done"] /\ TypeOK
        BY <1>9, <2>3 DEF Answer, TypeInv
      <3>2. s \in endings'
        BY <2>3, <3>1, PcMoves DEF endings, SameRider
      <3> QED BY <3>2
    <2> QED BY <1>9, <2>1, <2>2, <2>3, SubTypes DEF Answer, TypeInv
  <1>11. CASE Reopens
    <2>1. UNCHANGED <<input, rows, ended, resets, disabled>> /\ DOMAIN subs' = DOMAIN subs
      BY <1>11 DEF Reopens
    <2>2. ASSUME NEW s \in DOMAIN subs PROVE subs'[s].pc = subs[s].pc
      <3>1. subs[s] \in Submission
        BY <1>0
      <3>2. PICK u \in BOOLEAN : subs'[s] = [subs[s] EXCEPT !.undone = u]
        BY <1>11, <3>1 DEF Reopens, Submission
      <3> QED BY <3>1, <3>2 DEF Submission
    <2>3. inFlight' = inFlight
      BY <2>1, <2>2 DEF inFlight
    <2>4. endings \subseteq endings'
      BY <2>1, EndingsStay
    <2>5. isValid(input, rows) /\ ~ended /\ disabled \intersect sending # {}
      BY <2>1 DEF isValid
    <2> QED BY <1>0, <2>1, <2>3, <2>4, <2>5
  <1>10. CASE applyEnded
    BY <1>10 DEF applyEnded
  <1> QED BY <1>1, <1>3, <1>4, <1>5, <1>6, <1>7, <1>8, <1>9, <1>10, <1>11
          DEF Next, Human, Faults, Progress, Break, SnapshotTimesOut

(***************************************************************************)
(* In every state of every behaviour something is on its way that looks at *)
(* a grey button again, whatever became of the submissions, unless the end *)
(* that the page waits for was undone before the page heard of it.         *)
(***************************************************************************)
THEOREM ComposerIsNeverStuck == Spec => []NeverGreyForNothing
  <1>1. EndInv /\ GreyInv => NeverGreyForNothing
    BY DEF EndInv, GreyInv, Grey, NeverGreyForNothing, endings, forsaken
  <1> QED BY <1>1, TypeInit, TypeInvStep, EndInit, EndStep, GreyInit, GreyStep, PTL DEF Spec
==============================================================================
