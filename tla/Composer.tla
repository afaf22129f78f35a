-------------------------------- MODULE Composer --------------------------------
(***************************************************************************)
(* The composer of one review page: the chrome (textarea, pending rows,    *)
(* Annotate toggle, Send, Send & end and End), the SDK in the artifact's   *)
(* iframe, and the Bridge of postMessages between them (ADR 0003, 0008).   *)
(* A submission crosses three awaits: it asks the iframe for a snapshot,   *)
(* takes its rider when one comes, posts it, and learns the answer; the    *)
(* human, live reloads and a second submission go on in between.           *)
(*                                                                         *)
(* Both channels of the Bridge are FIFO.  A message to a document that is  *)
(* replaced is dropped; one from a replaced document still passes, for its *)
(* source is the same WindowProxy.  The daemon is only what it answers.    *)
(***************************************************************************)
EXTENDS Naturals, SequencesExt, Selection

CONSTANT Budgets    \* bounds: how often each thing outside happens, in one behaviour or another

ASSUME ComposerAssumption ==
  Budgets \subseteq [notes : Nat, texts : Nat, clicks : Nat, toggles : Nat, loads : Nat, ends : Nat, opens : Nat,
               faults : Nat]

VARIABLES
  input,      \* the textarea: the number of the text in it, 0 when it is blank
  rows,       \* the pending rows: ids of annotations, in the order of their badges
  pressed,    \* the Annotate toggle
  disabled,   \* the disabled buttons
  resets,     \* timers of failed buttons that have not fired
  ended,      \* whether the page shows the ended state
  subs,       \* the submissions, in the order of the clicks
  ending,     \* the POST of the top-bar End
  over,       \* whether the session is ended in the daemon
  late,       \* whether a frame of an end that was undone since is still on its way
  doc,        \* the number of the document in the iframe
  phase,      \* how far that document has loaded
  leaving,    \* the navigation under way in the iframe
  markers,    \* the markers of the document's overlay, in the order of their badges
  capturing,  \* the SDK's mode
  down, up,   \* the Bridge's two channels
  origin,     \* history: for each annotation captured, its document
  typed,      \* history: how many texts were typed
  left        \* what remains of the budget

chromeVars == <<input, rows, pressed, disabled, resets, ended>>
session    == <<over, late>>
frameVars  == <<doc, phase, leaving, markers, capturing, origin>>
vars == <<input, rows, pressed, disabled, resets, ended, subs, ending, over, late, doc, phase,
          leaving, markers, capturing, down, up, origin, typed, left>>

Buttons == {"send", "sendEnd", "end", "toggle"}

\* "running": the SDK listens; "ready": the iframe's load event has fired too;
\* "bare": a page without the SDK, which the human reached by a link.
Phase == {"booting", "running", "ready", "bare"}

SetMode == [kind : {"set-mode"}, mode : BOOLEAN]
Adding  == [kind : {"annotation-added"}, id : Nat]

BridgeMessage ==
  SetMode \union [kind : {"annotation-removed"}, id : Nat] \union [kind : {"snapshot-request"}]
    \union Adding \union [kind : {"snapshot-result"}, doc : Nat, shows : Nat]

\* "received": the daemon looked the session up, found it open, and reads the body.
Pc == {"snapshot", "posting", "received", "ok", "refused", "done", "failed"}

\* The rider is text, notes and doc (the document that was serialised).  History: shows is
\* how many annotations there were when it was serialised, taken whether the daemon queued
\* the rider, undone whether the end it made was undone since, upTo the annotations that had
\* come and textUpTo the texts typed when the rider was taken, beside the submissions in
\* flight at the click.
Submission ==
  [kind : {"send", "sendEnd"}, pc : Pc, text : Nat, notes : Seq(Nat), doc : Nat, shows : Nat,
   taken : BOOLEAN, undone : BOOLEAN, upTo : Nat, textUpTo : Nat, beside : SUBSET Nat]

inFlight == {s \in DOMAIN subs : subs[s].pc \notin {"done", "failed"}}

\* The annotations whose message has not reached the chrome.
onTheirWay == LET adds == Only(up, Adding) IN [i \in DOMAIN adds |-> adds[i].id]

arrived == Len(origin) - Len(onTheirWay)

(***************************************************************************)
(* Types, and: what is posted has its snapshot, a page without a running   *)
(* SDK has no marks, and a page that shows the end expects no frame.       *)
(***************************************************************************)
TypeOK ==
  /\ input \in 0..typed /\ rows \in Seq(Nat) /\ pressed \in BOOLEAN
  /\ disabled \subseteq Buttons /\ resets \in Nat /\ ended \in BOOLEAN
  /\ subs \in Seq(Submission) /\ ending \in {"no", "posting", "ok"} /\ over \in BOOLEAN
  /\ late \in BOOLEAN
  /\ doc \in Nat \ {0} /\ phase \in Phase /\ leaving \in {"no", "artifact", "bare"}
  /\ markers \in Seq(Nat) /\ capturing \in BOOLEAN
  /\ down \in Seq(BridgeMessage) /\ up \in Seq(BridgeMessage)
  /\ origin \in Seq(1..doc) /\ typed \in Nat /\ left \in [DOMAIN left -> Nat]
  /\ \A s \in DOMAIN subs : subs[s].pc \notin {"snapshot", "failed"} => subs[s].doc > 0
  /\ phase \in {"booting", "bare"} => markers = <<>> /\ ~capturing
  /\ late => ~ended

Init ==
  /\ input = 0 /\ rows = <<>> /\ pressed = FALSE
  /\ disabled = {"send", "sendEnd"} /\ resets = 0 /\ ended = FALSE
  /\ subs = <<>> /\ ending = "no" /\ over = FALSE /\ late = FALSE
  /\ doc = 1 /\ phase = "booting" /\ leaving = "no"
  /\ markers = <<>> /\ capturing = FALSE
  /\ down = <<>> /\ up = <<>>
  /\ origin = <<>> /\ typed = 0 /\ left \in Budgets

\* Something outside happens once more.
Spend(what) ==
  /\ left[what] > 0
  /\ left' = [left EXCEPT ![what] = @ - 1]

------------------------------------------------------------------------------
\* The submit rule, and the buttons after it was applied to a text and to rows.
isValid(text, list) == text # 0 \/ list # <<>>

sync(text, list, buttons) ==
  IF isValid(text, list) THEN buttons \ {"send", "sendEnd"} ELSE buttons \union {"send", "sendEnd"}

\* An array without one of its elements (ids occur once).
without(list, id) == Only(list, Nat \ {id})

clearMarker(id) == [kind |-> "annotation-removed", id |-> id]

\* Mutant: no timer.
fail_ForGood(s) ==
  /\ disabled' = disabled \union {subs[s].kind}
  /\ UNCHANGED <<input, rows, pressed, resets, ended>>

\* The failed button stays disabled until its timer resets both.
fail(s) ==
  /\ disabled' = disabled \union {subs[s].kind}
  /\ resets' = resets + 1
  /\ UNCHANGED <<input, rows, pressed, ended>>

------------------------------------------------------------------------------
(***************************************************************************)
(* The human in the chrome.  The ended state hides the textarea and its    *)
(* two buttons; the rows stay.                                             *)
(***************************************************************************)
Type ==
  /\ ~ended /\ Spend("texts")
  /\ typed' = typed + 1
  /\ input' = typed + 1
  /\ disabled' = sync(input', rows, disabled)
  /\ UNCHANGED <<rows, pressed, resets, ended, subs, ending, session, down, up, frameVars>>

Erase ==
  /\ ~ended /\ input # 0
  /\ input' = 0
  /\ disabled' = sync(0, rows, disabled)
  /\ UNCHANGED <<rows, pressed, resets, ended, subs, ending, session, down, up, typed, left, frameVars>>

RemoveRow(id) ==
  /\ Contains(rows, id)
  /\ rows' = without(rows, id)
  /\ disabled' = sync(input, rows', disabled)
  /\ down' = Append(down, clearMarker(id))
  /\ UNCHANGED <<input, pressed, resets, ended, subs, ending, session, up, typed, left, frameVars>>

Toggle ==
  /\ "toggle" \notin disabled /\ Spend("toggles")
  /\ pressed' = ~pressed
  /\ down' = Append(down, [kind |-> "set-mode", mode |-> ~pressed])
  /\ UNCHANGED <<input, rows, disabled, resets, ended, subs, ending, session, up, typed, frameVars>>

\* Send and Send & end: the buttons go grey and the iframe is asked for a snapshot.
Click(button) ==
  /\ ~ended /\ button \notin disabled /\ isValid(input, rows)
  /\ Spend("clicks")
  /\ disabled' = disabled \union {"send", "sendEnd"}
  /\ down' = Append(down, [kind |-> "snapshot-request"])
  /\ subs' = Append(subs, [kind |-> button, pc |-> "snapshot", text |-> 0, notes |-> <<>>, doc |-> 0,
                           shows |-> 0, taken |-> FALSE, undone |-> FALSE, upTo |-> 0, textUpTo |-> 0,
                           beside |-> inFlight])
  /\ UNCHANGED <<input, rows, pressed, resets, ended, ending, session, up, typed, frameVars>>

\* The top-bar End: a plain end, whose button comes back when the request fails.
ClickEnd ==
  /\ "end" \notin disabled /\ Spend("ends")
  /\ disabled' = disabled \union {"end"}
  /\ ending' = "posting"
  /\ UNCHANGED <<input, rows, pressed, resets, ended, subs, session, down, up, typed, frameVars>>

------------------------------------------------------------------------------
(***************************************************************************)
(* The iframe.                                                             *)
(***************************************************************************)
listening == phase \in {"running", "ready"}

\* A gesture in the artifact: marked, and posted up.
Capture ==
  /\ listening /\ capturing /\ Spend("notes")
  /\ LET id == Len(origin) + 1
     IN  /\ markers' = Append(markers, id)
         /\ up' = Append(up, [kind |-> "annotation-added", id |-> id])
  /\ origin' = Append(origin, doc)
  /\ UNCHANGED <<doc, phase, leaving, capturing, chromeVars, subs, ending, session, down, typed>>

\* What the SDK makes of a message: the mode and the markers after it, and its answer.
modeAfter(m)    == IF m.kind = "set-mode" THEN m.mode ELSE capturing
markersAfter(m) == IF m.kind = "annotation-removed" THEN without(markers, m.id) ELSE markers
answer(m)       == IF m.kind = "snapshot-request"
                     THEN <<[kind |-> "snapshot-result", doc |-> doc, shows |-> Len(origin)]>>
                     ELSE <<>>

\* Without the SDK a message has no listener.
FrameReceives ==
  /\ down # <<>>
  /\ down' = Tail(down)
  /\ IF listening
       THEN /\ capturing' = modeAfter(Head(down))
            /\ markers' = markersAfter(Head(down))
            /\ up' = up \o answer(Head(down))
       ELSE UNCHANGED <<capturing, markers, up>>
  /\ UNCHANGED <<doc, phase, leaving, origin, chromeVars, subs, ending, session, typed, left>>

\* An edit's reload reassigns the iframe's src; in native mode links work.
Leave(to) ==
  /\ Spend("loads")
  /\ IF to = "artifact" THEN ~ended ELSE ~capturing /\ leaving = "no"
  /\ leaving' = to
  /\ UNCHANGED <<doc, phase, markers, capturing, origin, chromeVars, subs, ending, session, down, up, typed>>

\* Mutant: the overlay of the old document is kept.
Commit_KeepsOverlay ==
  /\ leaving # "no"
  /\ doc' = doc + 1 /\ phase' = "booting" /\ leaving' = "no"
  /\ down' = <<>>
  /\ UNCHANGED <<markers, capturing, origin, chromeVars, subs, ending, session, up, typed, left>>

\* The new document replaces the old one, with its markers and what was posted to it.  An
\* artifact that cannot be read just then is an empty page.
Commit ==
  /\ leaving # "no"
  /\ doc' = doc + 1
  /\ phase' \in (IF leaving = "bare" THEN {"bare"} ELSE {"booting", "bare"})
  /\ leaving' = "no"
  /\ markers' = <<>> /\ capturing' = FALSE
  /\ down' = <<>>
  /\ UNCHANGED <<origin, chromeVars, subs, ending, session, up, typed, left>>

SdkRuns ==
  /\ phase = "booting"
  /\ phase' = "running"
  /\ capturing' = FALSE
  /\ UNCHANGED <<doc, leaving, markers, origin, chromeVars, subs, ending, session, down, up, typed, left>>

\* Mutant: the chrome does not post the mode again.
Load_Silent ==
  /\ phase = "running"
  /\ phase' = "ready"
  /\ UNCHANGED <<doc, leaving, markers, capturing, origin, chromeVars, subs, ending, session, down, up, typed, left>>

\* On every load the chrome posts the toggle's mode again.
Load ==
  /\ phase = "running"
  /\ phase' = "ready"
  /\ down' = Append(down, [kind |-> "set-mode", mode |-> pressed])
  /\ UNCHANGED <<doc, leaving, markers, capturing, origin, chromeVars, subs, ending, session, up, typed, left>>

------------------------------------------------------------------------------
(***************************************************************************)
(* The chrome hears the iframe.  A snapshot answers every submission that  *)
(* waits for one, whoever asked; each takes its rider at that moment.      *)
(***************************************************************************)
rider(s, m) ==
  IF subs[s].pc # "snapshot" THEN subs[s]
  ELSE [subs[s] EXCEPT !.pc = "posting", !.text = input, !.notes = rows, !.doc = m.doc,
                       !.shows = m.shows, !.upTo = arrived, !.textUpTo = typed]

ReceiveNote(m) ==
  /\ m.kind = "annotation-added"
  /\ rows' = Append(rows, m.id)
  /\ disabled' = sync(input, rows', disabled)
  /\ UNCHANGED <<input, pressed, resets, ended, subs>>

ReceiveSnapshot(m) ==
  /\ m.kind = "snapshot-result"
  /\ subs' = [s \in DOMAIN subs |-> rider(s, m)]
  /\ UNCHANGED chromeVars

ChromeReceives ==
  /\ up # <<>>
  /\ up' = Tail(up)
  /\ ReceiveNote(Head(up)) \/ ReceiveSnapshot(Head(up))
  /\ UNCHANGED <<ending, session, down, typed, left, frameVars>>

\* No snapshot within five seconds.
SnapshotTimesOut(s) ==
  /\ subs[s].pc = "snapshot"
  /\ subs' = [subs EXCEPT ![s].pc = "failed"]
  /\ fail(s)
  /\ UNCHANGED <<ending, session, down, up, typed, left, frameVars>>

------------------------------------------------------------------------------
(***************************************************************************)
(* The daemon.  A request looks the session up when it arrives and keeps   *)
(* the status it saw; its body is checked by the submit rule.              *)
(***************************************************************************)
valid(s) == isValid(subs[s].text, subs[s].notes)

\* Found ended, the session refuses Feedback, and a Send & end ends it once more without
\* its rider.
Arrive(s) ==
  /\ subs[s].pc = "posting"
  /\ subs' = [subs EXCEPT ![s].pc = IF ~over THEN "received"
                                    ELSE IF subs[s].kind = "sendEnd" /\ valid(s) THEN "ok"
                                    ELSE "refused"]
  /\ UNCHANGED <<ending, session, down, up, typed, left, chromeVars, frameVars>>

\* Mutant: the annotations are read when the request is written, after another await.
LandSend_LateRows(s) ==
  /\ subs[s].pc = "received" /\ subs[s].kind = "send"
  /\ LET good == isValid(subs[s].text, rows)
     IN  subs' = [subs EXCEPT ![s].pc = IF good THEN "ok" ELSE "refused", ![s].notes = rows,
                              ![s].taken = good]
  /\ UNCHANGED <<ending, session, down, up, typed, left, chromeVars, frameVars>>

LandSend(s) ==
  /\ subs[s].pc = "received" /\ subs[s].kind = "send"
  /\ subs' = [subs EXCEPT ![s].pc = IF valid(s) THEN "ok" ELSE "refused", ![s].taken = valid(s)]
  /\ UNCHANGED <<ending, session, down, up, typed, left, chromeVars, frameVars>>

\* The rider is queued, and then the end is saved.  A save that fails is answered like a
\* rider that is refused; one that has nothing to do cannot fail.
LandSendEnd(s) ==
  /\ subs[s].pc = "received" /\ subs[s].kind = "sendEnd"
  /\ \/ /\ subs' = [subs EXCEPT ![s].pc = IF valid(s) THEN "ok" ELSE "refused", ![s].taken = valid(s)]
        /\ over' = (over \/ valid(s))
        /\ UNCHANGED left
     \/ /\ valid(s) /\ ~over /\ Spend("faults")
        /\ subs' = [subs EXCEPT ![s].pc = "refused", ![s].taken = TRUE]
        /\ UNCHANGED over
  /\ UNCHANGED <<ending, late, down, up, typed, chromeVars, frameVars>>

------------------------------------------------------------------------------
(***************************************************************************)
(* The answer.                                                             *)
(***************************************************************************)
\* Mutants: the markers stay; only the text is cleared.
clear_KeepsMarkers(s) ==
  IF subs[s].kind = "send"
    THEN /\ input' = 0 /\ rows' = <<>>
         /\ disabled' = sync(0, <<>>, disabled)
         /\ UNCHANGED <<down, pressed, resets, ended>>
    ELSE UNCHANGED <<down, chromeVars>>

clear_KeepsRows(s) ==
  IF subs[s].kind = "send"
    THEN /\ input' = 0
         /\ disabled' = sync(0, rows, disabled)
         /\ UNCHANGED <<rows, down, pressed, resets, ended>>
    ELSE UNCHANGED <<down, chromeVars>>

\* An accepted Send clears the text and the rows there are by now, and their markers.
clear(s) ==
  IF subs[s].kind = "send"
    THEN /\ input' = 0 /\ rows' = <<>>
         /\ down' = down \o [i \in DOMAIN rows |-> clearMarker(rows[i])]
         /\ disabled' = sync(0, <<>>, disabled)
         /\ UNCHANGED <<pressed, resets, ended>>
    ELSE UNCHANGED <<down, chromeVars>>

\* Mutant: a refused Send clears too.
Answer_ClearsAlways(s) ==
  /\ subs[s].pc \in {"ok", "refused"}
  /\ subs' = [subs EXCEPT ![s].pc = IF @ = "ok" THEN "done" ELSE "failed"]
  /\ clear(s)
  /\ UNCHANGED <<ending, session, up, typed, left, frameVars>>

Answer(s) ==
  /\ \/ subs[s].pc = "ok" /\ subs' = [subs EXCEPT ![s].pc = "done"] /\ clear(s)
     \/ subs[s].pc = "refused" /\ subs' = [subs EXCEPT ![s].pc = "failed"] /\ fail(s) /\ UNCHANGED down
  /\ UNCHANGED <<ending, session, up, typed, left, frameVars>>

\* The connection breaks before or after the daemon took the request.
Break(s) ==
  /\ subs[s].pc \in {"posting", "received", "ok", "refused"} /\ Spend("faults")
  /\ subs' = [subs EXCEPT ![s].pc = "failed"]
  /\ fail(s)
  /\ UNCHANGED <<ending, session, down, up, typed, frameVars>>

ResetFires ==
  /\ resets > 0
  /\ resets' = resets - 1
  /\ disabled' = sync(input, rows, disabled)
  /\ UNCHANGED <<input, rows, pressed, ended, subs, ending, session, down, up, typed, left, frameVars>>

------------------------------------------------------------------------------
(***************************************************************************)
(* The end of the session.                                                 *)
(***************************************************************************)
HandleEnd ==
  /\ ending = "posting"
  /\ ending' = "ok"
  /\ over' = TRUE
  /\ UNCHANGED <<late, subs, down, up, typed, left, chromeVars, frameVars>>

\* Or the end could not be saved.
BreakEnd ==
  /\ ending # "no" /\ Spend("faults")
  /\ ending' = "no"
  /\ disabled' = disabled \ {"end"}
  /\ UNCHANGED <<input, rows, pressed, resets, ended, subs, session, down, up, typed, frameVars>>

\* The agent ends the session.
AgentEnds ==
  /\ ~over /\ Spend("ends")
  /\ over' = TRUE
  /\ UNCHANGED <<late, subs, ending, down, up, typed, chromeVars, frameVars>>

\* The agent opens the review again.  The frame of the end is still on its way to the page,
\* or the page has missed it: its connection was down while the session was ended.
Reopens ==
  /\ over /\ Spend("opens")
  /\ over' = FALSE
  /\ late' \in {FALSE, ~ended}
  /\ subs' = [s \in DOMAIN subs |->
                [subs[s] EXCEPT !.undone = @ \/ (subs[s].kind = "sendEnd" /\ subs[s].pc \in {"ok", "done"})]]
  /\ UNCHANGED <<ending, down, up, typed, chromeVars, frameVars>>

\* The SessionEnded frame; the SDK is not told.
applyEnded ==
  /\ over \/ late
  /\ ~ended
  /\ ended' = TRUE /\ late' = FALSE
  /\ disabled' = Buttons
  /\ UNCHANGED <<input, rows, pressed, resets, subs, ending, over, down, up, typed, left, frameVars>>

------------------------------------------------------------------------------
Human ==
  \/ Type \/ Erase \/ Toggle \/ ClickEnd \/ Capture
  \/ \E button \in {"send", "sendEnd"} : Click(button)
  \/ \E id \in DOMAIN origin : RemoveRow(id)

Faults == BreakEnd \/ \E s \in DOMAIN subs : Break(s)

Progress(s) == SnapshotTimesOut(s) \/ Arrive(s) \/ LandSend(s) \/ LandSendEnd(s) \/ Answer(s)

Next ==
  \/ Human \/ Faults
  \/ FrameReceives \/ Commit \/ SdkRuns \/ Load
  \/ \E to \in {"artifact", "bare"} : Leave(to)
  \/ ChromeReceives
  \/ \E s \in DOMAIN subs : Progress(s)
  \/ ResetFires
  \/ HandleEnd \/ AgentEnds \/ Reopens \/ applyEnded

Spec == Init /\ [][Next]_vars

\* Nothing makes the human act; timers fire, requests and the frame are answered.
LiveSpec ==
  /\ Spec
  /\ WF_vars(ChromeReceives) /\ WF_vars(ResetFires) /\ WF_vars(applyEnded)
  /\ WF_vars(\E s \in DOMAIN subs : Progress(s))

------------------------------------------------------------------------------
(***************************************************************************)
(* Properties.                                                             *)
(***************************************************************************)
takenSubs == {s \in DOMAIN subs : subs[s].taken}
sentNotes == UNION {Range(subs[s].notes) : s \in takenSubs}
sentTexts == {subs[s].text : s \in takenSubs}

\* The badges on the page against the badges in the artifact (chrome/entry.ts renumber,
\* overlay.ts renumber), up to the messages under way: the n-th marker of the document is the
\* n-th row after those kept from earlier documents, and these come first and have no marker.
\* So the two sides number alike until a reload, and after it apart by the rows it left.
MarkersFollowRows ==
  LET removing  == {down[i].id : i \in {j \in DOMAIN down : down[j].kind = "annotation-removed"}}
      shown     == rows \o onTheirWay
      kept      == Only(markers, Nat \ removing)
  IN  listening =>
        \E survivors \in 0..Len(shown) :
           /\ SubSeq(shown, survivors + 1, Len(shown)) = kept
           /\ \A n \in 1..Len(shown) : IF n <= survivors THEN origin[shown[n]] < doc
                                                         ELSE origin[shown[n]] = doc

\* A loaded artifact captures as the toggle says once what is under way has come: a reload
\* does not reset the mode the human left on (ADR 0010), and no mode is lost for good with
\* a document that is replaced.
ModeFollowsToggle ==
  LET modes == Only(down, SetMode)
  IN  phase = "ready" => pressed = (IF modes = <<>> THEN capturing ELSE modes[Len(modes)].mode)

\* The same text or annotation is taken twice only from two submissions that overlapped,
\* for an edit re-enables Send while one is in flight; after one of which the page was told
\* that it failed, its answer lost or its end not saved (Server.ts:343-354), and the human
\* tried again; or after a Send & end whose end was undone.  An accepted Send leaves nothing
\* behind to be sent again, and a session takes nothing after an accepted Send & end.
TwiceOnlyIfOverlapped ==
  \A s, t \in takenSubs :
    s < t /\ (Range(subs[s].notes) \intersect Range(subs[t].notes) # {}
               \/ (subs[s].text = subs[t].text /\ subs[s].text # 0))
      => s \in subs[t].beside \/ subs[s].pc = "failed" \/ subs[s].undone

\* A snapshot, even one that was asked for by an earlier submission which gave up, was
\* serialised after every annotation it is sent with had been captured, in its own document
\* or in one that it replaced: it is never too old.  (It may be too new: rows that survive a
\* reload go out with a snapshot of the document that replaced theirs.)
NotesPredateSnapshot ==
  \A s \in DOMAIN subs : \A i \in DOMAIN subs[s].notes :
    /\ subs[s].notes[i] <= subs[s].shows
    /\ origin[subs[s].notes[i]] <= subs[s].doc

\* A submission never empties the composer of what its rider could have held: a row or text
\* goes away only when the human removes it, when it was taken by the daemon, or when it came
\* after the rider of the Send that clears it (chrome/entry.ts:416-417).
humanEdits == Type \/ Erase \/ \E id \in DOMAIN origin : RemoveRow(id)

LossNeedsOverlap ==
  [][\/ humanEdits
     \/ input' = input /\ Range(rows) \subseteq Range(rows')
     \/ \E s \in DOMAIN subs :
          /\ subs[s].kind = "send" /\ subs[s].pc = "ok" /\ subs'[s].pc = "done"
          /\ \A id \in Range(rows) : id \in sentNotes \/ id > subs[s].upTo
          /\ input \in sentTexts \union {0} \/ input > subs[s].textUpTo]_vars

\* The page of an accepted Send & end never saw the end it waits for: the session was opened
\* again meanwhile, and only an edit wakes the buttons.
forsaken ==
  /\ ~over /\ ~late /\ ~ended
  /\ \E s \in DOMAIN subs : subs[s].pc = "done" /\ subs[s].undone

\* A composer with something to send comes back to life or its session's end is shown,
\* whatever became of the submissions (timeouts, refusals, broken connections, a Send & end):
\* no order of their answers and timers leaves the buttons grey for good, unless forsaken.
ComposerComesBack ==
  isValid(input, rows) ~> (ended \/ "send" \notin disabled \/ ~isValid(input, rows) \/ forsaken)

\* What the comment at chrome/entry.ts:147-151 promises: the pending annotations are those
\* captured and not yet sent, so a row goes only when it was sent or the human removes it.
PendingUntilSent ==
  [][\A id \in Range(rows) \ Range(rows') : id \in sentNotes \/ RemoveRow(id)]_vars

==============================================================================
