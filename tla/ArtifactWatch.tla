----------------------------- MODULE ArtifactWatch -----------------------------
(***************************************************************************)
(* Live reload (ADR 0010): the lazy, reference-counted watcher of one      *)
(* artifact, the reload nudges it publishes to the event streams of the    *)
(* session, and the pages whose iframes load the artifact anew.            *)
(*                                                                         *)
(* The watchers' map is a SynchronizedRef: its mutex is held across the    *)
(* interruption of the watcher's fiber, which other connections can meet.  *)
(***************************************************************************)
EXTENDS Naturals, FiniteSets

CONSTANTS
  Tabs,           \* the pages that may be opened on the session
  MaxEdits,       \* bound: writes of the artifact
  MaxHangUps,     \* bound: closed pages and broken connections
  MaxFailures     \* bound: failures of fs.watch

ASSUME ArtifactWatchAssumption ==
  /\ IsFiniteSet(Tabs)
  /\ MaxEdits \in Nat /\ MaxHangUps \in Nat /\ MaxFailures \in Nat

VARIABLES
  file,       \* the version of the artifact on disk
  count,      \* the reference count of the watcher's entry, 0 without one
  fiber,      \* the watcher's fiber
  burst,      \* events of the artifact wait for the debounce
  leaving,    \* finalizers of closed streams that have yet to release
  stream,     \* [Tabs -> StreamState]: the connection the page holds now
  nudge,      \* [Tabs -> Nat]: reload frames in flight to the page
  open,       \* [Tabs -> BOOLEAN]
  loading,    \* [Tabs -> BOOLEAN]: the iframe has yet to fetch the artifact
  showing,    \* [Tabs -> Nat]: the version the iframe shows
  owed,       \* history: the last version written while the page was tracked
  hangUps, failures       \* counters of the bounds

watcherVars == <<count, fiber, burst, leaving>>
pageVars    == <<open, loading, showing>>
counters    == <<hangUps, failures>>
vars == <<file, count, fiber, burst, leaving, stream, nudge, open, loading, showing,
          owed, hangUps, failures>>

\* "waiting": subscribed to the hub, the tracking not yet done.
StreamState == {"none", "waiting", "tracked"}

\* "starting": forked, fs.watch not yet set up.  "failed": the error was logged, the
\* fiber is done and its entry still there.  "stopping": being interrupted.
FiberState == {"none", "starting", "watching", "failed", "stopping"}

tracked == {t \in Tabs : stream[t] = "tracked"}

(***************************************************************************)
(* Types, and: nothing is in flight to a page without a connection, and    *)
(* only open pages hold one.                                               *)
(***************************************************************************)
TypeOK ==
  /\ file \in 0..MaxEdits
  /\ count \in Nat /\ leaving \in Nat
  /\ fiber \in FiberState
  /\ burst \in BOOLEAN
  /\ stream \in [Tabs -> StreamState]
  /\ nudge \in [Tabs -> Nat]
  /\ open \in [Tabs -> BOOLEAN] /\ loading \in [Tabs -> BOOLEAN]
  /\ showing \in [Tabs -> 0..MaxEdits] /\ owed \in [Tabs -> 0..MaxEdits]
  /\ hangUps \in 0..MaxHangUps /\ failures \in 0..MaxFailures
  /\ \A t \in Tabs : stream[t] = "none" => nudge[t] = 0
  /\ \A t \in Tabs : ~ open[t] => stream[t] = "none"

Init ==
  /\ file = 0
  /\ count = 0 /\ fiber = "none" /\ burst = FALSE /\ leaving = 0
  /\ stream = [t \in Tabs |-> "none"]
  /\ nudge = [t \in Tabs |-> 0]
  /\ open = [t \in Tabs |-> FALSE]
  /\ loading = [t \in Tabs |-> FALSE]
  /\ showing = [t \in Tabs |-> 0]
  /\ owed = [t \in Tabs |-> 0]
  /\ hangUps = 0 /\ failures = 0

------------------------------------------------------------------------------
(***************************************************************************)
(* The watchers' map.                                                      *)
(***************************************************************************)

\* Mutant: a plain Ref instead of the SynchronizedRef.
MutexFree_Always == TRUE

\* modifyEffect holds the mutex while it interrupts the fiber.
MutexFree == fiber # "stopping"

track(t) ==
  /\ stream[t] = "waiting"
  /\ MutexFree
  /\ stream' = [stream EXCEPT ![t] = "tracked"]
  /\ count' = count + 1
  /\ fiber' = IF count = 0 THEN "starting" ELSE fiber
  /\ UNCHANGED <<file, burst, leaving, nudge, pageVars, owed, counters>>

\* Mutant: every connection's finalizer leaves the count to the last one.
releaseShared_Leaks == count > 1 /\ count' = count

releaseShared == count > 1 /\ count' = count - 1

release ==
  /\ leaving > 0
  /\ MutexFree
  /\ \/ /\ releaseShared
        /\ leaving' = leaving - 1
        /\ UNCHANGED <<fiber, burst>>
     \/ /\ count = 1
        /\ fiber' = "stopping"
        /\ burst' = FALSE
        /\ UNCHANGED <<count, leaving>>
  /\ UNCHANGED <<file, stream, nudge, pageVars, owed, counters>>

\* The fiber has ended: the entry is deleted and the mutex given back.
Stopped ==
  /\ fiber = "stopping"
  /\ fiber' = "none"
  /\ count' = 0
  /\ leaving' = leaving - 1
  /\ UNCHANGED <<file, burst, stream, nudge, pageVars, owed, counters>>

------------------------------------------------------------------------------
(***************************************************************************)
(* The watcher's fiber.                                                    *)
(***************************************************************************)
WatchStarts ==
  /\ fiber = "starting"
  /\ fiber' = "watching"
  /\ UNCHANGED <<file, count, burst, leaving, stream, nudge, pageVars, owed, counters>>

\* The directory cannot be watched, or no longer.
WatchFails ==
  /\ failures < MaxFailures
  /\ fiber \in {"starting", "watching"}
  /\ failures' = failures + 1
  /\ fiber' = "failed"
  /\ burst' = FALSE
  /\ UNCHANGED <<file, count, leaving, stream, nudge, pageVars, owed, hangUps>>

\* The agent writes the artifact, in place or by a rename.
Edit ==
  /\ file < MaxEdits
  /\ file' = file + 1
  /\ burst' = (burst \/ fiber = "watching")
  /\ owed' = [t \in Tabs |-> IF fiber = "watching" /\ t \in tracked THEN file' ELSE owed[t]]
  /\ UNCHANGED <<count, fiber, leaving, stream, nudge, pageVars, counters>>

\* The debounce elapses: ArtifactReloaded to every subscription of the session.
publish ==
  /\ fiber = "watching"
  /\ burst
  /\ burst' = FALSE
  /\ nudge' = [t \in Tabs |-> IF stream[t] = "none" THEN 0 ELSE nudge[t] + 1]
  /\ UNCHANGED <<file, count, fiber, leaving, stream, pageVars, owed, counters>>

------------------------------------------------------------------------------
(***************************************************************************)
(* The pages.                                                              *)
(***************************************************************************)
OpenPage(t) ==
  /\ ~ open[t]
  /\ open' = [open EXCEPT ![t] = TRUE]
  /\ loading' = [loading EXCEPT ![t] = TRUE]
  /\ UNCHANGED <<file, watcherVars, stream, nudge, showing, owed, counters>>

\* The EventSource connects, again after a broken connection.
Connect(t) ==
  /\ open[t]
  /\ stream[t] = "none"
  /\ stream' = [stream EXCEPT ![t] = "waiting"]
  /\ UNCHANGED <<file, watcherVars, nudge, pageVars, owed, counters>>

\* Mutant: the reload keeps the src of the iframe, which then loads nothing.
reload_NoBust(t) == loading' = loading

reload(t) == loading' = [loading EXCEPT ![t] = TRUE]

ReceiveNudge(t) ==
  /\ stream[t] = "tracked"
  /\ nudge[t] > 0
  /\ nudge' = [nudge EXCEPT ![t] = @ - 1]
  /\ reload(t)
  /\ UNCHANGED <<file, watcherVars, stream, open, showing, owed, counters>>

\* The iframe fetches the artifact: what is on disk then.
Load(t) ==
  /\ loading[t]
  /\ loading' = [loading EXCEPT ![t] = FALSE]
  /\ showing' = [showing EXCEPT ![t] = file]
  /\ UNCHANGED <<file, watcherVars, stream, nudge, open, owed, counters>>

\* Mutant: the frames of the old connection reach the page's next one.
inFlightAfter_Kept(t) == nudge

inFlightAfter(t) == [nudge EXCEPT ![t] = 0]

\* A stream that was not yet tracked has no finalizer.
HangUp(t) ==
  /\ hangUps < MaxHangUps
  /\ open[t]
  /\ hangUps' = hangUps + 1
  /\ \/ /\ stream[t] = "tracked"
        /\ leaving' = leaving + 1
     \/ /\ stream[t] # "tracked"
        /\ leaving' = leaving
  /\ stream' = [stream EXCEPT ![t] = "none"]
  /\ nudge' = inFlightAfter(t)
  /\ owed' = [owed EXCEPT ![t] = 0]
  /\ \/ /\ open' = [open EXCEPT ![t] = FALSE]
        /\ loading' = [loading EXCEPT ![t] = FALSE]
     \/ /\ stream[t] # "none"
        /\ UNCHANGED <<open, loading>>
  /\ UNCHANGED <<file, count, fiber, burst, showing, failures>>

------------------------------------------------------------------------------
Daemon == release \/ Stopped \/ WatchStarts \/ publish \/ \E t \in Tabs : track(t)

Browser(t) == Connect(t) \/ ReceiveNudge(t) \/ Load(t)

Next == \/ Daemon \/ WatchFails \/ Edit
        \/ \E t \in Tabs : OpenPage(t) \/ Browser(t) \/ HangUp(t)

Spec == Init /\ [][Next]_vars

\* The daemon's fibers run; a page receives its frames and loads what it asked for.
LiveSpec ==
  /\ Spec
  /\ WF_vars(release) /\ WF_vars(Stopped) /\ WF_vars(WatchStarts) /\ WF_vars(publish)
  /\ \A t \in Tabs : WF_vars(track(t)) /\ WF_vars(ReceiveNudge(t)) /\ WF_vars(Load(t))

------------------------------------------------------------------------------
(***************************************************************************)
(* Outside the mutex the reference count is the number of streams that     *)
(* tracked the watcher and have not released it, and there is a fiber      *)
(* exactly while there are such streams: no connection pulls the watcher   *)
(* from under another one, and none is left running for nobody             *)
(* ("a watcher for a key runs only while at least one SSE connection for   *)
(* that key is open").                                                     *)
(***************************************************************************)
WatcherCountsStreams ==
  fiber # "stopping" =>
     /\ count = Cardinality(tracked) + leaving
     /\ (fiber = "none") <=> (count = 0)

(***************************************************************************)
(* Live reload: a page that was tracked by a working watcher when the      *)
(* agent wrote a version comes to show it, unless its connection breaks    *)
(* or the watcher fails first.                                             *)
(***************************************************************************)
EditIsShown ==
  \A t \in Tabs : owed[t] > showing[t] ~>
     showing[t] >= owed[t] \/ stream[t] = "none" \/ fiber = "failed"

(***************************************************************************)
(* Lazy: when the last stream has gone, the watcher stops.                 *)
(***************************************************************************)
LastReleaseStops ==
  (\A t \in Tabs : stream[t] = "none") ~>
     (fiber = "none" \/ \E t \in Tabs : stream[t] # "none")
==============================================================================
