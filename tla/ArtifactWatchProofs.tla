-------------------------- MODULE ArtifactWatchProofs --------------------------
(***************************************************************************)
(* The reference count of the watcher, for any number of pages.            *)
(***************************************************************************)
EXTENDS ArtifactWatch, FiniteSetTheorems, TLAPS

USE DEF watcherVars, pageVars, counters

(***************************************************************************)
(* The count includes the stream whose release is interrupting the fiber:  *)
(* it is the only one then, so that nobody else is robbed of the watcher.  *)
(***************************************************************************)
CountInv ==
  /\ count = Cardinality(tracked) + leaving
  /\ (fiber = "none") <=> (count = 0)
  /\ fiber = "stopping" => count = 1 /\ leaving > 0

IInv == TypeOK /\ CountInv

\* TypeOK in two parts: whether a burst is pending, and the rest.
RestOK ==
  /\ file \in 0..MaxEdits
  /\ count \in Nat /\ leaving \in Nat
  /\ fiber \in FiberState
  /\ stream \in [Tabs -> StreamState]
  /\ nudge \in [Tabs -> Nat]
  /\ open \in [Tabs -> BOOLEAN] /\ loading \in [Tabs -> BOOLEAN]
  /\ showing \in [Tabs -> 0..MaxEdits] /\ owed \in [Tabs -> 0..MaxEdits]
  /\ hangUps \in 0..MaxHangUps /\ failures \in 0..MaxFailures
  /\ \A t \in Tabs : stream[t] = "none" => nudge[t] = 0
  /\ \A t \in Tabs : ~ open[t] => stream[t] = "none"

LEMMA Parts == TypeOK <=> burst \in BOOLEAN /\ RestOK
  BY DEF TypeOK, RestOK

LEMMA TrackedFinite == IsFiniteSet(tracked) /\ Cardinality(tracked) \in Nat
  <1>1. IsFiniteSet(tracked)
    BY ArtifactWatchAssumption, FS_Subset DEF tracked
  <1> QED BY <1>1, FS_CardinalityType

LEMMA IInvInit == Init => IInv
  <1> SUFFICES ASSUME Init PROVE IInv
    OBVIOUS
  <1>1. burst \in BOOLEAN /\ RestOK
    <2>1. burst \in BOOLEAN
      BY Zenon DEF Init
    <2>2. RestOK
      BY ArtifactWatchAssumption DEF Init, RestOK, StreamState, FiberState
    <2> QED BY <2>1, <2>2
  <1>2. tracked = {}
    BY DEF Init, tracked
  <1> QED BY <1>1, <1>2, Parts, FS_EmptySet DEF Init, IInv, CountInv

\* A step that tracks and releases nobody.
LEMMA SameTracked ==
  ASSUME CountInv, tracked' = tracked, UNCHANGED <<count, leaving>>,
         fiber' = fiber \/ (fiber \notin {"none", "stopping"} /\ fiber' \notin {"none", "stopping"})
  PROVE  CountInv'
  BY DEF CountInv

LEMMA IInvStep == IInv /\ [Next]_vars => IInv'
  <1> SUFFICES ASSUME IInv, [Next]_vars PROVE IInv'
    OBVIOUS
  <1> USE ArtifactWatchAssumption DEF TypeOK, RestOK, StreamState, FiberState
  <1>0. burst \in BOOLEAN /\ RestOK /\ CountInv
    BY Parts DEF IInv
  <1>9. (burst \in BOOLEAN)'
    BY <1>0, Zenon DEF Next, Daemon, Browser, track, release, Stopped, WatchStarts, WatchFails,
         Edit, publish, OpenPage, Connect, ReceiveNudge, Load, HangUp, vars
  <1>10. SUFFICES RestOK' /\ CountInv'
    BY <1>9 DEF IInv
  <1>1. ASSUME NEW t \in Tabs, track(t) PROVE RestOK' /\ CountInv'
    <2>1. t \notin tracked /\ tracked' = tracked \union {t}
      BY <1>0, <1>1 DEF track, tracked
    <2>2. Cardinality(tracked') = Cardinality(tracked) + 1
      BY <2>1, TrackedFinite, FS_AddElement
    <2>3. RestOK'
      BY <1>0, <1>1 DEF track
    <2>4. CountInv'
      BY <1>0, <1>1, <2>2, TrackedFinite DEF track, CountInv, MutexFree
    <2> QED BY <2>3, <2>4
  <1>2. CASE release
    <2>1. tracked' = tracked
      BY <1>2 DEF release, tracked
    <2>2. RestOK'
      BY <1>0, <1>2 DEF release, releaseShared
    <2>3. CountInv'
      BY <1>0, <1>2, <2>1, TrackedFinite DEF release, releaseShared, CountInv, MutexFree
    <2> QED BY <2>2, <2>3
  <1>3. CASE Stopped
    <2>1. tracked' = tracked /\ Cardinality(tracked) = 0 /\ leaving = 1
      BY <1>0, <1>3, TrackedFinite DEF Stopped, tracked, CountInv
    <2>2. RestOK'
      BY <1>0, <1>3, <2>1 DEF Stopped
    <2>3. CountInv'
      BY <1>0, <1>3, <2>1 DEF Stopped, CountInv
    <2> QED BY <2>2, <2>3
  <1>4. CASE WatchStarts \/ WatchFails \/ Edit \/ publish
    <2>1. tracked' = tracked /\ UNCHANGED <<count, leaving>>
      BY <1>4 DEF WatchStarts, WatchFails, Edit, publish, tracked
    <2>2. RestOK'
      <3>1. CASE WatchStarts \/ WatchFails
        BY <1>0, <3>1 DEF WatchStarts, WatchFails
      <3>2. CASE Edit
        BY <1>0, <3>2 DEF Edit
      <3>3. CASE publish
        BY <1>0, <3>3 DEF publish
      <3> QED BY <1>4, <3>1, <3>2, <3>3
    <2>3. CountInv'
      BY <1>0, <1>4, <2>1, SameTracked DEF WatchStarts, WatchFails, Edit, publish
    <2> QED BY <2>2, <2>3
  <1>5. ASSUME NEW t \in Tabs, OpenPage(t) \/ Connect(t) \/ ReceiveNudge(t) \/ Load(t) PROVE RestOK' /\ CountInv'
    <2>1. tracked' = tracked /\ UNCHANGED <<count, leaving, fiber>>
      BY <1>0, <1>5 DEF OpenPage, Connect, ReceiveNudge, Load, tracked
    <2>2. RestOK'
      <3>1. CASE OpenPage(t)
        BY <1>0, <3>1 DEF OpenPage
      <3>2. CASE Connect(t)
        BY <1>0, <3>2 DEF Connect
      <3>3. CASE ReceiveNudge(t)
        BY <1>0, <3>3 DEF ReceiveNudge, reload
      <3>4. CASE Load(t)
        BY <1>0, <3>4 DEF Load
      <3> QED BY <1>5, <3>1, <3>2, <3>3, <3>4
    <2>3. CountInv'
      BY <1>0, <2>1, SameTracked
    <2> QED BY <2>2, <2>3
  <1>6. ASSUME NEW t \in Tabs, HangUp(t) PROVE RestOK' /\ CountInv'
    <2>1. RestOK'
      <3>1. /\ stream' = [stream EXCEPT ![t] = "none"] /\ nudge' = [nudge EXCEPT ![t] = 0]
            /\ owed' = [owed EXCEPT ![t] = 0] /\ leaving' \in {leaving, leaving + 1}
            /\ hangUps' = hangUps + 1 /\ hangUps < MaxHangUps
            /\ UNCHANGED <<file, count, fiber, showing, failures>>
        BY <1>6 DEF HangUp, inFlightAfter
      <3>2. /\ open' \in [Tabs -> BOOLEAN] /\ loading' \in [Tabs -> BOOLEAN]
            /\ \A u \in Tabs : u # t => open'[u] = open[u]
        BY <1>0, <1>6 DEF HangUp
      <3>3. /\ stream' \in [Tabs -> StreamState] /\ nudge' \in [Tabs -> Nat]
            /\ owed' \in [Tabs -> 0..MaxEdits] /\ showing' \in [Tabs -> 0..MaxEdits]
        BY <1>0, <3>1
      <3>4. /\ \A u \in Tabs : stream'[u] = "none" => nudge'[u] = 0
            /\ \A u \in Tabs : ~ open'[u] => stream'[u] = "none"
        BY <1>0, <3>1, <3>2
      <3>5. /\ leaving' \in Nat /\ count' \in Nat /\ hangUps' \in 0..MaxHangUps
            /\ failures' \in 0..MaxFailures /\ file' \in 0..MaxEdits /\ fiber' \in FiberState
        BY <1>0, <3>1
      <3> QED BY <3>2, <3>3, <3>4, <3>5
    <2>2. CASE t \in tracked
      <3>1. tracked' = tracked \ {t} /\ leaving' = leaving + 1 /\ UNCHANGED <<count, fiber>>
        BY <1>0, <1>6, <2>2 DEF HangUp, tracked
      <3>2. Cardinality(tracked') = Cardinality(tracked) - 1
        BY <2>2, <3>1, TrackedFinite, FS_RemoveElement
      <3> QED BY <1>0, <2>1, <3>1, <3>2, TrackedFinite DEF CountInv
    <2>3. CASE t \notin tracked
      <3>1. tracked' = tracked /\ UNCHANGED <<count, leaving, fiber>>
        BY <1>0, <1>6, <2>3 DEF HangUp, tracked
      <3> QED BY <1>0, <2>1, <3>1, SameTracked
    <2> QED BY <2>2, <2>3
  <1>7. CASE UNCHANGED vars
    <2>1. tracked' = tracked /\ UNCHANGED <<count, leaving, fiber>>
      BY <1>7 DEF vars, tracked
    <2>2. RestOK'
      BY <1>0, <1>7 DEF vars
    <2> QED BY <1>0, <2>1, <2>2, SameTracked
  <1> QED BY <1>1, <1>2, <1>3, <1>4, <1>5, <1>6, <1>7 DEF Next, Daemon, Browser

(***************************************************************************)
(* The watcher, the streams and the pages keep their types; in particular  *)
(* no finalizer releases what was released already.                        *)
(***************************************************************************)
THEOREM TypeCorrect == Spec => []TypeOK
  <1>1. IInv => TypeOK
    BY DEF IInv
  <1> QED BY IInvInit, IInvStep, <1>1, PTL DEF Spec

(***************************************************************************)
(* The count is the number of streams that track the artifact and have not *)
(* released it, and the watcher lives exactly as long as there are any.    *)
(***************************************************************************)
THEOREM CountIsExact == Spec => []WatcherCountsStreams
  <1>1. IInv => WatcherCountsStreams
    BY DEF IInv, CountInv, WatcherCountsStreams
  <1> QED BY IInvInit, IInvStep, <1>1, PTL DEF Spec
------------------------------------------------------------------------------
(***************************************************************************)
(* What EditIsShown needs in every state: an edit that a page is owed and  *)
(* does not show is under way to it (in the debounce, in a frame, or being *)
(* loaded), unless the watch has failed.  In particular nobody stops the   *)
(* watcher, and no reload is taken for done, while an edit is owed.        *)
(***************************************************************************)
EditUnderWay ==
  \A t \in Tabs : owed[t] > showing[t] =>
     \/ fiber = "failed"
     \/ /\ fiber = "watching" /\ stream[t] = "tracked"
        /\ burst \/ nudge[t] > 0 \/ loading[t]

\* A page is owed something only while it is tracked, by a watcher that has been started.
Owed(t) ==
  /\ owed[t] <= file
  /\ owed[t] > 0 => stream[t] = "tracked" /\ fiber \in {"watching", "failed"}
  /\ owed[t] > showing[t] /\ fiber # "failed" => burst \/ nudge[t] > 0 \/ loading[t]

OwedInv == \A t \in Tabs : Owed(t)

\* Nobody is owed anything yet.
LEMMA OwedInit == Init => OwedInv
  BY DEF Init, OwedInv, Owed

\* A watcher with a tracked stream is not the last one's to stop.
LEMMA NotTheLast ==
  ASSUME IInv, NEW t \in tracked, leaving > 0
  PROVE  count > 1
  <1>1. Cardinality(tracked) # 0
    BY TrackedFinite, FS_EmptySet
  <1>2. count = Cardinality(tracked) + leaving /\ leaving \in Nat
    BY Parts DEF IInv, CountInv, RestOK
  <1> QED BY <1>1, <1>2, TrackedFinite

\* What is owed stays under way, action by action.
LEMMA OwedStep == IInv /\ OwedInv /\ [Next]_vars => OwedInv'
  <1> SUFFICES ASSUME IInv, OwedInv, [Next]_vars, NEW t \in Tabs PROVE Owed(t)'
    BY DEF OwedInv
  <1>0. RestOK /\ CountInv /\ Owed(t)
    BY Parts DEF IInv, OwedInv
  <1>1. /\ owed[t] \in Nat /\ file \in Nat /\ showing[t] \in Nat /\ nudge[t] \in Nat
        /\ owed \in [Tabs -> 0..MaxEdits] /\ stream \in [Tabs -> StreamState]
        /\ nudge \in [Tabs -> Nat] /\ loading \in [Tabs -> BOOLEAN] /\ showing \in [Tabs -> 0..MaxEdits]
    BY <1>0, ArtifactWatchAssumption DEF RestOK
  <1>2. ASSUME NEW u \in Tabs, track(u) PROVE Owed(t)'
    <2>1. count # 0 \/ owed[t] = 0
      BY <1>0, <1>1 DEF Owed, CountInv
    <2>2. fiber' = fiber \/ owed[t] = 0
      BY <1>2, <2>1 DEF track
    <2>3. UNCHANGED <<owed, file, showing, nudge, loading, burst>> /\ (stream[t] = "tracked" => stream'[t] = "tracked")
      BY <1>1, <1>2 DEF track
    <2> QED BY <1>0, <1>1, <2>2, <2>3 DEF Owed
  <1>3. CASE release
    <2>1. owed[t] > 0 => t \in tracked
      BY <1>0 DEF Owed, tracked
    <2>2. owed[t] > 0 => count > 1
      BY <1>3, <2>1, NotTheLast DEF release
    <2>3. UNCHANGED <<owed, file, showing, nudge, loading, stream>>
      BY <1>3 DEF release
    <2>4. owed[t] > 0 => UNCHANGED <<fiber, burst>>
      BY <1>3, <2>2 DEF release
    <2> QED BY <1>0, <1>1, <2>3, <2>4 DEF Owed
  <1>4. CASE Stopped
    <2>1. owed[t] = 0
      BY <1>0, <1>1, <1>4 DEF Stopped, Owed
    <2> QED BY <1>1, <1>4, <2>1 DEF Stopped, Owed
  <1>5. CASE WatchStarts \/ WatchFails
    BY <1>0, <1>1, <1>5 DEF WatchStarts, WatchFails, Owed
  <1>6. CASE Edit
    <2>1. file' = file + 1 /\ UNCHANGED <<fiber, stream, nudge, showing, loading>>
      BY <1>6 DEF Edit
    <2>2. CASE fiber = "watching" /\ t \in tracked
      <3>1. owed'[t] = file' /\ burst'
        BY <1>6, <2>2 DEF Edit
      <3> QED BY <1>1, <2>1, <2>2, <3>1 DEF Owed, tracked
    <2>3. CASE ~(fiber = "watching" /\ t \in tracked)
      <3>1. owed'[t] = owed[t] /\ (burst => burst')
        BY <1>6, <2>3 DEF Edit
      <3> QED BY <1>0, <1>1, <2>1, <3>1 DEF Owed
    <2> QED BY <2>2, <2>3
  <1>7. CASE publish
    <2>1. fiber = "watching" /\ UNCHANGED <<fiber, stream, owed, file, showing, loading>>
      BY <1>7 DEF publish
    <2>2. stream[t] = "tracked" => nudge'[t] > 0
      BY <1>1, <1>7 DEF publish
    <2> QED BY <1>0, <1>1, <2>1, <2>2 DEF Owed
  <1>8. ASSUME NEW u \in Tabs, OpenPage(u) \/ Connect(u) PROVE Owed(t)'
    <2>1. UNCHANGED <<fiber, owed, file, showing, nudge, burst>> /\ (loading[t] => loading'[t])
          /\ (stream[t] = "tracked" => stream'[t] = "tracked")
      BY <1>1, <1>8 DEF OpenPage, Connect
    <2> QED BY <1>0, <1>1, <2>1 DEF Owed
  <1>9. ASSUME NEW u \in Tabs, ReceiveNudge(u) PROVE Owed(t)'
    <2>1. UNCHANGED <<fiber, owed, file, showing, stream, burst>>
          /\ ((nudge'[t] = nudge[t] /\ loading'[t] = loading[t]) \/ loading'[t])
      BY <1>1, <1>9 DEF ReceiveNudge, reload
    <2> QED BY <1>0, <1>1, <2>1 DEF Owed
  <1>10. ASSUME NEW u \in Tabs, Load(u) PROVE Owed(t)'
    <2>1. UNCHANGED <<fiber, owed, file, nudge, stream, burst>>
          /\ ((showing'[t] = showing[t] /\ loading'[t] = loading[t]) \/ showing'[t] = file)
      BY <1>1, <1>10 DEF Load
    <2> QED BY <1>0, <1>1, <2>1 DEF Owed
  <1>11. ASSUME NEW u \in Tabs, HangUp(u) PROVE Owed(t)'
    <2>1. UNCHANGED <<fiber, file, showing, burst>>
      BY <1>11 DEF HangUp
    <2>2. CASE u = t
      <3>1. owed'[t] = 0
        BY <1>1, <1>11, <2>2 DEF HangUp
      <3> QED BY <1>1, <2>1, <3>1 DEF Owed
    <2>3. CASE u # t
      <3>1. owed'[t] = owed[t] /\ nudge'[t] = nudge[t] /\ stream'[t] = stream[t] /\ loading'[t] = loading[t]
        BY <1>1, <1>11, <2>3 DEF HangUp, inFlightAfter
      <3> QED BY <1>0, <1>1, <2>1, <3>1 DEF Owed
    <2> QED BY <2>2, <2>3
  <1>12. CASE UNCHANGED vars
    BY <1>0, <1>12 DEF vars, Owed
  <1> QED BY <1>2, <1>3, <1>4, <1>5, <1>6, <1>7, <1>8, <1>9, <1>10, <1>11, <1>12 DEF Next, Daemon, Browser

(***************************************************************************)
(* No edit that was seen is forgotten: whatever connects, hangs up and is  *)
(* released meanwhile, it is on its way to every page it is owed to.       *)
(***************************************************************************)
THEOREM NoEditIsForgotten == Spec => []EditUnderWay
  <1>1. IInv /\ OwedInv => EditUnderWay
    <2> SUFFICES ASSUME IInv, OwedInv, NEW t \in Tabs, owed[t] > showing[t], fiber # "failed"
                 PROVE  /\ fiber = "watching" /\ stream[t] = "tracked"
                        /\ burst \/ nudge[t] > 0 \/ loading[t]
      BY DEF EditUnderWay
    <2>1. Owed(t) /\ RestOK
      BY Parts DEF OwedInv, IInv
    <2>2. owed[t] > 0
      BY <2>1, ArtifactWatchAssumption DEF RestOK
    <2> QED BY <2>1, <2>2 DEF Owed
  <1> QED BY <1>1, IInvInit, IInvStep, OwedInit, OwedStep, PTL DEF Spec
===============================================================================
