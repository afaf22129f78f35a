------------------------- MODULE DaemonLifecycleProofs -------------------------
(***************************************************************************)
(* What holds of the daemon's lifecycle for any number of clients of any   *)
(* versions and any number of crashes.                                     *)
(***************************************************************************)
EXTENDS DaemonLifecycle, FiniteSetTheorems, TLAPS

USE DEF serverVars

LEMMA PidsAreNumbers == Pids \subseteq Nat /\ 1 \in Pids /\ 0 \notin Pids
  <1>1. IsFiniteSet(Opens)
    BY DaemonLifecycleAssumption, FS_Subset DEF Clients
  <1>2. Cardinality(Opens) \in Nat
    BY <1>1, FS_CardinalityType
  <1> QED BY <1>2 DEF Pids

LEMMA ClientKinds ==
  /\ Opens \subseteq Clients /\ Attaches \subseteq Clients
  /\ \A c \in Opens : c \notin Attaches /\ c \notin Stops
  BY DaemonLifecycleAssumption DEF Clients

\* What a spawn does to the server processes.
LEMMA Spawned ==
  ASSUME TypeOK, NEW c \in Clients, spawnDaemon(c)
  PROVE  /\ phase' \in [Pids -> Phase] /\ version' \in [Pids -> Version] /\ overlap' \in BOOLEAN
         /\ \E p \in Pids : /\ phase[p] = "none" /\ phase'[p] = "starting"
                            /\ \A q \in Pids : q # p => phase'[q] = phase[q] /\ version'[q] = version[q]
         /\ overlap \/ (\E q \in Pids : alive(q)) => overlap'
  <1>1. PICK p \in Pids : /\ phase[p] = "none"
                          /\ phase' = [phase EXCEPT ![p] = "starting"]
                          /\ version' = [version EXCEPT ![p] = VersionOf[c]]
                          /\ overlap' = (overlap \/ \E q \in Pids : alive(q))
    BY DEF spawnDaemon
  <1>2. overlap' \in BOOLEAN /\ (overlap \/ (\E q \in Pids : alive(q)) => overlap')
    BY <1>1, Zenon
  <1> QED BY <1>1, <1>2, DaemonLifecycleAssumption DEF TypeOK, Phase

\* What a request's progress leaves alone.
LEMMA Goes ==
  ASSUME TypeOK, NEW c \in Clients, NEW s \in Step, goes(c, s)
  PROVE  /\ pc' \in [Clients -> Step] /\ pc'[c] = s
         /\ \A d \in Clients : d # c => pc'[d] = pc[d]
  BY DEF goes, TypeOK

LEMMA NothingToStop ==
  ASSUME NEW c \in Clients, nothingToStop(c)
  PROVE  \E s \in {"done", "failed"} : goes(c, s)
  BY DEF nothingToStop

------------------------------------------------------------------------------
LEMMA TypeInit == Init => TypeOK
  <1> SUFFICES ASSUME Init PROVE TypeOK
    OBVIOUS
  <1>1. overlap \in BOOLEAN
    BY Zenon DEF Init
  <1> QED BY <1>1, PidsAreNumbers, DaemonLifecycleAssumption DEF Init, TypeOK, Phase, Step, Version

\* One server process moves.
LEMMA ServerType ==
  ASSUME TypeOK, NEW p \in Pids, Boot(p) \/ IdleShutdown(p) \/ Exit(p) \/ Crash(p)
  PROVE  TypeOK'
  <1> USE PidsAreNumbers
  <1>1. CASE MakeDirectory(p) \/ WritePidfile(p)
    BY <1>1 DEF MakeDirectory, WritePidfile, step, TypeOK, Phase
  <1>2. CASE Bind(p)
    BY <1>2 DEF Bind, PortFree, step, TypeOK, Phase
  <1>3. CASE BindFails(p)
    BY <1>3 DEF BindFails, PortFree, step, TypeOK, Phase
  <1>4. CASE IdleShutdown(p)
    BY <1>4 DEF IdleShutdown, step, TypeOK, Phase
  <1>5. CASE ReleasePort(p)
    <2>1. pc' \in [Clients -> Step]
      BY <1>5 DEF ReleasePort, TypeOK, Step
    <2> QED BY <1>5, <2>1 DEF ReleasePort, Unbound, step, TypeOK, Phase
  <1>6. CASE RemovePidfile(p)
    BY <1>6 DEF RemovePidfile, step, TypeOK, Phase
  <1>7. CASE Crash(p)
    <2>1. pc' \in [Clients -> Step]
      BY <1>7 DEF Crash, TypeOK, Step
    <2>2. crashes' \in 0..MaxCrashes
      BY <1>7, DaemonLifecycleAssumption DEF Crash, TypeOK
    <2> QED BY <1>7, <2>1, <2>2 DEF Crash, Unbound, alive, TypeOK, Phase
  <1> QED BY <1>1, <1>2, <1>3, <1>4, <1>5, <1>6, <1>7 DEF Boot, Exit

\* One client moves.
LEMMA ClientType ==
  ASSUME TypeOK, NEW c \in Clients, Client(c) \/ PollEnds(c)
  PROVE  TypeOK'
  <1> USE PidsAreNumbers
  <1>1. CASE PingRefused(c)
    <2>1. port = 0 /\ UNCHANGED <<port, pidfile, at, signalled, crashes>>
      BY <1>1 DEF PingRefused
    <2>2. pc' \in [Clients -> Step]
      BY <1>1, Goes DEF PingRefused, Step
    <2>3. phase' \in [Pids -> Phase] /\ version' \in [Pids -> Version] /\ overlap' \in BOOLEAN
          /\ \A p \in Pids : phase'[p] # "serving"
      <3>1. \A p \in Pids : phase[p] # "serving"
        BY <2>1 DEF TypeOK
      <3>2. CASE spawnDaemon(c)
        BY <3>1, <3>2, Spawned
      <3>3. CASE UNCHANGED <<phase, version, overlap>>
        BY <3>1, <3>3 DEF TypeOK
      <3> QED BY <1>1, <3>2, <3>3 DEF PingRefused
    <2> QED BY <2>1, <2>2, <2>3 DEF TypeOK
  <1>2. CASE Healthy(c)
    <2>1. pc' \in [Clients -> Step]
      BY <1>2, Goes DEF Healthy, Step
    <2>2. at' \in [Clients -> Pids \union {0}]
      BY <1>2 DEF Healthy, TypeOK
    <2>3. UNCHANGED <<port, pidfile, phase, version, signalled, overlap, crashes>>
      BY <1>2 DEF Healthy
    <2> QED BY <2>1, <2>2, <2>3 DEF TypeOK
  <1>3. CASE HealthyAgain(c)
    <2>1. pc' \in [Clients -> Step]
      BY <1>3, Goes DEF HealthyAgain, Step
    <2> QED BY <1>3, <2>1 DEF HealthyAgain, TypeOK
  <1>4. CASE FindPidfile(c)
    <2>1. pc' \in [Clients -> Step]
      BY <1>4, Goes, NothingToStop DEF FindPidfile, Step
    <2> QED BY <1>4, <2>1 DEF FindPidfile, TypeOK
  <1>5. CASE Signal(c)
    <2>1. pc' \in [Clients -> Step]
      <3>1. \E s \in Step : goes(c, s)
        BY <1>5, NothingToStop DEF Signal, Step
      <3> QED BY <3>1, Goes
    <2>2. signalled' \subseteq Clients \X Pids
      BY <1>5 DEF Signal, named, TypeOK
    <2>3. /\ phase' \in [Pids -> Phase]
          /\ \A p \in Pids : phase'[p] = phase[p] \/ (phase[p] \in {"binding", "serving", "lingering"} /\ phase'[p] = "closing")
      BY <1>5 DEF Signal, named, TypeOK, Phase
    <2>4. UNCHANGED <<port, pidfile, version, at, overlap, crashes>>
      BY <1>5 DEF Signal
    <2> QED BY <2>1, <2>2, <2>3, <2>4 DEF TypeOK
  <1>6. CASE PortFreed(c)
    <2>1. pc' \in [Clients -> Step]
      BY <1>6, Goes DEF PortFreed, Step
    <2>2. port = 0 /\ \A p \in Pids : phase[p] # "serving"
      BY <1>6 DEF PortFreed, TypeOK
    <2>3. /\ phase' \in [Pids -> Phase] /\ version' \in [Pids -> Version] /\ overlap' \in BOOLEAN
          /\ \A p \in Pids : phase'[p] # "serving"
      BY <1>6, <2>2, Spawned DEF PortFreed
    <2> QED BY <1>6, <2>1, <2>2, <2>3 DEF PortFreed, TypeOK
  <1>7. CASE TimeOut(c)
    <2>1. pc' \in [Clients -> Step]
      BY <1>7, Goes DEF TimeOut, Step
    <2> QED BY <1>7, <2>1 DEF TimeOut, TypeOK
  <1>8. CASE Post(c)
    <2>1. pc' \in [Clients -> Step]
      <3>1. \E s \in Step : goes(c, s)
        BY <1>8 DEF Post, Step
      <3> QED BY <3>1, Goes
    <2>2. at' \in [Clients -> Pids \union {0}]
      BY <1>8 DEF Post, TypeOK
    <2> QED BY <1>8, <2>1, <2>2 DEF Post, TypeOK
  <1>9. CASE PollEnds(c)
    <2>1. pc' \in [Clients -> Step]
      BY <1>9, Goes DEF PollEnds, Step
    <2> QED BY <1>9, <2>1 DEF PollEnds, TypeOK
  <1> QED BY <1>1, <1>2, <1>3, <1>4, <1>5, <1>6, <1>7, <1>8, <1>9 DEF Client, Ensures

LEMMA TypeStep == TypeOK /\ [Next]_vars => TypeOK'
  <1> SUFFICES ASSUME TypeOK, [Next]_vars PROVE TypeOK'
    OBVIOUS
  <1>1. CASE UNCHANGED vars
    BY <1>1 DEF vars, TypeOK
  <1> QED BY <1>1, ServerType, ClientType DEF Next

(***************************************************************************)
(* Processes, clients and the pidfile keep their types, and one process    *)
(* listens on the port: a bind that finds it taken never serves.           *)
(***************************************************************************)
THEOREM TypeCorrect == Spec => []TypeOK
  BY TypeInit, TypeStep, PTL DEF Spec

------------------------------------------------------------------------------
(***************************************************************************)
(* Until servers overlap one process at most is alive, and from the moment *)
(* it has written its pid until it cleans up nobody else touches the       *)
(* pidfile.                                                                *)
(***************************************************************************)
Written == {"binding", "serving", "lingering", "closing", "cleaning"}

LoneInv ==
  ~ overlap => /\ \A p, q \in Pids : alive(p) /\ alive(q) => p = q
               /\ \A p \in Pids : phase[p] \in Written => pidfile = p

\* The daemon an open has found stale is one it may replace.
StaleInv ==
  \A c \in Opens : pc[c] \in {"evicting", "reading", "freeing"} =>
     /\ at[c] \in Pids /\ phase[at[c]] # "none"
     /\ isStaleVersion(version[at[c]], VersionOf[c])

LifecycleInv == LoneInv /\ StaleInv

LEMMA LifecycleInit == Init => LifecycleInv
  <1> SUFFICES ASSUME Init PROVE LifecycleInv
    OBVIOUS
  <1>1. LoneInv
    BY PidsAreNumbers DEF Init, LoneInv, Written, alive
  <1>2. StaleInv
    BY ClientKinds DEF Init, StaleInv
  <1> QED BY <1>1, <1>2 DEF LifecycleInv

LEMMA ServerStep ==
  ASSUME TypeOK, LifecycleInv, NEW p \in Pids, Boot(p) \/ IdleShutdown(p) \/ Exit(p) \/ Crash(p)
  PROVE  LifecycleInv'
  <1>1. LoneInv /\ StaleInv
    BY DEF LifecycleInv
  <1>2. /\ alive(p) /\ phase'[p] # "none" /\ \A q \in Pids : q # p => phase'[q] = phase[q]
        /\ UNCHANGED <<version, at, overlap>>
    BY DEF Boot, IdleShutdown, Exit, Crash, MakeDirectory, WritePidfile, Bind, BindFails, ReleasePort,
           RemovePidfile, step, alive, TypeOK
  <1>3. pidfile' = pidfile \/ phase'[p] \notin Written \/ pidfile' = p
    BY DEF Boot, IdleShutdown, Exit, Crash, MakeDirectory, WritePidfile, Bind, BindFails, ReleasePort,
           RemovePidfile, step, Written, TypeOK
  <1>4. phase'[p] \in Written => phase[p] \in Written \/ pidfile' = p
    BY DEF Boot, IdleShutdown, Exit, Crash, MakeDirectory, WritePidfile, Bind, BindFails, ReleasePort,
           RemovePidfile, step, Written, TypeOK
  <1>5. LoneInv'
    <2> SUFFICES ASSUME ~ overlap
                 PROVE  /\ \A q, r \in Pids : alive(q)' /\ alive(r)' => q = r
                        /\ \A q \in Pids : phase'[q] \in Written => pidfile' = q
      BY <1>2 DEF LoneInv
    <2>1. \A q \in Pids : q # p => ~ alive(q) /\ ~ alive(q)' /\ phase'[q] \notin Written
      BY <1>1, <1>2 DEF LoneInv, alive, Written
    <2>2. phase'[p] \in Written => pidfile' = p
      BY <1>1, <1>3, <1>4 DEF LoneInv
    <2> QED BY <2>1, <2>2
  <1>6. StaleInv'
    <2>1. \A c \in Opens : pc'[c] = pc[c] \/ pc'[c] = "failed"
      BY ClientKinds DEF Boot, IdleShutdown, Exit, Crash, MakeDirectory, WritePidfile, Bind, BindFails,
             ReleasePort, RemovePidfile, TypeOK
    <2> QED BY <1>1, <1>2, <2>1 DEF StaleInv
  <1> QED BY <1>5, <1>6 DEF LifecycleInv

LEMMA ClientStep ==
  ASSUME TypeOK, LifecycleInv, NEW c \in Clients, Client(c) \/ PollEnds(c)
  PROVE  LifecycleInv'
  <1>1. LoneInv /\ StaleInv
    BY DEF LifecycleInv
  <1>2. pidfile' = pidfile
    BY DEF Client, PollEnds, Ensures, PingRefused, Healthy, HealthyAgain, PortFreed, FindPidfile, Signal,
           TimeOut, Post
  <1>3. \/ spawnDaemon(c)
        \/ /\ UNCHANGED <<version, overlap>>
           /\ \A p \in Pids : \/ phase'[p] = phase[p]
                              \/ phase[p] \in Written /\ phase'[p] = "closing"
    BY DEF Client, PollEnds, Ensures, PingRefused, Healthy, HealthyAgain, PortFreed, FindPidfile, Signal,
           TimeOut, Post, TypeOK, Written
  <1>4. LoneInv'
    <2>1. CASE spawnDaemon(c)
      <3>1. PICK p \in Pids : /\ phase[p] = "none" /\ phase'[p] = "starting"
                              /\ \A q \in Pids : q # p => phase'[q] = phase[q] /\ version'[q] = version[q]
        BY <2>1, Spawned
      <3>2. ASSUME ~ overlap' PROVE \A q \in Pids : ~ alive(q)
        BY <2>1, <3>2, Spawned
      <3> QED BY <3>1, <3>2 DEF LoneInv, alive, Written
    <2>2. CASE ~ spawnDaemon(c)
      BY <1>1, <1>2, <1>3, <2>2 DEF LoneInv, alive, Written
    <2> QED BY <2>1, <2>2
  <1>5. \A p \in Pids : phase[p] # "none" => phase'[p] # "none" /\ version'[p] = version[p]
    <2>1. CASE spawnDaemon(c)
      BY <2>1, Spawned
    <2>2. CASE ~ spawnDaemon(c)
      BY <1>3, <2>2
    <2> QED BY <2>1, <2>2
  <1>6. StaleInv'
    <2> SUFFICES ASSUME NEW d \in Opens, pc'[d] \in {"evicting", "reading", "freeing"}
                 PROVE  /\ at'[d] \in Pids /\ phase'[at'[d]] # "none"
                        /\ isStaleVersion(version'[at'[d]], VersionOf[d])
      BY DEF StaleInv, isStaleVersion
    <2>1. CASE pc[d] \in {"evicting", "reading", "freeing"} /\ at'[d] = at[d]
      BY <1>1, <1>5, <2>1 DEF StaleInv
    <2>2. CASE d = c /\ Healthy(c) /\ at'[d] = port /\ stale(c)
      <3>1. port \in Pids /\ phase[port] # "none" /\ isStaleVersion(version[port], VersionOf[d])
        BY <2>2 DEF stale, TypeOK
      <3> QED BY <1>5, <2>2, <3>1
    <2>3. \/ pc[d] \in {"evicting", "reading", "freeing"} /\ at'[d] = at[d]
          \/ d = c /\ Healthy(c) /\ at'[d] = port /\ stale(c)
      <3>0. d \in Clients /\ d \notin Stops /\ d \notin Attaches
        BY ClientKinds
      <3>1. CASE d # c
        BY <3>0, <3>1 DEF Client, PollEnds, Ensures, PingRefused, Healthy, HealthyAgain, PortFreed,
              FindPidfile, Signal, TimeOut, Post, nothingToStop, goes, TypeOK
      <3>2. CASE d = c
        BY <3>0, <3>2 DEF Client, PollEnds, Ensures, PingRefused, Healthy, HealthyAgain, PortFreed,
              FindPidfile, Signal, TimeOut, Post, nothingToStop, goes, TypeOK
      <3> QED BY <3>1, <3>2
    <2> QED BY <2>1, <2>2, <2>3
  <1> QED BY <1>4, <1>6 DEF LifecycleInv

LEMMA LifecycleStep == TypeOK /\ LifecycleInv /\ [Next]_vars => LifecycleInv'
  <1> SUFFICES ASSUME TypeOK, LifecycleInv, [Next]_vars PROVE LifecycleInv'
    OBVIOUS
  <1>1. CASE UNCHANGED vars
    BY <1>1 DEF vars, LifecycleInv, LoneInv, StaleInv, alive, isStaleVersion
  <1> QED BY <1>1, ServerStep, ClientStep DEF Next

LEMMA Invariants == Spec => [](TypeOK /\ LifecycleInv)
  BY TypeInit, TypeStep, LifecycleInit, LifecycleStep, PTL DEF Spec

(***************************************************************************)
(* LoneDaemonIsNamed: only servers that overlap can leave the daemon that  *)
(* serves without its pidfile, however many clients spawned, stopped and   *)
(* crashed it.                                                             *)
(***************************************************************************)
THEOREM DaemonIsNamed == Spec => []LoneDaemonIsNamed
  <1>1. LifecycleInv => LoneDaemonIsNamed
    BY DEF LifecycleInv, LoneInv, Written, LoneDaemonIsNamed
  <1> QED BY Invariants, <1>1, PTL

(***************************************************************************)
(* OnlyOlderIsEvicted: without overlapping servers, and unless the daemon  *)
(* it found is dead by then, a takeover signals the very daemon it found   *)
(* stale.                                                                  *)
(***************************************************************************)
THEOREM EvictsOnlyOlder == Spec => OnlyOlderIsEvicted
  <1> DEFINE Step_ == \A c \in Opens, p \in Pids :
                        <<c, p>> \in signalled' \ signalled
                          => \/ isStaleVersion(version[p], VersionOf[c])
                             \/ phase[at[c]] = "dead"
                             \/ overlap
  <1>1. TypeOK /\ LifecycleInv /\ [Next]_vars => [Step_]_vars
    <2> SUFFICES ASSUME TypeOK, LifecycleInv, Next, NEW c \in Opens, NEW p \in Pids,
                        <<c, p>> \in signalled' \ signalled, phase[at[c]] # "dead", ~ overlap
                 PROVE  isStaleVersion(version[p], VersionOf[c])
      OBVIOUS
    <2>1. Signal(c) /\ pc[c] = "reading" /\ p \in named
      <3>1. ASSUME NEW q \in Pids, Boot(q) \/ IdleShutdown(q) \/ Exit(q) \/ Crash(q) PROVE FALSE
        BY <3>1 DEF Boot, IdleShutdown, Exit, Crash, MakeDirectory, WritePidfile, Bind, BindFails,
                    ReleasePort, RemovePidfile
      <3>2. ASSUME NEW d \in Clients, Client(d) \/ PollEnds(d)
            PROVE  Signal(d) /\ named # {} /\ signalled' = signalled \union {<<d, pidfile>>}
        BY <3>2 DEF Client, PollEnds, Ensures, PingRefused, Healthy, HealthyAgain, PortFreed, FindPidfile,
                    Signal, TimeOut, Post
      <3>3. PICK d \in Clients : Signal(d) /\ named # {} /\ signalled' = signalled \union {<<d, pidfile>>}
        BY <3>1, <3>2 DEF Next
      <3>4. d = c /\ p = pidfile
        BY <3>3
      <3> QED BY <3>3, <3>4 DEF Signal, named
    <2>2. alive(p)
      BY <2>1 DEF named
    <2>3. at[c] \in Pids /\ alive(at[c]) /\ isStaleVersion(version[at[c]], VersionOf[c])
      BY <2>1 DEF LifecycleInv, StaleInv, alive
    <2>4. p = at[c]
      BY <2>2, <2>3 DEF LifecycleInv, LoneInv
    <2> QED BY <2>3, <2>4
  <1> QED BY Invariants, <1>1, PTL DEF Spec, OnlyOlderIsEvicted, Step_
===============================================================================
