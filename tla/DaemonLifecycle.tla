---------------------------- MODULE DaemonLifecycle ----------------------------
(***************************************************************************)
(* How the daemon comes and goes: the CLI clients that spawn it, reuse it, *)
(* take it over or stop it (ServerLifecycle), the server command with its  *)
(* pidfile, the port that only one process can hold, and the idle          *)
(* shutdown.  Clients share nothing but the port and the pidfile.          *)
(***************************************************************************)
EXTENDS Naturals, FiniteSets

CONSTANTS
  Opens,        \* runs of `intervu <file>`
  Polls,        \* runs of `intervu poll`
  Ends,         \* runs of `intervu end`
  Stops,        \* runs of `intervu stop`
  VersionOf,    \* the version of each client, and of the daemons it spawns
  OldVersions,  \* versions a daemon that was there before may have
  Unparsed,     \* a version that is not three dot-separated integers
  Absent,       \* the pidfile: there is none
  Garbled,      \* the pidfile while it is being written: no number
  MaxCrashes    \* bound: daemons killed without a chance to clean up

Attaches == Polls \union Ends
Clients == Opens \union Attaches \union Stops

Version == (Nat \X Nat \X Nat) \union {Unparsed}

ASSUME DaemonLifecycleAssumption ==
  /\ IsFiniteSet(Clients)
  /\ Opens \intersect Attaches = {} /\ Polls \intersect Ends = {}
  /\ (Opens \union Attaches) \intersect Stops = {}
  /\ VersionOf \in [Clients -> Version]
  /\ OldVersions \subseteq Version
  /\ Absent \notin Nat /\ Garbled \notin Nat /\ Absent # Garbled
  /\ MaxCrashes \in Nat

\* Bound: an open spawns twice at most; daemon 1 is the one found running, if any.
Pids == 1..(1 + 2 * Cardinality(Opens))

VARIABLES
  port,       \* the process that listens on the port, or 0
  pidfile,    \* Absent, Garbled, or a pid
  phase,      \* [Pids -> Phase]: the server processes
  version,    \* [Pids -> Version]
  pc,         \* [Clients -> Step]: where each client is
  at,         \* [Clients -> Pids \union {0}]: the daemon it found stale, or that took its request
  signalled,  \* history: pairs of a client and the pid its SIGTERM reached
  overlap,    \* history: a server was spawned while another was not dead
  crashes     \* counter of the bound

vars == <<port, pidfile, phase, version, pc, at, signalled, overlap, crashes>>

\* "binding": the pidfile is written, the port not yet bound.  "lingering": the port was
\* taken, and the race waits for the idle watcher.  "closing": interrupted.  "cleaning":
\* the server scope is released, the pidfile is still to be removed.
Phase == {"none", "starting", "writing", "binding", "serving", "lingering", "closing",
          "cleaning", "dead"}

\* "waiting": for the health of its own spawn.  "evicting": about to look for the
\* pidfile, "reading": about to read it and signal.  "freeing": for the port of the
\* stale daemon.  "respawned": for health after that.  "posting": past the checks.
Step == {"start", "waiting", "evicting", "reading", "freeing", "respawned", "posting",
         "polling", "done", "failed"}

alive(p) == phase[p] \notin {"none", "dead"}

(***************************************************************************)
(* Types, and: one process listens on the port, the one that is serving or *)
(* closes.                                                                 *)
(***************************************************************************)
TypeOK ==
  /\ port \in Pids \union {0}
  /\ pidfile \in {Absent, Garbled} \union Pids
  /\ phase \in [Pids -> Phase]
  /\ version \in [Pids -> Version]
  /\ pc \in [Clients -> Step]
  /\ at \in [Clients -> Pids \union {0}]
  /\ signalled \subseteq Clients \X Pids
  /\ overlap \in BOOLEAN
  /\ crashes \in 0..MaxCrashes
  /\ \A p \in Pids : phase[p] = "serving" => port = p
  /\ port # 0 => phase[port] \in {"serving", "closing"}

\* Nothing runs, or a daemon of some version serves.
Init ==
  /\ \/ /\ port = 0
        /\ pidfile = Absent
        /\ phase = [p \in Pids |-> "none"]
        /\ version = [p \in Pids |-> Unparsed]
     \/ /\ port = 1
        /\ pidfile = 1
        /\ phase = [p \in Pids |-> IF p = 1 THEN "serving" ELSE "none"]
        /\ \E v \in OldVersions :
             version = [p \in Pids |-> IF p = 1 THEN v ELSE Unparsed]
  /\ pc = [c \in Clients |-> IF c \in Stops THEN "evicting" ELSE "start"]
  /\ at = [c \in Clients |-> 0]
  /\ signalled = {}
  /\ overlap = FALSE
  /\ crashes = 0

------------------------------------------------------------------------------
(***************************************************************************)
(* The server command.                                                     *)
(***************************************************************************)
serverVars == <<version, pc, at, signalled, overlap, crashes>>

step(p, from, to) == /\ phase[p] = from
                     /\ phase' = [phase EXCEPT ![p] = to]

\* Mutant: the pidfile is created exclusively, and a failure to do so only logged.
MakeDirectory_Exclusive(p) ==
  /\ \/ pidfile = Absent /\ pidfile' = Garbled /\ step(p, "starting", "writing")
     \/ pidfile # Absent /\ pidfile' = pidfile /\ step(p, "starting", "binding")
  /\ UNCHANGED <<port, serverVars>>

\* The state directory, then the open and truncation of the pidfile.
MakeDirectory(p) ==
  /\ step(p, "starting", "writing")
  /\ pidfile' = Garbled
  /\ UNCHANGED <<port, serverVars>>

\* The pidfile is written before the port is bound.
WritePidfile(p) ==
  /\ step(p, "writing", "binding")
  /\ pidfile' = p
  /\ UNCHANGED <<port, serverVars>>

\* Mutant: the port is shared (reusePort).
PortFree_Shared == TRUE

PortFree == port = 0

Bind(p) ==
  /\ PortFree
  /\ step(p, "binding", "serving")
  /\ port' = p
  /\ UNCHANGED <<pidfile, serverVars>>

\* The launch fails.  A race settles with its first success, so it may wait for the
\* idle watcher; the finalizer runs in either case.
BindFails(p) ==
  /\ ~ PortFree
  /\ \/ step(p, "binding", "lingering")
     \/ step(p, "binding", "cleaning")
  /\ UNCHANGED <<port, pidfile, serverVars>>

polling(p) == {c \in Clients : pc[c] = "polling" /\ at[c] = p}

\* Mutant: the gauge's first value, 0, starts no grace window.
IdleShutdown_OnceWatched(p) ==
  /\ polling(p) = {} /\ \E c \in Polls : at[c] = p
  /\ \E from \in {"binding", "serving", "lingering"} : step(p, from, "closing")
  /\ UNCHANGED <<port, pidfile, serverVars>>

\* No live connection for the whole grace window.
IdleShutdown(p) ==
  /\ polling(p) = {}
  /\ \/ step(p, "binding", "closing")
     \/ step(p, "serving", "closing")
     \/ step(p, "lingering", "closing")
  /\ UNCHANGED <<port, pidfile, serverVars>>

Unbound(p) == port' = IF port = p THEN 0 ELSE port

\* Mutant: the server waits for its long-polls to end by themselves.
ReleasePort_AfterPolls(p) ==
  /\ polling(p) = {}
  /\ step(p, "closing", "cleaning")
  /\ Unbound(p)
  /\ UNCHANGED <<pidfile, serverVars>>

\* The server scope is released: requests in flight are interrupted with it.
ReleasePort(p) ==
  /\ step(p, "closing", "cleaning")
  /\ Unbound(p)
  /\ pc' = [c \in Clients |-> IF c \in polling(p) THEN "failed" ELSE pc[c]]
  /\ UNCHANGED <<pidfile, version, at, signalled, overlap, crashes>>

\* Whatever the pidfile says by now.
RemovePidfile(p) ==
  /\ step(p, "cleaning", "dead")
  /\ pidfile' = Absent
  /\ UNCHANGED <<port, serverVars>>

\* SIGKILL, a crash, a reboot: no finalizer runs.
Crash(p) ==
  /\ crashes < MaxCrashes
  /\ alive(p)
  /\ phase' = [phase EXCEPT ![p] = "dead"]
  /\ Unbound(p)
  /\ pc' = [c \in Clients |-> IF c \in polling(p) THEN "failed" ELSE pc[c]]
  /\ crashes' = crashes + 1
  /\ UNCHANGED <<pidfile, version, at, signalled, overlap>>

------------------------------------------------------------------------------
(***************************************************************************)
(* The clients.                                                            *)
(***************************************************************************)
older(v, w) == \/ v[1] < w[1]
               \/ v[1] = w[1] /\ v[2] < w[2]
               \/ v[1] = w[1] /\ v[2] = w[2] /\ v[3] < w[3]

isStaleVersion(running, client) ==
  running # Unparsed => (client # Unparsed /\ older(running, client))

goes(c, to) == pc' = [pc EXCEPT ![c] = to]

spawnDaemon(c) ==
  \E p \in Pids :
    /\ p > 1 /\ phase[p] = "none" /\ (p > 2 => phase[p - 1] # "none")
    /\ phase' = [phase EXCEPT ![p] = "starting"]
    /\ version' = [version EXCEPT ![p] = VersionOf[c]]
    /\ overlap' = (overlap \/ \E q \in Pids : alive(q))

\* Mutant: any other version is taken over.
stale_AnyOther(c) == port # 0 /\ version[port] # VersionOf[c]

stale(c) == port # 0 /\ isStaleVersion(version[port], VersionOf[c])

\* ensure and requireHealthy: the first ping, refused.
PingRefused(c) ==
  /\ pc[c] = "start"
  /\ port = 0
  /\ \/ /\ c \in Opens
        /\ spawnDaemon(c)
        /\ goes(c, "waiting")
     \/ /\ c \in Attaches
        /\ goes(c, "failed")
        /\ UNCHANGED <<phase, version, overlap>>
  /\ UNCHANGED <<port, pidfile, at, signalled, crashes>>

\* The health answer of whichever daemon listens: an open takes a stale one over.
Healthy(c) ==
  /\ pc[c] \in {"start", "waiting"}
  /\ port # 0
  /\ \/ ~ stale(c) /\ goes(c, "posting") /\ at' = at
     \/ stale(c) /\ c \in Opens /\ goes(c, "evicting") /\ at' = [at EXCEPT ![c] = port]
     \/ stale(c) /\ c \in Attaches /\ goes(c, "failed") /\ at' = at
  /\ UNCHANGED <<port, pidfile, phase, version, signalled, overlap, crashes>>

\* After a takeover the health answer is taken as it is.
HealthyAgain(c) ==
  /\ pc[c] = "respawned"
  /\ port # 0
  /\ goes(c, "posting")
  /\ UNCHANGED <<port, pidfile, phase, version, at, signalled, overlap, crashes>>

nothingToStop(c) == goes(c, IF c \in Stops THEN "done" ELSE "failed")

\* signalStop: fs.exists.
FindPidfile(c) ==
  /\ pc[c] = "evicting"
  /\ \/ pidfile = Absent /\ nothingToStop(c)
     \/ pidfile # Absent /\ goes(c, "reading")
  /\ UNCHANGED <<port, pidfile, phase, version, at, signalled, overlap, crashes>>

named == {p \in Pids : pidfile = p /\ alive(p)}

\* Then the file is read and the pid signalled: gone, no number, a dead process, or a
\* live one, whichever daemon that is.
Signal(c) ==
  /\ pc[c] = "reading"
  /\ \/ /\ pidfile = Absent
        /\ goes(c, "failed")
        /\ UNCHANGED <<phase, signalled>>
     \/ /\ pidfile # Absent
        /\ named = {}
        /\ nothingToStop(c)
        /\ UNCHANGED <<phase, signalled>>
     \/ /\ named # {}
        /\ signalled' = signalled \union {<<c, pidfile>>}
        /\ phase' = IF phase[pidfile] \in {"binding", "serving", "lingering"}
                    THEN [phase EXCEPT ![pidfile] = "closing"] ELSE phase
        /\ goes(c, IF c \in Stops THEN "done" ELSE "freeing")
  /\ UNCHANGED <<port, pidfile, version, at, overlap, crashes>>

\* waitPortFree, then the spawn.
PortFreed(c) ==
  /\ pc[c] = "freeing"
  /\ port = 0
  /\ spawnDaemon(c)
  /\ goes(c, "respawned")
  /\ UNCHANGED <<port, pidfile, at, signalled, crashes>>

\* Mutant: a fresh spawn is waited for without bound.
TimeOut_OnlyFreeing(c) ==
  /\ pc[c] = "freeing"
  /\ goes(c, "failed")
  /\ UNCHANGED <<port, pidfile, phase, version, at, signalled, overlap, crashes>>

\* waitHealthy and waitPortFree give up after five seconds.
TimeOut(c) ==
  /\ pc[c] \in {"waiting", "respawned", "freeing"}
  /\ goes(c, "failed")
  /\ UNCHANGED <<port, pidfile, phase, version, at, signalled, overlap, crashes>>

\* POST /sessions, /end or /poll, to whichever daemon listens by now.
Post(c) ==
  /\ pc[c] = "posting"
  /\ \/ /\ port = 0
        /\ goes(c, "failed")
        /\ at' = at
     \/ /\ port # 0
        /\ at' = [at EXCEPT ![c] = port]
        /\ goes(c, IF c \in Polls THEN "polling" ELSE "done")
  /\ UNCHANGED <<port, pidfile, phase, version, signalled, overlap, crashes>>

\* The long-poll is answered, or its client killed.
PollEnds(c) ==
  /\ pc[c] = "polling"
  /\ goes(c, "done")
  /\ UNCHANGED <<port, pidfile, phase, version, at, signalled, overlap, crashes>>

------------------------------------------------------------------------------
Boot(p)    == MakeDirectory(p) \/ WritePidfile(p) \/ Bind(p) \/ BindFails(p)
Exit(p)    == ReleasePort(p) \/ RemovePidfile(p)
Ensures(c) == PingRefused(c) \/ Healthy(c) \/ HealthyAgain(c) \/ PortFreed(c)
Client(c)  == Ensures(c) \/ FindPidfile(c) \/ Signal(c) \/ TimeOut(c) \/ Post(c)

Next == \/ \E p \in Pids : Boot(p) \/ IdleShutdown(p) \/ Exit(p) \/ Crash(p)
        \/ \E c \in Clients : Client(c) \/ PollEnds(c)

Spec == Init /\ [][Next]_vars

\* Processes and clients run, and a grace window that nothing interrupts ends; nobody has
\* to answer a poll or to crash.
LiveSpec == /\ Spec
            /\ \A p \in Pids : WF_vars(Boot(p)) /\ WF_vars(Exit(p)) /\ WF_vars(IdleShutdown(p))
            /\ \A c \in Clients : WF_vars(Client(c))

------------------------------------------------------------------------------
(***************************************************************************)
(* As long as no server was ever spawned beside another one that had not   *)
(* ended, the pidfile names the daemon that serves, also after a crash     *)
(* left an old one behind: the next stop or takeover reaches it (ADR 0015: *)
(* "every version writes the same pidfile").  Two servers that overlap are *)
(* the only way to orphan a daemon.                                        *)
(***************************************************************************)
LoneDaemonIsNamed ==
  \A p \in Pids : phase[p] = "serving" /\ ~ overlap => pidfile = p

(***************************************************************************)
(* Every command settles: its waits are bounded, so whatever other clients *)
(* spawn and stop meanwhile it ends, with success or a structured error,   *)
(* or it holds a long-poll.                                                *)
(***************************************************************************)
CommandsSettle ==
  \A c \in Clients : <>(pc[c] \in {"done", "failed", "polling"})

(***************************************************************************)
(* A server process never dangles: whether it serves, never got the port,  *)
(* was never connected to or lost its connections, it ends unless a poll   *)
(* is held on it (main.ts:185 "so a respawned-but-unwatched or             *)
(* cleanly-ended daemon never dangles"), and even then once a SIGTERM was  *)
(* reported as delivered to it.                                            *)
(***************************************************************************)
ServersEnd ==
  \A p \in Pids :
     alive(p) ~> \/ phase[p] = "dead"
                 \/ polling(p) # {} /\ \A c \in Clients : <<c, p>> \notin signalled

(***************************************************************************)
(* A takeover signals a daemon that is not older than its client only if   *)
(* the stale one it had found ended before the pidfile was read, or if     *)
(* servers overlapped.  (ADR 0015 has no such exception: "the only client  *)
(* that ever replaces a server is a strictly-newer one".)                  *)
(***************************************************************************)
OnlyOlderIsEvicted ==
  [][\A c \in Opens, p \in Pids :
       <<c, p>> \in signalled' \ signalled
         => \/ isStaleVersion(version[p], VersionOf[c])
            \/ phase[at[c]] = "dead"
            \/ overlap]_vars
==============================================================================
