# Verification of intervu

intervu lets a human review an HTML artifact in the browser while an agent edits it. One
loopback daemon owns all review state; a CLI (`intervu`) and a browser page (the chrome) are
thin HTTP clients of it. This directory holds TLA+ modules translated from the source of the
daemon, the CLI, the page and the artifact's SDK, TLC configurations that check them on small
instances, and TLAPS proofs of what holds on every instance. All paths below are relative to the
repository root.

## 1. Inventory

| Component | Source | State | Operations | Interacts with |
|---|---|---|---|---|
| SessionStore | `src/src/SessionStore.ts`, `Session.ts` | session set (memory), undrained queue and Conversation per session (memory only) | open, end, get, queueFeedback, takeFeedback, appendConversation, conversationSince | SessionPersistence under a mutex; all routes |
| SessionPersistence | `src/src/SessionPersistence.ts` | `state.json`, `state.json.tmp` | load, save | file system |
| SessionHub | `src/src/SessionHub.ts` | a PubSub, a subscriber count and a presence state per session, a global connection gauge | publish, subscribe, enterPoll, exitPoll | polls and event streams (callbacks by subscription), IdleShutdown |
| FeedbackWait | `src/src/FeedbackWait.ts` | per poll: subscription, delivered flag | wait (subscribe, drain, suspend, wake, heartbeat, timeout) | SessionStore, SessionHub |
| Routes | `src/src/Server.ts`, `Protocol.ts`, `Sse.ts` | none of their own; a status snapshot across the body's await | sessions, feedback, poll, end (two), events | all of the above |
| ArtifactWatcher | `src/src/ArtifactWatcher.ts` | reference count and watcher fiber per artifact | track, release | event streams, file system, SessionHub |
| IdleShutdown | `src/src/IdleShutdown.ts` | a grace timer | watch | connection gauge, `main.ts server` |
| ServerLifecycle and daemon commands | `src/src/ServerLifecycle.ts`, `main.ts` | pidfile, port, daemon processes | ensure, takeover, stop, spawn, requireHealthy | processes, the daemon's `/health` |
| CLI commands and what they print | `src/src/main.ts`, `Errors.ts`, `ErrorReport.ts`, `Output.ts` | none; the agent remembers the last document | home, open, poll, end, stop | the daemon, the agent (by the help line of each document) |
| Chrome: composer | `src/src/chrome/entry.ts` | textarea, pending rows, toggle, buttons, timers | submit, submitEnd, End, remove, toggle, reload | routes, SDK by postMessage |
| Chrome: live channel | `src/src/chrome/entry.ts` | rendered conversation, cursor, presence, ended flag | onmessage per event | event stream |
| SDK and Bridge | `src/src/sdk/` | mode, markers, the message channels | capture, overlay, snapshot, set-mode | chrome by postMessage |
| Setup | `src/src/Setup.ts`, `ClaudeSettings.ts` | SKILL.md, settings.json and its tmp file | install | file system |

Not state machines: configuration and browser launch (`AppConfig.ts`, `Browser.ts`), static assets
(`ArtifactAssets.ts` but for the page it renders, `BrowserAssets.ts`, `generated/`), the TOON
encoding (`Toon.ts`), and the DOM helpers of capture and selectors.

### How the parts interact

The daemon, the CLI runs and the pages are separate processes. Inside the daemon everything is
one JavaScript thread: Effect fibers that run without interruption from one suspension point to
the next. State is shared through `Ref`s (updated within one run), `SynchronizedRef`s (a mutex
that is held across awaits: the session set, the hubs, the watchers) and a `PubSub` per session,
through which routes and the watcher call back into polls and event streams. Between processes
there are HTTP requests, one SSE stream per page, the files `state.json` and `server.pid`, the
TCP port, and SIGTERM; between page and artifact iframe there is `postMessage`; between CLI and
agent there is what a command prints.

### What is hard here, and what makes each part correct

| Part | Hard behaviour | Correct when |
|---|---|---|
| SessionStore, persistence | concurrent opens and ends across an asynchronous save; failure, interruption or crash around the rename | no update of another session is lost; disk and memory differ only after a call that reported failure; statuses move only on request |
| FeedbackWait, hub | a signal between subscribing, draining and suspending; several polls; timeout, kill and heartbeat against a signal | no poll sleeps on what it should return; a Feedback goes to one poll, once, in order; presence tells the truth |
| End | rider, status and signal are committed at different moments | held polls are told; the rider's answer tells of the end (it may not, see 5) |
| Event stream and page | replay overlapping live frames, drops, reloads, ends, a restart | the thread is a gapless prefix, a caught-up page shows the current state, the last bubble precedes the ended UI |
| ArtifactWatcher | tracking while the last release interrupts the fiber; reconnects; a dead watcher | the count is exact, the watcher lives as long as it is needed, an edit reaches every tracked page |
| Daemon lifecycle | several clients ping, spawn, signal and wait at once; finalizers run late; crashes | commands and servers end; the pidfile names the daemon; only older daemons are evicted |
| CLI and agent | trouble between two commands; a help line is all the agent has | following the help lines leads back to a poll or the end, and Feedback queued meanwhile is handed out unless it goes with its daemon (5) |
| Composer, SDK, Bridge | edits during a submission, late or shared snapshots, reload of the iframe, lost answers | nothing typed or captured is lost or sent twice (exceptions in 5), markers follow rows, the mode survives, the buttons come back |
| Setup | a half-done install, runs that overlap, a foreign writer | one hook; foreign settings survive; success means wired |

## 2. Plan

| Order | Module | Abstract specification | Checked by | Proved | Left |
|---|---|---|---|---|---|
| 1 | `ReviewLoop` (store, persistence, hub, long-poll, routes) | `FeedbackHandoff` | `review_safety`, `review_live`, `killed_poll` | all safety | nothing |
| 2 | `LiveChannel` (SSE route and page) | none | `live_channel`, `live_cursor` | all safety | a composition with `ReviewLoop` in place of its environment |
| 3 | `ArtifactWatch` | none | `artifact_watch` | all safety | nothing |
| 4 | `DaemonLifecycle` | none | `daemon_settles`, `daemon_races` | all safety | the gauge's event streams |
| 5 | `Composer` (composer, Bridge, SDK) | none | `composer`, `composer_kept` | all safety | a composition with `LiveChannel`, for a reload of the page and for when exactly it misses the frame of an end |
| 6 | `Setup` | none | `setup` | all | nothing |
| 7 | `AgentLoop` (CLI commands and their documents) | none | `agent_loop` | all safety | nothing |

## 3. Modules and the code

One action is one uninterrupted run of a fiber or of a browser callback: its guard is what lets it
run, its primed variables are everything it assigns before it suspends again. Not modelled is the
runtime's forced yield after some thousand operations; no handler here comes near it.
Operators named like functions of the source (`appendConversation`, `exitPoll`, `mergeHook`) are
translations of them; each definition's lines are in `PROJECT.json` under "map".

**`ReviewLoop`.** Requests are model values, each made at most once: `Opens`, `Sends`, `SendEnds`,
`PlainEnds`, `AgentEnds`, `Polls`. A Feedback is named by its request; its content does not matter
here, only who carries it. `call` and `poll` are program counters: a Send is looked up on arrival
(`SendArrives`), where the status is read, and goes on when its body is there (`SendBody`), with
that status ("body" or "late"). `status`, `disk` and `tmp` are the session set in memory, in
`state.json` and in `state.json.tmp`. The mutex is free when no call is "saving". A save
(`StartSave`, `FinishSave`, `LoseSave`) writes the tmp file, renames it, and then installs the new
set in memory; it can fail, or be interrupted by the client's disconnect, before or after the
rename. The late rename of an interrupted save is taken to happen with the interruption. A poll
subscribes and enters the presence count (`PollArrives`), drains (`Deliver`, `TellEnded`) or
suspends (`Suspend`), is woken by a signal (`Wake`) or by its heartbeat (`Tick`), times out or is
killed; each way out runs the finalizers (`closePoll`). `Restart` loads `disk` and forgets all
memory.

**`Selection`** is the filter of JavaScript arrays, used where the code filters: `Only(s, S)` keeps
the elements of `s` that are in `S`. It is a recursive function and not a `SelectSeq`, so that it can
be reasoned about.

**`FeedbackHandoff`** is what the loop promises: pending Feedback per review, handed out whole and
in order to readers that take one batch each; a restart may forget what is pending.
`ReviewLoop!ImplementsHandoff` maps `queue` to `pending`, the answers to the batches.

**`LiveChannel`.** `Connect` is the route's subscription, `Replay` its initial frames, put before
what the subscription has buffered; frames travel in `pipe`. `Say`, `PresenceMoves`, `End` and
`Resurrect` are the environment: the events `ReviewLoop`'s handlers publish. A page keeps
`rendered`, `lastId` and `shown`. An entry is its seq and, to tell daemons apart, the epoch of the
daemon that said it; that and the number in the ended frame are history the program does not have.
`Drop` breaks a connection, `ClosePage` closes or reloads the page.

**`ArtifactWatch`.** `track` and `release` are the two critical sections of the watchers' map. The
last release keeps the mutex while the fiber is interrupted (`fiber = "stopping"`). `leaving` counts
finalizers that wait for it. Edits made while the watcher is set up are seen by nobody, as in the
code. `owed` is history: what a page was tracked for when it was written.

**`DaemonLifecycle`.** Server processes go through `Phase`, clients through `Step`. The pidfile is
truncated, written, and only then the port bound. A failing bind either ends the process or leaves
it "lingering" until the idle watcher wins the race (`Effect.race` settles with the first success;
both are allowed). Signals find the process the pidfile names, at the time it is read. Versions are
tuples or `Unparsed`; an `open` that took over does not look at the version again. Pids are not
reused. `IdleShutdown` may happen whenever no poll is held: the length of the grace window and the
gauge's stream are abstracted, and a request that comes as the window ends meets a daemon that is
"closing" and breaks with it.

**`Composer`.** The page's composer, the iframe and the Bridge between them. `subs` are the
submissions, each a program counter across its awaits: the snapshot ("snapshot"), the POST
("posting"), the body ("received") and the answer ("ok", "refused"). `Arrive` looks the session up,
and `LandSend` and `LandSendEnd` go on with what it saw: a Send & end queues its rider and then saves
the end, which may fail. The session ends (`over`) from either side and may be opened again
(`Reopens`): then the frame of the end is still on its way to the page (`late`), or the page has
missed it. `ReceiveSnapshot` answers every submission that waits,
because the listener of each takes the first result it hears; `rider` is what each takes then. `down`
and `up` are the Bridge: a message to a document that is replaced is dropped by `Commit`, one from
it still arrives. A document boots, runs its SDK and fires its load event (`phase`), or has no SDK
("bare": a page behind a link, or an artifact that could not be read). `Budgets` is a set of bounds,
of which each behaviour gets one. Annotations and texts are numbered in the order in which they were
made; `origin`, `typed` and six fields of a submission (`shows` to `beside`) are history. Not in the
module: a reload of the page itself, which forgets all of this.

**`Setup`.** Several runs, each with a scope and the version of the Skill in its binary, interleave
step by step: a file is opened (which truncates it) and then written. `name` maps the two file names
to inodes and `disk` the inodes to contents, so that a rename takes the file from under a run that
still writes to it. `Fail` is a failing step or a kill, `AddSetting` and `Undo` are other writers.
`alone`, `meddled` and `before` are history.

**`AgentLoop`.** One review as the agent sees it: each command is one step that prints a document,
and `help` is the command the document's help line names. Only the long-poll is held
(`document = "held"`). Three documents name no command (`namesNone`), and `carryOn` says what the
agent is taken to do: after what `intervu stop` prints it goes on with the help line that sent it
there ("or kill it manually, then re-run"), and after `HttpClientError`, which names the log, it tries
again. A Send is accepted (`HumanSends`) and queued (`SendLands`) in two steps, as in `ReviewLoop`.
`fate` is history: whether what was queued last is still to be read, has been read, came when the
agent was at rest, or went with the daemon's memory (`gone`).
Around the agent the daemon exits, is upgraded past, orphaned or replaced by another program, and
the artifact is moved. `intervu stop` prints "no daemon is running" (`main.ts:252`) also for a
daemon that runs and that no pidfile names, and names no command; the agent then kills the daemon by
hand, as `StaleServerTakeover` had suggested. An artifact named like a subcommand (`main.ts:330`) is left out.

MC modules give the constants values: model values for requests, the session each names, versions,
scopes and budgets.

## 4. Runs

Every cfg says `CHECK_DEADLOCK FALSE`: the instances make each request and each trouble a bounded
number of times, so they may come to rest. That nobody waits for ever is stated instead, by
`MutexIsReleased`, `HeldPollsAreTold`, `CommandsSettle`, `ComposerComesBack` and `AgentRecovers`.

| Run | Instance and bounds | Shows |
|---|---|---|
| `review_safety` | 1 session, an open, a Send, a Send & end and an End, 2 polls (one bounded, one replying), 1 restart | no lost wake-up, the Conversation accounts for every Feedback, presence is true, the handoff is implemented, a rider comes with the end |
| `review_live` | 2 sessions on one mutex, an open, a Send, a Send & end and a poll of one, an end and a malformed Send of the other, 1 restart, saves may fail | types, disk follows memory, statuses move only on request; held polls are told, the mutex is released |
| `killed_poll` | a Send, a Send & end, an End, 1 poll | expected violation, section 5 |
| `live_channel` | 1 page, 2 entries, 1 presence change, 2 drops or reloads, 2 ends, 1 restart | thread, state, last bubble, and the end reaches open pages |
| `live_cursor` | 1 page, 2 entries, 1 restart | expected violation, section 5 |
| `artifact_watch` | 2 pages, 2 edits, 3 hang-ups, 1 failure of the watch | exact count, edits shown, the last stream stops the watcher |
| `daemon_settles` | an open, a poll, an end and a stop, old or no daemon, 1 crash | commands settle, servers end |
| `daemon_races` | two opens of 0.2.0 and 0.10.0, a daemon of 0.1.9, of an unreadable version, or none, 1 crash | one listener; without overlapping servers the pidfile names the daemon and only an older one is evicted |
| `composer` | five budgets: two submissions with a text, a note, a re-open and a broken request or a failing save; two notes across two reloads; a retry of an ended session; two submissions across a reload; a Send & end, an end by the agent, a re-open and a second Send & end | markers, mode, double sending, snapshots, losses, and that the composer comes back |
| `composer_kept` | the same | expected violation, section 5 |
| `setup` | 3 runs of 2 versions and 2 scopes, 2 foreign edits, 1 failure or kill | one hook, edits survive, no corruption by a run alone, success means wired |
| `agent_loop` | 2 Sends, 3 troubles, any daemon and session at the start | the agent recovers, and is handed what was queued while it listened |

*Why the bounds are enough.* The races are between pairs: two polls and a signaller, two saves, a
subscriber and a releaser, two clients and a daemon, two submissions, two runs of setup; each
instance has every such pair and a third party to come between. Pages of one session share nothing
but what is published to all, so one page is followed. A restart, a second end or a third run of
setup suffices to have state from before it. What else can happen to the composer within one
behaviour is divided among five budgets: together they are out of TLC's reach. Bounds on the
environment (`MaxDrops`, `MaxEdits`, `MaxHangUps`, `MaxFailures`, `MaxEnds`, `MaxSaid`, `MaxMoves`,
`MaxRestarts`, `MaxCrashes`, `MaxSends`, `MaxTroubles`, `Budgets`, and the number of `Pids`) only
stop it from acting for ever. The theorems of section 6 have no bounds.

*Fairness.* Only what the runtime or the browser does by itself is weakly fair. In `ReviewLoop`: a
runnable poll runs, its heartbeat fires, the mutex is granted, a save completes or fails. In
`LiveChannel`: EventSource reconnects, the route proceeds, frames of a live connection arrive.
In `ArtifactWatch`: the daemon's fibers, the debounce (edits are finite, so it elapses), frames and
loads. In `DaemonLifecycle`: booting and exiting processes and clients run, bounded waits end, and
the grace window of a daemon without connections does. In `Composer`:
messages of the iframe arrive, timers fire, requests are answered, and so is the ended frame of a session that stays ended (`EndReachesPages` of
`LiveChannel`; a re-open may take it away). In `AgentLoop`: the agent goes on and its
commands return. Nobody has to send, type, poll, close, crash, fail, edit, end or free the port.

Every property of a passing run has a mutant in `PROJECT.json`: an operator beside the definition
it replaces, marked `Mutant:`, with a plausible bug that breaks the property. Mutants are never part
of `Next`.

## 5. Where code and documentation differ

Three runs show a disagreement as a counterexample:

* `killed_poll`: a poll killed after the drain loses the Feedback (`FeedbackWait.ts:93`), which
  `src/skill/SKILL.md:57` and `README.md:55` exclude.
* `live_cursor`: after a daemon restart the seqs start at 1 again while an open page still holds
  the old cursor and the old set of seen seqs: it does not show the first new entries
  (`SessionStore.ts:206`).
* `composer_kept`: a Send clears, when its answer comes, whatever rows and text there are by then,
  also those made while it was in flight (`chrome/entry.ts:416`).

What else differs is an exception that a property of a passing run makes, and says in its comment.

*Sending and ending*

* A Send & end queues its rider before it saves the status; a poll in between returns the rider
  without `ended` (`Server.ts:343`, against `FeedbackWait.ts:31`): the exceptions of
  `ReviewLoop!RiderBringsEnd`.
* Nor is it atomic for the page (`chrome/entry.ts:334` "atomically delivering the final feedback and
  ending the Session"): when the save fails (`Server.ts:343-354`) the answer is 400, the review stays
  open and the rider is queued; a second click delivers it again. `TwiceOnlyIfOverlapped` excepts
  submissions the page was told had failed, lost answers included, and those that a re-open followed.
* The status that a request saw is used after its body has arrived (`Server.ts:221`, `:334`, against
  the comment at `:212`): Feedback, also the rider of a second Send & end, is queued for an ended
  review. `AgentLoop!SentIsRead` excepts what comes when the agent was told "ended" and is at rest
  (fate "late"); `TwiceOnlyIfOverlapped` excepts submissions that overlap.
* An end and a re-open before a held poll runs again leave the poll waiting (`FeedbackWait.ts:99`):
  the exception of `HeldPollsAreTold`. A page whose connection is down meanwhile misses the ended
  frame, and after an accepted Send & end its two buttons stay grey until an edit (`chrome/entry.ts:430`
  leaves them to the frame), and its End button for good: `forsaken` in `ComposerComesBack`.

*The page and its artifact*

* After a live reload with pending rows the badges disagree: the rows keep their numbers and the new
  document numbers its markers from 1 (`chrome/entry.ts:14` "to stay in step with the in-artifact
  badges"; the poll prints the row's number as "the 1-based badge number the human saw",
  `Output.ts:74`). `MarkersFollowRows` states how they are apart, not that they agree.
* Those rows are sent with a snapshot of the document that replaced the one they were captured in,
  against ADR 0008:9 "the document the human actually annotated" (also the glossary in
  `CONTEXT.md:39`, `src/skill/SKILL.md:49`, and `sdk/entry.ts:123`). `NotesPredateSnapshot` says only that no
  snapshot is too old.
* The ended UI does not tell the SDK: with the toggle left on, the artifact still captures
  (`chrome/entry.ts:610` "no further annotations can be captured"); the rows can no longer be sent.
  No property forbids it.
* A watch that failed (`ArtifactWatcher.ts:68`) reloads nothing: the exception of `EditIsShown`.

*The daemon and the agent*

* Queued Feedback does not outlive its daemon, and help lines make the agent replace a daemon: re-run
  after `StaleDaemon` (`ErrorReport.ts:84`), stop or kill after `StaleServerTakeover` (`:94`), even
  when by then another daemon has taken its place. `main.ts:103` says of a poll that "Killing and
  re-running is safe: queued Feedback survives", without that exception; ADR 0015:22 and 0016:20
  accept it. So `SentIsRead` lets Feedback be dropped with its daemon (fate "dropped"), and says only
  that nothing leads the agent away from a queue that is still there.
* A takeover signals whatever daemon the pidfile names by then, also an equal or newer one
  (`ServerLifecycle.ts:243`, against ADR 0015): the exceptions of
  `DaemonLifecycle!OnlyOlderIsEvicted`.
* Servers that overlap leave a daemon that no pidfile names (`main.ts:208`), although "every version
  writes the same pidfile" (ADR 0015): the exception of `LoneDaemonIsNamed`.
* `PresenceTruthful` would not notice a `working` that outlasts a later timeout: it asks for a
  delivery at some time before.

*Setup*

* There is no lock on `settings.json` or its tmp file: an edit made after a run read the file, and
  what overlapping runs do to each other (`Setup.ts:129`, `:167`), are the exceptions of `EditsSurvive`
  and `NeverCorruptedAlone`.

## 6. Proofs

Each proof module extends the module it is about. The invariants hold for any number of sessions,
requests, pages, clients, runs, restarts and troubles; the assumptions are the named ones on the
constants (kinds of requests are disjoint, bounds are natural numbers), which TLC evaluates in every
run. Each module first proves its `TypeOK` (`TypeCorrect`), one step per action.

| Theorem | Module | Argument |
|---|---|---|
| `NoWakeupIsLost` | `ReviewLoopProofs` | `WakeInv` adds to `NoLostWakeup` that queued Feedback is of the session it was sent to and its request has got past the queueing (`QueueKnown`): an End that publishes wakes only its own session's polls |
| `DiskFollowsMemory` | `ReviewLoopProofs` | `DiskInv` adds `OneSaver`, that a saving call saves alone and `state.json.tmp` holds the set it will install: a second saver would rename a set computed from an old one |
| `StatusMovesWhenAsked` | `ReviewLoopProofs` | action property, from `DiskInv`: what a restart loads differs from memory only where a call failed |
| `LoopImplementsHandoff` | `ReviewLoopProofs` | refinement: under `HandoffInv` every step is a `Submit`, a `HandOut`, a `Forget` or leaves the mapped state alone |
| `RiderComesWithEnd` | `ReviewLoopProofs` | action property, from `RiderInv`: a queued rider whose End has been saved is in a session that has ended, or was opened again since |
| `HandedOutAtMostOnce` | `ReviewLoopProofs` | the abstract specification's promise, of the daemon: `OnceInv` (items are known, and no position of a queue or batch repeats another) is inductive for `FeedbackHandoff`, and carried over by the steps of the refinement |
| `ThreadIsAccountedFor` | `ReviewLoopProofs` | `ThreadInv`: by positions, what the human said in the thread is what has left the queue, all of it read, followed by the queue |
| `PresenceTellsTheTruth` | `ReviewLoopProofs` | `PresenceInv`: the count is the cardinality of the polls held, and a raised delivery flag was raised by a poll that left with Feedback |
| `PageShowsPrefix`, `NoBubbleTwice`, `CaughtUpIsCurrent`, `EndedComesLast` | `LiveChannelProofs` | one invariant on bubbles, cursor and pipe, `ChannelInv`: the n-th bubble has seq n, every entry or end under way follows its predecessor in the pipe or in the thread (`Ordered`), and the last entry, the last presence and an end are shown or under way (`Complete`, `TellsPresence`, `TellsEnd`); the replay establishes it (`ReplayStep`), and delivery and publication keep it (`Delivered`, `Published`) |
| `CountIsExact` | `ArtifactWatchProofs` | `CountInv`: the count is that of the tracked streams and of the finalizers that wait for the mutex |
| `NoEditIsForgotten` | `ArtifactWatchProofs` | `EditUnderWay`, the safety core of `EditIsShown`: an edit that a page is owed is in the debounce, in a frame or being loaded, unless the watch failed. `OwedInv` adds that only a tracked page of a started watcher is owed anything; by `CountIsExact` no release that comes meanwhile is the last |
| `DaemonIsNamed`, `EvictsOnlyOlder` | `DaemonLifecycleProofs` | `LoneInv`: until servers overlap one process is alive and alone writes the pidfile; `StaleInv`: what an open is about to signal was found stale, and a process never changes its version |
| `NeverTwoHooks` | `SetupProofs` | `HooksInv`: neither a file nor what a run is about to write has two |
| `NoEditIsLost`, `NeverCorrupted` | `SetupProofs` | `AloneInv`: a run that nothing has overlapped is the only writer of its tmp file, and what it will write has all it read (`ReadInv`) |
| `DoneIsWired` | `SetupProofs` | `WiredInv`: what such a run has passed is in place unless somebody undid it |
| `TypeCorrect` | `ComposerProofs` | `TypeInv` adds `Arrivals`, that annotations cross the Bridge in the order of their capture (a rider is numbered by what had come), and `Results`, that a snapshot is of a document there has been |
| `ModeIsKept` | `ComposerProofs` | `ModeFollowsToggle` is inductive, by what each message does to `FinalMode`, the mode that what is under way leaves a document in |
| `MarkersAreTheRows` | `ComposerProofs` | `MarkInv`: the markers without what is being removed are the rows and arrivals captured in this document (`MarkedRows`), and rows and arrivals stand in the order of their documents (`Orderly`), so those of earlier ones come first; capture, arrival, removal, Send and reload each keep this by the laws of `Only` |
| `SnapshotsAreFresh` | `ComposerProofs` | `CoverInv`: no row, and nothing before a snapshot on the way up, was captured after the snapshot was serialised or is of a later document: messages of one Bridge do not overtake each other |
| `NothingIsLostAlone` | `ComposerProofs` | action property, from `RiderInv`: what had come when a rider was taken is in it or has gone from the composer since |
| `TakenOnce` | `ComposerProofs` | `OnceInv`: an accepted Send leaves behind only what came after its rider, so a later submission that it did not overlap has nothing of it. `EndInv`: after a Send & end that was accepted and is not undone the session is over, so nothing that arrives later is taken |
| `ComposerIsNeverStuck` | `ComposerProofs` | `NeverGreyForNothing`, the safety core of `ComposerComesBack`: a composer with something to send and a grey button has a submission, a timer or an ended frame to come, or a session that is over, unless it is forsaken. `GreyInv` adds that the end of an accepted Send & end still holds or was undone |
| `TypeCorrect` | `AgentLoopProofs` | `SentInv` bounds the queue by what was sent; a poll is held only by a daemon with the session, because every way a daemon goes breaks the poll |
| `AgentRestsLast` | `AgentLoopProofs` | `RestsOnlyWhenRead`, the safety core of `SentIsRead`: the agent rests only in a review that has ended, after a document that says so, and when a poll said it, nothing is queued but what came later |

*Filters of sequences.* The threads, rows, markers and Bridge of these proofs are filtered, and
what a filter does to an arbitrary sequence needs an induction. `SelectionProofs` gets it from
`WFMin`, the statement of well-foundedness about sets: the naturals that are lengths of a
counterexample have a least element, and the sequence of that length is not empty and is an
`Append` to a shorter one (`Induction`). From that follow that the recursive function of `Only`
exists and is unique, and its laws for `Append`, `Head`, concatenation, repeated selection, range and
length, which the other modules cite.

*Only model-checked:* the liveness properties (`HeldPollsAreTold`, `MutexIsReleased`,
`EndReachesPages`, `EditIsShown`, `LastReleaseStops`, `CommandsSettle`, `ServersEnd`,
`ComposerComesBack`, `AgentRecovers`, `SentIsRead`): they rest on fairness, and so on ENABLED, which is
out of the prover's reach. Where such a property has a safety core, that something that leads to its
goal is under way in every state, the core is proved: `NoWakeupIsLost` for held polls,
`CaughtUpIsCurrent` for pages, `CountIsExact` for the last release, and the three named above. What
the runs with an expected violation find is a counterexample, and needs no proof.

## 7. Not modelled

Configuration, browser launch, asset routes and bundles: they read files and constants. Of the
rendering only which document is printed and which command it names. Further left out, each without
a property that depends on it: the length of the idle grace window and the gauge's own stream; the
version in the health answer after a takeover, which the code does not look at either; edits made
while no stream is tracked, which reach no page by design; the ended UI of a page whose session is
resurrected, which stays until the page is reloaded; the SSE ping; where markers are drawn and what a
selector or a snapshot says. HTTP is a request that arrives at most once and whose answer may be
lost; the file system keeps a rename atomic.
