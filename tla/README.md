# Queue, events, commands, sessions and workspaces of Kaioken, specified and verified

Kaioken runs coding agents. A *thread* is a conversation with an agent; the
server keeps its state in SQLite, a *host daemon* on each machine runs the
provider process, and the two talk over a WebSocket. What a user sends while
the agent is busy, or before its workspace exists, waits in the thread's
**message queue**. The server must later hand every queued message to the agent
once, whole, in the groups the user composed, not while the user has stopped
the thread, and without leaving one behind.

In the other direction the agent's events go through the daemon's **event
sink** into the server's log, and move the thread's status. None may be lost,
overtake another or act twice, over a connection that loses answers and between
processes that die. The agent's **questions** take the same way and their
answers come back as commands. The daemon runs **commands** side by side and
must still keep those of one thread and one workspace apart. And the **session**
between the two must name one daemon, tell when it is away, and bring both
sides to agree again when it is back. Finally, a thread works in a **workspace**
that a provider makes for it: launches are given up, fail, outlive the server
and are taken up again, and a workspace must neither be forgotten on the host
nor be removed from under an agent.

These TLA+ modules model each of these; TLC checks them on small instances and
TLAPS proves their safety properties for any number of messages, workers, claim
tokens, events, commands, questions, sessions, lost requests, launches and crashes.

## Inventory of the system

`apps/server` holds the control logic, `packages/db` its tables,
`packages/domain` the transition tables, `apps/host-daemon` the other end.

| Component | State | Operations | Hard behaviour | What makes it correct |
|---|---|---|---|---|
| Message queue (`packages/db/src/data/queued-thread-messages.ts`) | one row per message: sort key, group edge, wait, failure, claim | queue, claim next / group / explicitly, consume a batch, release, requeue with a wait, clear waits, delete, reorder, set the group boundary, release stale claims | any two of these between the claim and the settlement of another; death of the server with rows claimed | claims exclude each other; a batch is uniform and goes whole; nothing twice, nothing lost, nothing claimed for ever |
| Dispatch (`apps/server/src/services/threads/queued-messages.ts`, `queued-message-dispatch.ts`, `dispatch-attempt.ts`, `queue-waits.ts`, `queue-drain-failure.ts`) | in memory: the drain of a thread, active claim tokens, deferred wakes | drain, attempt of one row, "send now"; checkpoint; consume in the dispatch transaction; failure | checks made before an await and used after it; wakes lost, coalesced or early; timeouts | the pause after a manual stop holds; no wait outlives its reason; an idle thread is drained |
| Thread lifecycle (`packages/domain/src/thread-lifecycle.ts`, `packages/db/src/data/threads.ts`) | `threads.status` | one compare-and-set per event | two writers from one status | only transitions of the table |
| Thread runs (`thread-lifecycle.ts`, `thread-send.ts`, `internal/events.ts` of the server) | turns in the event log, commands in flight | start, submit, join, stop, settlement, reconciliation with the daemon | a stop racing a start; results and events out of order; a lost daemon | a stop ends; no run without a turn; no turn after a stop |
| Environment lifecycle and provisioning (`services/environments/provider-orchestration.ts`, `cleanup-concurrency.ts`, `thread-provisioning*.ts`, `packages/db/src/data/environment-launches.ts`, `environments.ts`) | rows of launches and of environments; in memory, the creates, cancellations and removals under way | ask, create, attach, cancel, rebuild, retire, remove, sweep, restore | creates that answer late, removals that fail, restarts, threads that come back while a removal runs | one operation on a path key at a time; nothing left on the host without a row; no agent loses its workspace; what was cancelled stays so; a cleanup ends |
| Host event delivery (`apps/host-daemon/src/event-sink.ts`, `apps/server/src/internal/events.ts`, `packages/db/src/data/events.ts`) | buffer of the daemon, event log, `threads.status` | buffer, post, bisect, drop, retry; store a batch, apply its effects | lost answers, late requests, restarts, a refused event among good ones | no gap in the log, nothing forgotten, no finished run revived and no new one settled by an old end |
| Host sessions, live commands (`internal/session.ts`, `session-owner-side-effects.ts`, `ws/hub.ts`, `ws/daemon-protocol.ts`, `server-connection.ts` of the daemon) | session rows, registered sockets, timers, calls that wait | open, register, replace, close, grace, call, reconcile | late closes and late requests, reconnections while a timer runs, restarts | commands go to the one open session; calls end with theirs; a lost daemon is timed; server and daemon agree on what runs |
| Command routing (`apps/host-daemon/src/command-router.ts`, `lock.ts`) | the lanes: the last promises per thread, environment and turn | wait for a barrier, enter a lane, run, clear the lane | any order of arrival; a thread that moves; lanes deleted and made again | writers alone, one body per thread, turns in order, no circle, no lane left |
| Pending interactions (`services/interactions`, `interactive-request-registry.ts`) | a row per question, the daemon's entries, the promises of plugins | ask, register (with retries), answer, cancel, interrupt | answers, interrupts, exits and deaths in any order | one question at a time; who asked is told what the row says; what has ended stays so |
| Order keys (`packages/db/src/data/order-keys.ts`) | `sort_key` of messages, projects, pinned threads | add last or first, move between | digits without room between them | there is always a key between two neighbours |
| Terminal sessions, connection handoff, plugins | | | | planned or left out, see below |
| Clients (web, desktop, mobile, CLI), relay, tunnel, provider adapters | caches and views | | | not modelled: interfaces and conversions around the same API |

The components meet in the thread. A wake of the queue comes from the thread (a
turn starts, a run ends), from the environment (the workspace is ready), from
the host (it reconnects), from interactions (one settles), from plugins and
from timers; a dispatch in turn moves the thread's status, requests a turn and
so ends the pause after a manual stop.

## Modules

    Outbox            what the queue promises            (abstract)
      ^ refined by
    QueueStore        the table, its claims and workers
      ^ refined by
    QueueDispatch     dispatch and thread together  -- uses --  ThreadLifecycle

    EventDelivery     the events of a thread        -- uses --  ThreadLifecycle
    HostSessions      the session of a host         -- uses --  ThreadLifecycle
    Interactions      the questions of a thread
    CommandLanes      the commands of a daemon
    Workspaces        the workspaces of a thread
    OrderKeys         the sort keys of a list

    MC*               the instances TLC checks
    *Proofs           QueueStoreProofs <- QueueDispatchProofs;
                      EventDeliveryProofs, CommandLanesProofs, InteractionsProofs,
                      HostSessionsProofs, WorkspacesProofs, OrderKeysProofs

**QueueStore** has one action per operation of `queued-thread-messages.ts` that
changes rows; each is one SQLite transaction. `phase` tells rows apart that
were never queued, are in the table, were consumed, or were deleted by the
user. The sort key is the order `before` it induces. The five columns that
decide whether rows may share a prompt (sender, model, reasoning level,
permission mode, service tier) are one constant value per message, `Envelope`.
A *worker* is one asynchronous dispatch call. It claims (`ClaimNext`,
`ClaimAutomatic`, `ClaimExplicit`), awaits, and settles (`Consume`, the notice's
`DeliverNotice` and `ConsumeNotice`, `Release`, `Requeue`, `ReleaseFailed`);
everybody else acts in between. `Crash` forgets the workers, keeps the rows
and leaves their claims to `StaleRelease`. `copies` is a history variable: how
often a message was handed over.

**QueueDispatch** lets a worker follow the code. One action is a stretch of
code without an await; `course` is the position, `seen` the thread status it
read and `policy` the caller. `Begin` is `sendClaimedQueuedMessageForThread`,
`ThreadChanged` .. `HookWaits` are `runDispatchAttempt`, `Admit`, `Submit`,
`Start` and `Join` the transactions that consume the rows, `HandNotice` and
`NoticeGone` the two transactions of a system notice, `Fails` every error path.
The thread's steps (`TurnStarted`, `Stop`, ...) and the wakes are actions of
their own. It uses the table's actions only through QueueStore.

**Outbox** is the promise: a message is queued, then delivered at most once or
withdrawn; one prompt carries several messages or none; only a notice may go
twice.

**EventDelivery** follows one thread's events from the provider into the log. An
event is its place in the order of emission. The sink is a cursor `sent` (the
front of its buffer) and, during a drain, `done` and `cuts`: the recursion of
`deliverBatch` posts the halves from left to right, so what is left of it is
always a row of consecutive requests, and a bisection is one more cut. `Accept`
is the whole handler of `/session/events`: the transaction
(`appendDaemonEventsInTransaction`), then the effects (`shouldApplyEventEffect`,
`applyEventEffects`). `GiveUp` is an answer that did not come, wherever it was
lost; the request may stay behind as a stray that the server handles later.
`ServerDies` may strike after the transaction and after any of the effects.

**CommandLanes** has the promises of `command-router.ts` as sets of the commands
whose end they wait for: `waits` of a command in a queue, the tails of the three
kinds of lane, and the barrier an unarchive puts before the turns of its thread.
A command arrives when no continuation is left to run (`Quiet`: messages of the
socket are macrotasks), goes as far as its first unsettled promise, and goes on
when what it waits for has ended. `End` is the end of the body with everything
that is chained to it. `ahead` is history: what a turn has to come after. What
the lanes do not order is not in the properties: a stop and a turn that still
waits for its lanes, and two unarchives of one thread in different environments.

**Interactions** has a row per question, of a provider or of a plugin. On the
daemon's side `told` is the entry of `InteractiveRequestRegistry` and what the
provider heard in the end, `registering` the attempts of `pRetry`, and
`interrupts` the queue that `flushPendingInteractiveInterrupts` posts; on the
server's, `command` and `awaited` are the live command that carries an answer and
the server's wait for its reply, which may end without one (`CommandFails`),
`waiter` the promise of a plugin. A request or an interruption that was given up
stays as a stray. Every cause that interrupts rows is an action.

**HostSessions** numbers the sessions of a host in the order of opening and the
instances of its daemon in the order of their starts. `active` is the table,
`registered`, `current`, `timers` and `waits` are the hub's maps, `linked` are the
sockets whose close the server has yet to see. A thread whose turns the daemon
runs shows what sessions are for: its status and the ends of its turns in the
log (`recorded`) against what became of them on the daemon (`ran`). `Open` is the
whole of `/session/open`: the row, the replacement of the session before, and the
reconciliation of the thread. Either end may see a broken connection first.
Validation and registration of a socket are one step.

**Workspaces** follows one thread and the environments of its launch attempts.
`launch` is the row of `environment_launches`, `envs` the environment each attempt
gave, `thread` the columns of the thread that decide about either. `creates`,
`cancelling` and `removing` are the maps `createOperations`, `cancelOperations` and
`removeOperations` of `provider-orchestration.ts`, with the cleanup slot of the
host (`withEnvironmentCleanupSlot`). `sites` are the path keys whose workspace is on
the host, which the server does not see; `disowned` are those whose path it
refused. `guests` are other threads that live in an environment, archived ones that
still run included; the followed thread stands for every thread that runs an agent.
`start` is a dispatch of the thread on its way. `StartChecks` finds the environment
ready; then the dispatch awaits the host and the plugins, while everything else may
happen; and `RunStarts` is its transaction, which looks at the thread again but not at
the environment. `lapsed` says that the thread was stopped or archived in between.
`policy` picks one of the four kinds of provider: a key
per attempt or one for the thread, environments that retire by themselves or stay.
The `Ask` actions are the branches of `askProviderLaunch`, `CancelLaunch` is
`cancelProviderLaunch`, which stops, archives, deletions and retries all go through,
`SweepCancelled` and `SweepRemoves` are the sweeps. `Crash` forgets the three maps,
the work on the host may come to an end all the same, and `Restore` reads the
request again from the launch. A start that is on its way to the host outlives both
the server and a stop. Deadlines and graces are choices: what waits for a
time may happen at once or late.

**OrderKeys** is `createOrderKeyBetween` as an operator, and one list for the
three that use it: rows come last or first, move between the neighbours a client
names (current or not), go, and are hidden and shown (claims, archived threads).
Some rows are there from the start with keys of equal length that are numerals,
`printf('%016d', row number)` in the migrations 0004 (queued messages) and 0005
(projects), so that every tenth one ends in the first digit.

## Runs

Three messages are the least at which a group has a middle, two workers the
least at which claims race, and three tokens let both hold one while a dead
server's is still on a row. Symmetry (workers, tokens) is used in the safety
runs only. Messages differ in envelope, so that each run has rows that may and
rows that may not share a prompt where its property depends on it. `WaitKinds`
holds the waits the run is about; kinds the operations treat alike are
represented by one. In the queue nothing else is bounded: a message is queued
once, so every instance is finite. In EventDelivery `MaxEvents` bounds what the
provider emits (four is two whole turns, the least at which an end can meet the
wrong run, and enough to bisect twice) and `MaxStrays` the requests in flight
beside the current one. In CommandLanes each command is sent once; six of the
kinds that differ, on one thread that moves from one environment to another,
meet in every lane. In Interactions `MaxExits` and `MaxDeaths` bound the exits of
the provider and the deaths of either process to one; two questions of the
provider and one of a plugin are the least at which all pairs compete. In
HostSessions two losses are the least at which a late request and a late close
meet, and two turns the least at which one is over while the other runs. In
Workspaces two attempts are the least at which a new one meets the cleanup of the
old, or a rebuilt environment the one before; the retry limit of one lets a
transient failure be retried and also be final, and one death may strike anywhere.
One dispatch of the thread is on its way at a time. In OrderKeys three migrated rows
in binary are the least with a numeral that ends in the first digit and one below it;
keys have at most two digits of an alphabet of four: prefixes, gaps
and neighbouring digits all happen; the theorems hold for every length.

Deadlock is checked for OrderKeys only: a queue whose messages are all gone, a
daemon that has posted its last event, or commands that have all ended have
nothing left to do.

| Run | Instance | What it shows |
|---|---|---|
| `store_safety` | 3 messages (one of another sender), 2 workers, 3 tokens, waits none / time | rows stay in one total order; claims exclude each other although sweeps, edits and crashes interfere; prompts are uniform, whole, and sent at most once; the table implements `Outbox` when no message shares the notice's envelope |
| `dispatch_safety` | a message and a notice that may share a prompt, 2 workers | the dispatch implements QueueStore step by step; the pause after a manual stop is honoured |
| `dispatch_liveness` | 1 message, 1 worker, 2 tokens, every wait, a thread from creation on, crashes | an idle thread is not left with a message it could send, and no row stays claimed for ever |
| `delivery_safety` | 4 events of up to two turns, one late request, both sides may die, progress and snapshots, which the server refuses or skips outside a turn | no gap in the log, nothing forgotten by the sink, no finished run revived |
| `lanes_safety` | 6 commands, 1 thread, 2 environments | writers alone, one body of a thread at a time, turns in order, no lane left, every command ends |
| `interactions_safety` | 2 questions of a provider, 1 of a plugin, 2 answers, one exit, one death | one question at a time; provider and plugin are told what is recorded; nothing reopens |
| `hosts_safety` | 1 call, 2 turns, 2 losses, 1 death | one open session, no call forgotten, a clock for a daemon that is away, agreement after a reconnection, and the daemon gets back |
| `workspaces` | 2 attempts, 1 death, retry limit 1, all four policies | no operation meets another on its path key, nothing leaks, agents keep their workspaces (but see the check before a start, below), what was cancelled stays so, every cleanup ends |
| `order_keys` | 4 rows, 3 of them migrated (`01`, `10`, `11`), 4 digits, keys up to 2 digits | a key fits between any two neighbours but for one kind of pair, and that pair has no room |
| `store_notices`, `hosts_finished`, `workspaces_teardown` | small ones that show it | violated: see below |

`dispatch_liveness` has a single worker because `IdleThreadIsDrained` is about a
wake or a recovery that is missing, not about a race: with one message, a
second worker can only fail to claim it. The races are in the safety runs.

**Fairness.** A worker's dispatch goes on (weak fairness of its steps, one
worker at a time): every await in it is a host command, a hook or a database
call that returns or times out. Deferred wakes run (`setImmediate`). The sweeps
run on timers (`periodic-sweeps.ts`), which gives fairness of the idle drain and
of the release of each orphaned token. In CommandLanes continuations run (the
event loop) and a body that runs ends: host commands have time-outs. In
HostSessions the daemon asks again for ever (`maxRetries` of its WebSocket is
infinite), the server answers, and a close gets through in the end; what is lost
is bounded by `MaxLosses`, so `EventuallyOnline` says what happens when nothing is
lost any more. In Workspaces a create that was told to stop ends, the sweeps come
again and again and each gets its turn on the host, whose queue is served in order
(hence strong fairness: the slot is taken and free in turn), and a removal ends and
does not fail for ever. There is at most one create at a time, and an environment is
removed at most once, so fairness of the creates, sweeps and removals together is
fairness of each. Nothing else is assumed of the agent, the providers, the
plugins or the host daemon, nothing at all of the user, and the server may die
again and again (in Workspaces `MaxCrashes` times).

## What the runs found

Three statements of the source, its comments or its documents do not hold of
the code; each violation run exhibits one.

* **A message grouped behind a notice is lost** (`store_notices`). A system
  notice has a null sender and default options, so the user may group a message
  behind it. A claim takes both, `sendClaimedSystemNotice` delivers the content
  of the lead and deletes the batch.
* **A turn that finished while the connection was down is interrupted first and
  completed afterwards** (`hosts_finished`). The daemon reports only threads that
  run a turn; the server takes an active thread that is not reported for cut
  off, and the daemon flushes the end of the turn after that. The thread stays
  failed.
* **A teardown that failed is not always tried again** (`workspaces_teardown`). A
  thread may be unarchived into an environment whose removal is under way. If the
  removal then fails, the sweep returns early because a thread lives there, and a
  thread that lives there and asks for a new workspace is told to wait for
  "Removing the previous environment". Neither moves until the thread is archived
  or deleted. The guide says that a failed teardown is retried automatically.

Other limits met while modelling, which no run states as a property:

* A message may join a turn that waits for an answer: the check for a pending
  interaction comes before an await, and the transaction does not repeat it.
* Moves and regroupings skip claimed rows; a row whose claim is released may lie
  between two members of a group composed meanwhile, and goes in its prompt.
* The workspace-ready wake gives up while the thread is `starting`; a fork
  without input then settles idle, and a message that waits for the workspace
  waits on. A message held by "send now" when a question settles keeps its wait
  if the attempt fails.
* The log takes every end of a turn. If the answer to a batch is lost and the next
  turn is requested before the batch comes again, the old end moves the thread
  from `active` to `idle` until the new turn's start arrives.
* A registration that was given up may create its row after the interrupt that
  was to clear it; the row is active until somebody answers it, or the thread
  ends, or the daemon starts anew.
* A server that dies with an answer on its way to the daemon leaves the question
  resolving: its reply is not awaited any more, and a daemon that reconnects is the
  same instance, so that nothing interrupts the row until the provider exits, the
  thread is stopped, or the host is away for too long.
* Of several unarchives of a thread that are under way in different environments a turn
  waits for the last only.
* A late request of a dead daemon's instance to open a session makes the server
  tell the live one to shut down. A server that dies forgets the clocks of hosts
  that are away, and a session whose socket never comes has none.
* A workspace whose path the server refused stays on the host: the cancellation
  only forgets it, also when the path was refused because its host was away for a
  moment.
* A dispatch checks that its environment is ready (`requireReadyThreadEnvironment`,
  `startThreadIfEnvironmentReady`), awaits the host and the plugins, and starts the
  run in a transaction that reads the thread only. What keeps the environment
  meanwhile is the thread that lives in it. If it is archived, the removal is
  requested, and it is unarchived, all between the check and the transaction, the run
  starts in an environment that is being torn down; if it is stopped, the start may
  reach the host although the thread is idle, and its environment may be rebuilt or
  removed under it. `AgentsKeepWorkspace` leaves these two cases out by `lapsed`;
  without that condition TLC finds the first of them and the property is violated.
* A stop that comes after a restart, before the sweep has restored the
  request, does not cancel the launch; the sweep then finds no starting thread, and
  the launch stays until the thread is archived or deleted. The deletion of a thread
  does not wait for its agent to stop, so the removal of the workspace may begin
  while the agent still ends.
* Two rows moved between the same two neighbours, from a stale view or around a
  claimed row, get equal keys; a later move between the two is then refused.
* A queued message or project with a migrated key that ends in zeros has no room below
  it if the row before has the same numeral without them. A row moved between
  `0000000000000009` and `0000000000000020` gets `000000000000001`; if the row with
  `0000000000000010` was claimed at that moment and comes back, no key is between the
  two, and a move there throws. `HasRoom` says that this is the only such pair, and
  the run reaches it.

## Proofs

TLAPS checks everything below for arbitrary `Id` (finite), `Workers`, `Tokens`,
`Envelope`, `Notices` and `WaitKinds`, from `StoreAssumption` and
`DispatchAssumption`, which say how the constants are typed, that messages are
finitely many, and that the instance has the waits its thread gives; and of the
other modules for arbitrary constants under their own assumptions (bounds are
naturals, sets that must be apart are).

**QueueStoreProofs.** `TypeOK` is inductive by itself; its hard conjunct is that
`before` strictly and totally orders the queued rows, which three lemmas about
relations keep apart from the table: appending (`AppendOrder`), restricting
(`RestrictOrder`) and moving (`MoveOrder`) an element. Exclusive claims are not
inductive: one has to know that an idle worker has no batch and that a batch
was once in the table (`HeldRows`), else a new row could be in the batch of a
worker. `StoreInv` is the conjunction with `ClaimsExclusive`, `OneEnvelope` and
`AtMostOnce`. The step proof goes through three shape lemmas: every claim is
`ClaimRows` of a set of live rows with one envelope (`ClaimShape`), every
settlement deletes a batch or leaves `phase` alone (`WorkerShape`), nobody else
touches workers or copies (`OtherShape`). `SentWhole` follows: a row that goes
from queued to sent was deleted by the only worker whose token it carries.

`QueueKeepsPromise`, in the same module, maps each step of QueueStore to a step of
Outbox or a stutter, under `NoticesAlone` (no notice shares an envelope with
another message), the proviso whose necessity `store_notices` shows. The
invariant adds `NoticesHanded`: a worker about to delete a notice has handed it
over, and what was never queued has no copy; with it `NothingLost` is inductive.

**QueueDispatchProofs.** `DispatchImplementsStore` is a simulation with the
identity on the table's variables. It needs `Reasons`: the waits a thread gives
a row are among the instance's, and a worker past a delivery holds a notice.
Through it QueueStore's theorems hold of the dispatch
(`DispatchSendsAtMostOnce`). `PauseIsHonoured` shows that a sent row was sent
by its holder (`SendsOfDispatch`, from `ClaimsExclusive`), whose transaction
looked at the pause. `DispatchKeepsPromise` composes the two refinements.

*What `ClaimsResolve` rests on* is safety and proved: with `HeldInBatch` (a row that
carries a working worker's token is in its batch) every claimed row belongs to a
running dispatch or is open to the sweep (`ClaimsAreAccountedFor`), and no end of a
dispatch leaves a claim (`OnlyCrashesLeaveClaims`, `DispatchesLeaveNoClaims`), also
when the user deleted rows of the batch in between. Liveness adds only that a
dispatch goes on and the sweep runs.

**EventDeliveryProofs.** `LogHasNoGaps` and `SinkForgetsNothing` hold for every
number of events and strays. Neither is inductive: a stray may be handled when
its events have long left the buffer, and a batch leaves the buffer after the
answer came. `DeliveryInv` therefore says of the cursor `sent`, of `done` during
a drain, of the first cut once the answer is there, and of the beginning of each
stray that all events before it are seen to. What is seen to stays so
(`SeenStays`), because the log, the effects, the dropped and the lost only grow;
a batch stored where everything before it is seen to leaves no gap
(`StoringLeavesNoGap`), and one handled whole is seen to (`HandledIsSeen`).

The type invariant follows with `StatusStep`: the fold over a batch is a recursive
function, and its values are statuses by descent to a first place where they are
not (`LeastPlace`), for which the well-foundedness of the naturals is enough.

`FinishedRunsStayFinished` needs to know why a thread is active. The same descent
shows that a batch leaves it so only if it was active and no turn has ended
since, or a turn has started whose end is not in the log from an earlier batch
(`ActiveBecause`, the rule of `shouldApplyEventEffect`). `QuietInv` says that an
active thread waits for a turn, runs one, or that the end of one is still `Ahead`
of the cursor, and that starts and ends of turns are never refused for good,
since the start of a turn that ends is in the log by then (`TurnIsStored`). A
daemon that dies takes the end of its turn with it, so the theorem is about
those that have not.

**CommandLanesProofs.** That a command is alone when its queue lets it in depends
on what everybody else waits for, and a promise names only its predecessors.
`LanesInv` therefore says that the commands of a lane stand in a line: whoever
stands behind another that must not share the lane with it waits for it, or for
one between the two, and so does the promise the lane keeps for those to come.
That is where a lane deleted too early would let a command overtake.
`WritesAlone`, `OneAtATime` and `NoLaneLeft` are read off.

`TurnsStayInOrder` needs the line of a thread's turns to respect who was there
first (`Respects`), and of the barrier that the unarchives ahead of a waiting turn
are reached through the one it names (`BarrierInv`). The barrier of a thread is its
last unarchive alone (`registerThreadUnarchiveBarrier`), and only the lane of an
environment makes that one wait for an earlier one. The theorem therefore assumes
`UnarchivesStay`: the unarchives of a thread name one environment. Without it TLC
finds a turn that begins while the earlier unarchive still runs.

`CommandsNeverBlock` holds without a proviso: whatever arrives in whatever order, while
one command is unanswered, one can go on. `FlowInv` says that a command waits for
commands that are at a later lane, or at the same one for longer, so the one that is
furthest by this well-founded rank waits for nobody. A command takes at most five
steps; `EveryCommandEnds` adds the fairness.

**InteractionsProofs.** `OneQuestion` is inductive with the type invariant.
`ToldAsRecorded` needs what travels: a command that carries an answer carries the
one the row holds, a reply says delivered only if the provider heard it, and what
the server still waits for belongs to a row that no one has resolved.
`AnswersEnd` says how long an answer may hang: a row is resolving only while the
server waits for its command, unless a process died.

**HostSessionsProofs.** In layers: `SessionInv` (only the latest session
can be active, only an active one registered, a call waits for a registered
one), `AwayIsTimed` on top of it, and `TurnInv` for the agreement: at most one
turn runs and it is the last; what the daemon reported as it asked is still true
or its end is in the sink; and with an open session the status tells whether a
turn runs. `LogInv` adds the log: an open turn is the last and its thread active, a
completed one was finished, and what runs or waits in the sink is the last turn.
With it a daemon that is back and has posted its events runs whatever the log calls
open (`LogAgreesWithDaemons`). `OnlyLossesInterrupt` marks off the finding of
`hosts_finished`: what the document says does hold until a request, a connection
or a process is lost; no order of turns, posts and sessions alone violates it.

**WorkspacesProofs.** `WorkspaceInv` adds to the type three parts. `Tracked`: the row
and the operations in memory agree, so that a cancelled launch is still marked as
pending as long as anything of it runs, and no create is left for an attempt the
row no longer names. `OneOwner`: a path key belongs to the launch or to one
environment, never to both, unless the launch has become it; this is why a launch
that rebuilds an environment needs a key of its own. `Usable`: what a row calls
ready is on the host and nobody removes it. `NothingLeaked` is inductive with them,
and `NoOverlap` and `CancelledStays` are read off. `AgentsKeepWorkspace` needs a fourth,
`StillReady`: from the check on, as long as the dispatch has not lapsed, the
environment it found is that of its thread, is ready, and is not being removed,
because its thread counts as living there (`HasLive`) in every status the start lets
it have. No assumption is made on who else comes to or leaves the environment. With `Told` (a
cancellation that waits has told its create to stop) a recorded cancellation always
has a next step (`CancellationsGoOn`): nobody waits for a create that nobody stopped, for
a slot that nobody holds, or for a sweep that would skip it. Steps
that change a row in the same way share a lemma (`ThreadShape`, `FailShape`,
`RemovalShape`, `StatusOnly`).

**OrderKeysProofs.** `ThereIsAlwaysRoom` finds the first place where the digits of
the two neighbours have room (`LeastElement`): it is one past the longer key at
the latest (`GapExists`). The new key is above the lower neighbour because it
begins with its digits, and below the upper one because the two first differ
there or before (`FirstDifference`), unless the upper one is the lower one with first
digits behind it (`Flush`). Then no string is between them at all (`NothingBetween`).
Such an upper key ends in the first digit; keys that were made never do
(`KeysEndWell`), so it is a migrated one, and the lower one is shorter, so it is not
(`FlushIsRare`). Nothing is assumed of the migrated keys but that they are equally
long and not all zeros, which `printf('%016d', row number)` gives.

**Only model-checked:** `ClaimsResolve`, `IdleThreadIsDrained`, `EveryCommandEnds`,
`EventuallyOnline` and `CleanupEnds` (liveness under fairness is out of the prover's reach; of
the first, third and fifth the safety they rest on is proved: a claim always has an owner,
a command or a cancellation always a next step); and the three violations.

## Not modelled

*In the queue:* the content of messages and its editing (a row's text does not
decide anything modelled here), attachments, listing queries for clients.
*In the dispatch:* manual compaction, context clears, handoffs, archived and
deleted threads, reprovisioning of a lost workspace, the retry of a first
launch that failed before it had an environment, the pacing of plugin
rechecks, and the branch that queues a notice anew when the running turn has no
id yet. The pause also ends in the code when a later interruption of another reason
is recorded, so the model's pause lasts longer; and "send now" may name a mode other
than `auto`, which takes the checkpoint where the model may take the fast path of an
idle thread. A plugin is a hook that may ask a message to wait. The five minutes
after which a claim is stale are left open: the sweep may release any orphaned
claim at any time.
*In event delivery:* the deduplication of items, events of other threads and
hosts, delegated turns, stops, what the server makes of the turns of a daemon
that died, turns that end as `interrupted` (they settle a stop) or with the exit of
the provider process, an effect that throws (it is logged, and the next event of the
batch has its turn), the wakes and notices that follow an event (the queue's wakes are in
QueueDispatch), and the orderly end of the sink. Who calls flush, and when, is
left open, so nothing says that an event is delivered in the end.
*In the command router:* commands that pass no lane, what the commands do, and
the single-instance lock (a file with a process id).
*Of questions:* payloads, validation of answers, the timeline, notifications of
parent threads, and the clocks after which a plugin's question or a live command
is given up (they may strike at any time). Provider requests that come twice are
one question: request ids are unique within a provider process.
*Of host sessions:* the threads whose latest interruption was a restart of their
daemon, which a report does not revive, removal of a host, stops and deletions of threads during
reconciliation, protocol mismatch and self-update, heartbeats (a session that the
server finds inactive is a connection that breaks), terminals, tunnels, and the
shorter grace after which questions are interrupted, which Interactions has as
one of the causes.
*Of environments:* those made without a provider, placement into an existing
environment, providers that are not registered, changes of a thread's choice of
provider, the scripts a hook runs (a setup may succeed or fail), removal of a host,
and the transcript of provisioning. One ask is one step; its awaits are reads.
*Of the thread* only the steps that the queue can observe are there; command
results, stop settlement and reconciliation in full are the next module.

*Not at all:* terminals (attach, output sequence numbers), the handoff of a thread
to another server, plugin activation; and the clients, the relay
and the provider adapters, which are interfaces and conversions with little
control of their own and most of the repository's lines.

## Plan

1. **ThreadTurns**: `thread-lifecycle.ts` and `internal/events.ts` in full: stop
   requests, settlement, command results that come late or never; abstract spec:
   a run starts, ends once, and a stop ends it. The thread steps of QueueDispatch
   and HostSessions are to be shown to be its steps.
2. **EventDelivery, continued**: the other threads of a batch, item settlement,
   the timers and callers of flush with the fairness they justify, and liveness:
   an event is delivered in the end.
3. **Workspaces, continued**: placement into an existing environment, environments
   without a provider, a provider that goes away, and several threads that launch at
   once and wait for the slot of their host.
4. Terminals, connection handoff and plugin activation as the rest allows.

Theorems to come: the invariants of each module above, the composition of
QueueDispatch with ThreadTurns, and the clocks of HostSessions after a restart.
