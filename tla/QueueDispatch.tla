---------------------------- MODULE QueueDispatch ----------------------------
(***************************************************************************)
(* The queue of one thread together with the thread: what wakes a dispatch,*)
(* what a dispatch checks before it sends, and what it does to the thread. *)
(*                                                                         *)
(* A worker of QueueStore now follows the code of sendQueuedMessage and    *)
(* sendNextQueuedMessageIfPresent.  One action is one stretch of code      *)
(* without an await; between two actions of a worker anything else runs,   *)
(* so what it read of the thread (seen, course) may be stale when used.    *)
(*                                                                         *)
(* WaitKinds also says which reasons to wait this instance meets: a        *)
(* dispatch hook is installed iff "plugin" is one, the host may drop iff   *)
(* "host-offline" is, the agent may ask a question iff "interaction" is.   *)
(*                                                                         *)
(* Left out: manual compaction, context clears, handoffs, archived and     *)
(* deleted threads, the reprovisioning of a lost workspace, the retry of a *)
(* first launch that failed before it had an environment, and the branch   *)
(* that puts a notice back as a new row when no turn id is known yet.      *)
(***************************************************************************)
EXTENDS QueueStore, ThreadLifecycle

CONSTANTS
    Birth,      \* "resumed", "created" or "forked": how the thread begins
    MayCrash    \* whether the server may die

ASSUME DispatchAssumption ==
    /\ Birth \in {"resumed", "created", "forked"}
    /\ MayCrash \in BOOLEAN
    /\ TurnEndWaits \subseteq WaitKinds
    /\ Birth # "resumed" => "provisioning" \in WaitKinds

VARIABLES
    status,     \* threads.status
    turn,       \* the events show a running root turn (getActiveTurnId)
    session,    \* the events show a provider thread (getLastProviderThreadId)
    work,       \* the daemon has a turn request it has not started yet
    pause,      \* the manual stop: "none", "stopped", or a turn was "requested" since
    asking,     \* an interaction of the thread is pending
    online,     \* the host has a live daemon session
    wakes,      \* wake-ups deferred in memory
    course,     \* where worker w is in the code
    seen,       \* the status of the thread worker w works from
    policy      \* on whose behalf worker w claimed: "drain", "attempt" or "now"

threadVars == <<status, turn, session, work, pause, asking, online>>
dispatchVars == <<course, seen, policy>>
vars == <<storeVars, threadVars, wakes, dispatchVars>>

Hooks == "plugin" \in WaitKinds
Paused == pause # "none"    \* isThreadQueueAutoSendPaused

DispatchInit ==
    /\ Init
    /\ status = CASE Birth = "resumed" -> "idle"
                  [] Birth = "created" -> "pending"
                  [] Birth = "forked" -> "starting"
    /\ turn = FALSE
    /\ session = (Birth = "resumed")
    /\ work = (Birth = "forked")
    /\ pause = "none"
    /\ asking = FALSE
    /\ online = TRUE
    /\ wakes = {}
    /\ course = [w \in Workers |-> "none"]
    /\ seen = [w \in Workers |-> "none"]
    /\ policy = [w \in Workers |-> "none"]

-----------------------------------------------------------------------------
(* A message is queued.                                                    *)

\* The wait the checkpoint gives an inline send; "thread-busy" is an explicit
\* "queue this", "time" a scheduled send.
InlineWait ==
    IF ~ online /\ status # "pending" THEN {"host-offline"}
    ELSE IF status = "active" /\ ~ turn THEN {"turn-starting"}
    ELSE IF status = "starting" THEN {"provisioning"}
    ELSE IF asking THEN {"interaction"}
    ELSE IF Hooks THEN {"plugin"} ELSE {}

QueueMessage(i) ==
    /\ i \notin Notices
    /\ \E kind \in {"thread-busy"} \union ({"time"} \intersect WaitKinds)
                   \union (IF status = "stopping" THEN {} ELSE InlineWait) :
          Enqueue(i, kind)
    /\ UNCHANGED <<threadVars, wakes, dispatchVars>>

\* queueParentSystemMessage, when the notice cannot be delivered at once.
QueueNotice(i) ==
    /\ i \in Notices
    /\ \/ asking /\ Enqueue(i, "interaction")
       \/ ~ asking /\ Enqueue(i, "thread-busy")
       \/ ~ asking /\ status = "active" /\ ~ turn /\ Enqueue(i, "turn-starting")
    /\ UNCHANGED <<threadVars, wakes, dispatchVars>>

-----------------------------------------------------------------------------
(* A dispatch begins: claim, then decide how to go on.                     *)

\* createAutomaticQueuedMessageGroupEligibility; a scheduled row is due or not.
EligibleKinds ==
    LET always == {"none", "plugin"}
                  \union (IF status \in {"idle", "pending"} THEN {"thread-busy"} ELSE {})
                  \union (IF status = "idle" \/ (status = "active" /\ turn)
                          THEN {"turn-starting"} ELSE {})
    IN  {WaitKinds \intersect always, WaitKinds \intersect (always \union {"time"})}

\* sendClaimedQueuedMessageForThread up to its first await: a notice goes its
\* own way, an idle session takes the fast path, the rest the checkpoint.
Begin(w, why) ==
    /\ course' = [course EXCEPT ![w] =
          IF lead'[w] \in Notices THEN "notice"
          ELSE IF status = "idle" /\ session /\ ~ Hooks THEN "fast" ELSE "check"]
    /\ seen' = [seen EXCEPT ![w] = status]
    /\ policy' = [policy EXCEPT ![w] = why]
    /\ UNCHANGED <<threadVars, wakes>>

\* lifecycleDedupers.queuedMessageDispatch: one drain of a thread at a time.
Draining == \E w \in Workers : stage[w] # "idle" /\ policy[w] = "drain"

\* Mutant: a thread that never ran has no environment to join to, and is not
\* drained.
DrainNextRun(w) ==
    /\ ~ Draining
    /\ status \notin {"stopping", "pending"}
    /\ \E kinds \in EligibleKinds : ClaimNext(w, kinds, Paused)
    /\ Begin(w, "drain")

\* sendNextQueuedMessageIfPresent, after a thread-ready wake or by the sweep.
DrainNext(w) ==
    /\ ~ Draining
    /\ status # "stopping"
    /\ \E kinds \in EligibleKinds : ClaimNext(w, kinds, Paused)
    /\ Begin(w, "drain")

\* attemptAutomaticQueuedMessage: a wake tries the one row it is about.
AttemptRow(w, i) ==
    /\ \E kinds \in EligibleKinds : ClaimAutomatic(w, i, kinds, Paused)
    /\ Begin(w, "attempt")

\* sendQueuedMessageNow.
SendNow(w, i) == ClaimExplicit(w, i) /\ Begin(w, "now")

-----------------------------------------------------------------------------
(* The checkpoint (runDispatchAttempt).                                    *)

Goes(w, where) == course' = [course EXCEPT ![w] = where]
Ends(w) ==
    /\ Goes(w, "none")
    /\ policy' = [policy EXCEPT ![w] = "none"]
    /\ seen' = [seen EXCEPT ![w] = "none"]
    /\ UNCHANGED wakes

\* The status moved since it was read: once, the attempt starts over.
ThreadChanged(w) ==
    /\ course[w] = "check"
    /\ online \/ seen[w] = "pending"
    /\ seen[w] # "stopping" /\ status # seen[w]
    /\ Goes(w, "recheck")
    /\ seen' = [seen EXCEPT ![w] = status]
    /\ UNCHANGED <<storeVars, threadVars, wakes, policy>>

Unmoved(w) ==
    /\ course[w] \in {"check", "recheck"}
    /\ online \/ seen[w] = "pending"
    /\ status = seen[w] /\ status # "stopping"

\* The core waits, in the order a message meets them.
CoreWait(w) ==
    IF course[w] \in {"check", "recheck"} /\ ~ online
       /\ seen[w] \notin {"pending", "stopping"} THEN {"host-offline"}
    ELSE IF ~ Unmoved(w) THEN {}
    ELSE IF status = "active" /\ ~ turn THEN {"turn-starting"}
    ELSE IF status = "starting" THEN {"provisioning"}
    ELSE IF asking THEN {"interaction"} ELSE {}

\* Mutant: the row shows the failure of an earlier attempt beside its new wait.
WaitsWithStaleFailure(w) ==
    /\ stage[w] = "held" /\ CoreWait(w) # {}
    /\ Unclaim(w)
    /\ wait' = [i \in Id |->
          IF i \in StillHeld(w) THEN CHOOSE kind \in CoreWait(w) : TRUE ELSE wait[i]]
    /\ WorkerDone(w)
    /\ UNCHANGED <<phase, before, groupWithNext, failed, copies>>
    /\ Ends(w)
    /\ UNCHANGED threadVars

Waits(w) ==
    /\ \E kind \in CoreWait(w) : Requeue(w, kind)
    /\ Ends(w)
    /\ UNCHANGED threadVars

\* No core wait holds: resolve how the message is going to be sent.  "submit"
\* resumes the provider session, "begin" (thread.start) makes one.
Pass(w) ==
    /\ Unmoved(w) /\ CoreWait(w) = {}
    /\ \/ status = "pending" /\ Goes(w, IF course[w] = "check" THEN "admit" ELSE "readmit")
       \/ status = "active" /\ Goes(w, "join")
       \/ status \in {"idle", "error"} /\ session /\ Goes(w, "submit")
       \/ status \in {"idle", "error"} /\ ~ session /\ Goes(w, "begin")
    /\ UNCHANGED <<storeVars, threadVars, wakes, seen, policy>>

\* The hook pass comes back with a wait.
HookWaits(w) ==
    /\ Hooks /\ policy[w] # "now"
    /\ course[w] \in {"admit", "readmit", "join", "submit", "begin"}
    /\ Requeue(w, "plugin")
    /\ Ends(w)
    /\ UNCHANGED threadVars

-----------------------------------------------------------------------------
(* The dispatch transactions.                                              *)

\* Mutant: the fast path does not look at the pause again.
HeldByPauseAtCheckpoint(w) ==
    /\ Paused /\ policy[w] # "now" /\ course[w] # "fast"
    /\ \E i \in batch[w] : Ordinary(i)

\* respectsManualStopPause, checked again in the transaction.
HeldByPause(w) == Paused /\ policy[w] # "now" /\ \E i \in batch[w] : Ordinary(i)

Requested == pause' = IF pause = "stopped" THEN "requested" ELSE pause

\* consumeClaimedRows and the transition in one transaction.
Sends(w, event) ==
    /\ ~ HeldByPause(w)
    /\ Consume(w)
    /\ status' = After(status, event)
    /\ work' = TRUE
    /\ Requested
    /\ Ends(w)
    /\ UNCHANGED <<turn, session, asking, online>>

\* admitPendingThread: somebody else's admission took the start context, or the
\* flip is lost and rolls the consumption back; once, the attempt starts over.
Admit(w) ==
    /\ course[w] \in {"admit", "readmit"}
    /\ Applies(status, "run.preparing")
    /\ Sends(w, "run.preparing")

AdmissionLost(w) ==
    /\ course[w] = "admit"
    /\ status # "pending"
    /\ Goes(w, "recheck")
    /\ seen' = [seen EXCEPT ![w] = status]
    /\ UNCHANGED <<storeVars, threadVars, wakes, policy>>

\* The fast path and a turn.submit: run.started must apply.
Submit(w) ==
    /\ course[w] \in {"fast", "submit"}
    /\ Applies(status, "run.started")
    /\ Sends(w, "run.started")

\* A thread.start: only an idle or failed thread takes run.started.
Start(w) ==
    /\ course[w] = "begin"
    /\ Sends(w, IF status \in {"idle", "error"} THEN "run.started" ELSE "none")

\* A message joins the running turn; nothing looks at the status again.
Join(w) == course[w] = "join" /\ Sends(w, "none")

\* deliverParentSystemMessage: one status check per way, then the second
\* transaction deletes the row.
HandNotice(w) ==
    /\ course[w] = "notice"
    /\ \/ /\ seen[w] = "active" /\ status = "active" /\ turn
          /\ UNCHANGED status
       \/ /\ seen[w] \in {"idle", "error"} /\ session
          /\ Applies(status, "run.started")
          /\ status' = After(status, "run.started")
       \/ /\ seen[w] \in {"idle", "error"} /\ ~ session
          /\ UNCHANGED status
    /\ DeliverNotice(w)
    /\ work' = TRUE
    /\ Requested
    /\ UNCHANGED <<turn, session, asking, online, wakes, dispatchVars>>

NoticeGone(w) ==
    /\ ConsumeNotice(w)
    /\ Ends(w)
    /\ UNCHANGED threadVars

\* Mutant: an error path that returns without giving the claim back.
FailsSilently(w) ==
    /\ stage[w] # "idle"
    /\ Ends(w)
    /\ UNCHANGED <<storeVars, threadVars>>

\* The attempt throws, for a reason of its own or because its claim, the pause
\* or the status is not what it was.  Only "send now" has somebody to tell; for
\* the others the row shows the failure, unless the error is one that the code
\* expects (a lost claim, a pause, a timeout).
Fails(w) ==
    /\ stage[w] = "noticed" => StillHeld(w) # batch[w]
    /\ \/ Release(w)
       \/ /\ policy[w] = "drain" /\ stage[w] = "held"
          /\ ReleaseFailed(w, lead[w], ~ online)
       \/ /\ policy[w] = "attempt"
          /\ \E i \in batch[w] : ReleaseFailed(w, i, ~ online)
    /\ Ends(w)
    /\ UNCHANGED threadVars

-----------------------------------------------------------------------------
(* The thread and its daemon.                                              *)

\* Clears the waits of one kind, if any row has it.
Clear(kind) == IF WaitingOn(kind) # {} THEN ClearWaits(kind) ELSE UNCHANGED storeVars

\* A wake-up deferred in memory, named for the waits it is going to end.
Wake(kind) == wakes' = wakes \union ({kind} \intersect WaitKinds)

\* The user sends a message past the queue.
InlineSend ==
    /\ online /\ ~ asking
    /\ \/ status = "pending" /\ status' = After(status, "run.preparing")
       \/ status \in {"idle", "error"} /\ status' = After(status, "run.started")
       \/ status = "active" /\ turn /\ UNCHANGED status
    /\ work' = TRUE
    /\ Requested
    /\ UNCHANGED <<storeVars, turn, session, asking, online, wakes, dispatchVars>>

\* settleThreadStartCommandResult: a thread forked without input settles idle,
\* any other is active until its first turn is over.  The workspace-ready wake
\* that comes before finds the thread still starting and does nothing.
StartSettled ==
    /\ status = "starting" /\ work /\ online
    /\ \E empty \in {FALSE, Birth = "forked" /\ ~ session} :
          /\ status' = After(status, IF empty THEN "run.succeeded" ELSE "run.started")
          /\ work' = ~ empty
    /\ session' = TRUE
    /\ UNCHANGED <<storeVars, turn, pause, asking, online, wakes, dispatchVars>>

\* turn/started of a root turn; one that a stop has overtaken is skipped.
TurnStarted ==
    /\ work /\ ~ turn /\ online /\ status \notin {"pending", "stopping"}
    /\ turn' = TRUE /\ session' = TRUE /\ work' = FALSE
    /\ status' = After(status, "run.started")
    /\ pause' = IF pause = "requested" THEN "none" ELSE pause
    /\ Wake("provisioning")
    /\ UNCHANGED <<storeVars, asking, online, dispatchVars>>

\* turn/completed; the provider does not end a turn that awaits an answer.
TurnCompleted ==
    /\ turn /\ ~ asking /\ online
    /\ \E event \in {"run.succeeded", "run.failed"} : status' = After(status, event)
    /\ turn' = FALSE
    /\ UNCHANGED <<storeVars, session, work, pause, asking, online, wakes, dispatchVars>>

\* A command or the provider process fails: its questions end with it.
RunFailed ==
    /\ status = "active"
    /\ status' = After(status, "run.failed")
    /\ turn' = FALSE /\ work' = FALSE /\ asking' = FALSE
    /\ IF asking THEN Wake("interaction") ELSE UNCHANGED wakes
    /\ UNCHANGED <<storeVars, session, pause, online, dispatchVars>>

\* failThreadProvisioning: what waited for the workspace waits no longer.
ProvisionFailed ==
    /\ status = "starting"
    /\ Clear("provisioning")
    /\ status' = After(status, "run.failed")
    /\ work' = FALSE
    /\ UNCHANGED <<turn, session, pause, asking, online, wakes, dispatchVars>>

\* The user stops the thread: the interruption is recorded with the request.
\* Before the thread has started, the stop may settle in the same transaction.
Stop ==
    /\ Applies(status, "stop.requested")
    /\ IF status = "starting" THEN Clear("provisioning") ELSE UNCHANGED storeVars
    /\ \/ status' = "stopping" /\ UNCHANGED work
       \/ status = "starting" /\ status' = "idle" /\ work' = FALSE
    /\ pause' = "stopped"
    /\ UNCHANGED <<turn, session, asking, online, wakes, dispatchVars>>

StopSettled ==
    /\ status = "stopping"
    /\ status' = After(status, "stop.settled")
    /\ turn' = FALSE /\ work' = FALSE /\ asking' = FALSE
    /\ IF asking THEN Wake("interaction") ELSE UNCHANGED wakes
    /\ UNCHANGED <<storeVars, session, pause, online, dispatchVars>>

\* The agent asks the user, and the user answers.
Ask ==
    /\ "interaction" \in WaitKinds
    /\ turn /\ ~ asking /\ status = "active" /\ online
    /\ asking' = TRUE
    /\ UNCHANGED <<storeVars, status, turn, session, work, pause, online, wakes, dispatchVars>>

Answer ==
    /\ asking
    /\ asking' = FALSE
    /\ Wake("interaction")
    /\ UNCHANGED <<storeVars, status, turn, session, work, pause, online, dispatchVars>>

HostLost ==
    /\ "host-offline" \in WaitKinds /\ online
    /\ online' = FALSE
    /\ UNCHANGED <<storeVars, status, turn, session, work, pause, asking, wakes, dispatchVars>>

\* The daemon's socket opens: prepareQueuedMessageDispatchWake clears at once.
HostBack ==
    /\ ~ online
    /\ online' = TRUE
    /\ Clear("host-offline")
    /\ UNCHANGED <<status, turn, session, work, pause, asking, wakes, dispatchVars>>

-----------------------------------------------------------------------------
(* Wake-ups, recovery and the user's edits.                                *)

\* runInteractionSettledDispatch and the first half of runTurnStartedDispatch;
\* the drains and attempts that follow are DrainNext and AttemptRow.
RunWake(kind) ==
    /\ kind \in wakes
    /\ wakes' = wakes \ {kind}
    /\ IF kind = "interaction" /\ asking THEN UNCHANGED storeVars ELSE Clear(kind)
    /\ UNCHANGED <<threadVars, dispatchVars>>

\* The plugin that holds the waits is unregistered, or gone after a restart.
PluginGone ==
    /\ ClearWaits("plugin")
    /\ UNCHANGED <<threadVars, wakes, dispatchVars>>

\* releaseStaleQueuedMessageDispatchClaims, on the timer of the sweeps.
Sweep == StaleRelease /\ UNCHANGED <<threadVars, wakes, dispatchVars>>
SweepOf(t) == StaleReleaseOf(t) /\ UNCHANGED <<threadVars, wakes, dispatchVars>>

\* The server dies: what it kept in memory is gone, the daemons come back later.
ServerDies ==
    /\ MayCrash
    /\ Crash
    /\ wakes' = {}
    /\ course' = [w \in Workers |-> "none"]
    /\ seen' = [w \in Workers |-> "none"]
    /\ policy' = [w \in Workers |-> "none"]
    /\ online' = ("host-offline" \notin WaitKinds)
    /\ UNCHANGED <<status, turn, session, work, pause, asking>>

Edits == UserStep /\ UNCHANGED <<threadVars, wakes, dispatchVars>>

-----------------------------------------------------------------------------
Dispatch(w) ==
    \/ ThreadChanged(w)
    \/ Waits(w)
    \/ Pass(w)
    \/ HookWaits(w)
    \/ Admit(w)
    \/ AdmissionLost(w)
    \/ Submit(w)
    \/ Start(w)
    \/ Join(w)
    \/ HandNotice(w)
    \/ NoticeGone(w)
    \/ Fails(w)

Claims(w) ==
    \/ DrainNext(w)
    \/ \E i \in Live : AttemptRow(w, i) \/ SendNow(w, i)

ThreadStep ==
    \/ InlineSend
    \/ StartSettled
    \/ TurnStarted
    \/ TurnCompleted
    \/ RunFailed
    \/ ProvisionFailed
    \/ Stop
    \/ StopSettled
    \/ Ask
    \/ Answer
    \/ HostLost
    \/ HostBack

DispatchNext ==
    \/ \E i \in Id : QueueMessage(i) \/ QueueNotice(i)
    \/ \E w \in Workers : Claims(w) \/ Dispatch(w)
    \/ ThreadStep
    \/ \E kind \in {"provisioning", "interaction"} : RunWake(kind)
    \/ PluginGone
    \/ Sweep
    \/ ServerDies
    \/ Edits

DispatchSpec == DispatchInit /\ [][DispatchNext]_vars

\* Every await of a dispatch has a timeout, deferred work runs, and the sweeps
\* of the server run on timers.  Nothing is assumed of the user, the agent or
\* the daemon.
DispatchFairness ==
    /\ \A w \in Workers : WF_vars(Dispatch(w))
    /\ WF_vars(\E w \in Workers : DrainNext(w))
    /\ \A kind \in {"provisioning", "interaction"} : WF_vars(RunWake(kind))
    /\ \A t \in Tokens : WF_vars(SweepOf(t))

FairDispatchSpec == DispatchSpec /\ DispatchFairness

-----------------------------------------------------------------------------
(* Properties.                                                             *)

\* The thread's columns keep their type; the code position of a worker and the
\* stage of its claim agree; only a thread with a session runs a turn.
DispatchTypeOK ==
    /\ status \in ThreadStatus
    /\ {turn, session, work, asking, online} \subseteq BOOLEAN
    /\ pause \in {"none", "stopped", "requested"}
    /\ wakes \subseteq {"provisioning", "interaction"}
    /\ course \in [Workers -> {"none", "notice", "fast", "check", "recheck", "admit",
                               "readmit", "join", "submit", "begin"}]
    /\ seen \in [Workers -> ThreadStatus \union {"none"}]
    /\ policy \in [Workers -> {"none", "drain", "attempt", "now"}]
    /\ \A w \in Workers : stage[w] = "idle" <=> course[w] = "none"
    /\ turn => session

\* After the user stopped the thread, no message that merely waited for the turn
\* to end is sent on its own, even if it was claimed before the stop and its
\* dispatch is past every check (respectsManualStopPause).
PauseHonoured ==
    [][\A w \in Workers :
          (\E i \in batch[w] : Ordinary(i) /\ phase[i] = "queued" /\ phase'[i] = "sent")
          => \/ policy[w] = "now"
             \/ pause = "none"
             \/ lead[w] \in Notices]_vars

\* Whatever the thread does meanwhile, the workers treat the rows as the table
\* allows: the dispatch implements QueueStore, and so all that holds there.
ImplementsStore == Spec

\* An idle thread is not left with messages it could send, nor with messages
\* that a dead server had claimed: again and again a dispatch is at work, or
\* nothing is left to drain, or the thread is busy or paused
\* (runIdleThreadRecovery).
IdleThreadIsDrained ==
    []<>(\/ status \notin {"idle", "pending"}
         \/ Paused
         \/ \E w \in Workers : stage[w] # "idle"
         \/ /\ OrphanTokens = {}
            /\ \A kinds \in EligibleKinds : DrainCandidates(kinds, FALSE) = {})
=============================================================================
