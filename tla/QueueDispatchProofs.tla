------------------------- MODULE QueueDispatchProofs -------------------------
(***************************************************************************)
(* Proofs about QueueDispatch: a dispatch that follows the thread makes    *)
(* only the steps the table allows, so all that is proved of QueueStore    *)
(* holds of it; and the pause after a manual stop is honoured.             *)
(***************************************************************************)
EXTENDS QueueDispatch, QueueStoreProofs

-----------------------------------------------------------------------------
(* The lifecycle table.                                                    *)

\* An event leaves the status alone or takes a transition of the table.
LEMMA AfterLifecycle ==
    ASSUME NEW s, NEW e
    PROVE  After(s, e) = s \/ <<s, e, After(s, e)>> \in Lifecycle
<1>1. CASE Applies(s, e)
  <2>1. \A t \in Lifecycle : t = <<t[1], t[2], t[3]>>
    BY DEF Lifecycle
  <2>2. PICK t \in Lifecycle : t[1] = s /\ t[2] = e
    BY <1>1 DEF Applies
  <2> DEFINE u == CHOOSE v \in Lifecycle : v[1] = s /\ v[2] = e
  <2>3. u \in Lifecycle /\ u[1] = s /\ u[2] = e
    BY <2>2
  <2>4. After(s, e) = u[3]
    BY <1>1 DEF After
  <2> QED
    BY <2>1, <2>3, <2>4
<1>2. CASE ~ Applies(s, e)
  BY <1>2 DEF After
<1> QED
  BY <1>1, <1>2

\* Nothing leads back to "pending", and only preparing a run to "starting".
LEMMA AfterStatus ==
    ASSUME NEW s \in ThreadStatus, NEW e
    PROVE  /\ After(s, e) \in ThreadStatus
           /\ After(s, e) = "pending" => s = "pending"
           /\ After(s, e) = "starting" => s = "starting" \/ e = "run.preparing"
BY AfterLifecycle DEF Lifecycle, ThreadStatus

-----------------------------------------------------------------------------
(* The dispatch and the table.                                             *)

\* The thread gives a row only reasons to wait that the instance has; a worker
\* past the delivery of a notice holds one.
Reasons ==
    /\ ~ online => "host-offline" \in WaitKinds
    /\ asking => "interaction" \in WaitKinds
    /\ "provisioning" \notin WaitKinds =>
          /\ status \notin {"pending", "starting"}
          /\ \A w \in Workers : course[w] \notin {"admit", "readmit"}
    /\ \A w \in Workers : stage[w] = "noticed" => lead[w] \in Notices

DispatchInv == TypeOK /\ DispatchTypeOK /\ Reasons

LEMMA DispatchInvInit == DispatchInit => DispatchInv
<1> SUFFICES ASSUME DispatchInit
             PROVE  DispatchInv
  OBVIOUS
<1>1. TypeOK
  BY TypeInit DEF DispatchInit
<1>2. /\ status \in ThreadStatus
      /\ Birth = "resumed" => status = "idle"
      /\ {turn, session, work, asking, online} \subseteq BOOLEAN
  BY DispatchAssumption DEF DispatchInit, ThreadStatus
<1>3. DispatchTypeOK
  BY <1>2 DEF DispatchInit, DispatchTypeOK, Init
<1>4. Reasons
  BY <1>2, DispatchAssumption DEF DispatchInit, Reasons, Init
<1> QED
  BY <1>1, <1>3, <1>4 DEF DispatchInv

LEMMA ClearIsStep ==
    ASSUME TypeOK, NEW kind, kind # "none", Clear(kind)
    PROVE  [Next]_storeVars
<1>1. CASE WaitingOn(kind) # {}
  <2>1. kind \in WaitKinds \ {"none"}
    BY <1>1 DEF WaitingOn, Live, Queued, TypeOK
  <2> QED
    BY <1>1, <2>1 DEF Clear, Next
<1> QED
  BY <1>1 DEF Clear

LEMMA ClaimsAreSteps ==
    ASSUME NEW w \in Workers, Claims(w)
    PROVE  ClaimStep(w)
<1>1. EligibleKinds \subseteq SUBSET WaitKinds /\ Paused \in BOOLEAN
  BY DEF EligibleKinds, Paused
<1>2. \A S : ClaimRows(w, S) => stage[w] = "idle"
  BY DEF ClaimRows
<1>3. CASE DrainNext(w)
  <2>1. PICK kinds \in EligibleKinds : ClaimNext(w, kinds, Paused)
    BY <1>3 DEF DrainNext
  <2>2. stage[w] = "idle"
    BY <1>2, <2>1 DEF ClaimNext
  <2> QED
    BY <1>1, <2>1, <2>2 DEF ClaimStep
<1>4. ASSUME NEW i \in Live, AttemptRow(w, i)
      PROVE  ClaimStep(w)
  <2>1. PICK kinds \in EligibleKinds : ClaimAutomatic(w, i, kinds, Paused)
    BY <1>4 DEF AttemptRow
  <2>2. stage[w] = "idle"
    BY <1>2, <2>1 DEF ClaimAutomatic
  <2> QED
    BY <1>1, <2>1, <2>2 DEF ClaimStep
<1>5. ASSUME NEW i \in Live, SendNow(w, i)
      PROVE  ClaimStep(w)
  BY <1>2, <1>5 DEF SendNow, ClaimStep, ClaimExplicit
<1> QED
  BY <1>3, <1>4, <1>5 DEF Claims

LEMMA DispatchIsStep ==
    ASSUME DispatchInv, NEW w \in Workers, Dispatch(w)
    PROVE  WorkerStep(w) \/ UNCHANGED storeVars
<1>1. ASSUME NEW event, Sends(w, event)
      PROVE  WorkerStep(w)
  BY <1>1 DEF Sends, WorkerStep
<1>2. CASE Waits(w)
  <2>1. PICK kind \in CoreWait(w) : Requeue(w, kind)
    BY <1>2 DEF Waits
  <2>2. kind \in WaitKinds \ {"none"}
    BY <2>1, DispatchAssumption
       DEF CoreWait, Unmoved, DispatchInv, Reasons, TurnEndWaits
  <2> QED
    BY <2>1, <2>2 DEF WorkerStep
<1>3. CASE HookWaits(w)
  BY <1>3 DEF HookWaits, Hooks, WorkerStep
<1>4. CASE Fails(w)
  <2>1. (~ online) \in BOOLEAN /\ (~ online => "host-offline" \in WaitKinds)
    BY DEF DispatchInv, Reasons
  <2>2. stage[w] = "held" => lead[w] \in batch[w]
    BY DEF DispatchInv, TypeOK
  <2>3. CASE Release(w)
    BY <2>3 DEF WorkerStep
  <2>4. ASSUME NEW i \in batch[w], ReleaseFailed(w, i, ~ online)
        PROVE  WorkerStep(w)
    BY <2>1, <2>4, Zenon DEF WorkerStep
  <2> QED
    BY <1>4, <2>2, <2>3, <2>4 DEF Fails
<1>5. CASE HandNotice(w) \/ NoticeGone(w)
  BY <1>5 DEF HandNotice, NoticeGone, WorkerStep
<1>6. CASE ThreadChanged(w) \/ Pass(w) \/ AdmissionLost(w)
  BY <1>6 DEF ThreadChanged, Pass, AdmissionLost
<1>7. CASE Admit(w) \/ Submit(w) \/ Start(w) \/ Join(w)
  BY <1>1, <1>7 DEF Admit, Submit, Start, Join
<1> QED
  BY <1>2, <1>3, <1>4, <1>5, <1>6, <1>7 DEF Dispatch

LEMMA DispatchStep ==
    ASSUME DispatchInv, [DispatchNext]_vars
    PROVE  [Next]_storeVars
<1>1. ASSUME NEW i \in Id, QueueMessage(i) \/ QueueNotice(i)
      PROVE  [Next]_storeVars
  <2>1. PICK kind \in WaitKinds : Enqueue(i, kind)
    BY <1>1, DispatchAssumption
       DEF QueueMessage, QueueNotice, InlineWait, Hooks, DispatchInv, Reasons, TurnEndWaits
  <2> QED
    BY <2>1 DEF Next
<1>2. ASSUME NEW w \in Workers, Claims(w) \/ Dispatch(w)
      PROVE  [Next]_storeVars
  BY <1>2, ClaimsAreSteps, DispatchIsStep DEF Next
<1>3. CASE ThreadStep
  <2>1. CASE ProvisionFailed \/ Stop \/ HostBack
    BY <2>1, ClearIsStep DEF ProvisionFailed, Stop, HostBack, DispatchInv
  <2>2. CASE ~ (ProvisionFailed \/ Stop \/ HostBack)
    BY <1>3, <2>2
       DEF ThreadStep, InlineSend, StartSettled, TurnStarted, TurnCompleted, RunFailed,
           StopSettled, Ask, Answer, HostLost
  <2> QED
    BY <2>1, <2>2
<1>4. ASSUME NEW kind \in {"provisioning", "interaction"}, RunWake(kind)
      PROVE  [Next]_storeVars
  BY <1>4, ClearIsStep DEF RunWake, DispatchInv
<1>5. CASE PluginGone
  <2>1. Clear("plugin")
    BY <1>5 DEF PluginGone, ClearWaits, Clear
  <2> QED
    BY <2>1, ClearIsStep DEF DispatchInv
<1>6. CASE Sweep \/ ServerDies \/ Edits
  BY <1>6 DEF Sweep, ServerDies, Edits, Next
<1>7. CASE UNCHANGED vars
  BY <1>7 DEF vars
<1> QED
  BY <1>1, <1>2, <1>3, <1>4, <1>5, <1>6, <1>7 DEF DispatchNext

-----------------------------------------------------------------------------
(* The invariant of the dispatch.                                          *)

\* What an edit, a sweep or a wake leaves alone, and what a cleared wait does.
LEMMA QuietStep ==
    ASSUME DispatchInv, UNCHANGED <<threadVars, dispatchVars>>, stage' = stage, lead' = lead,
           wakes' \subseteq {"provisioning", "interaction"}
    PROVE  DispatchTypeOK' /\ Reasons'
BY DEF DispatchInv, DispatchTypeOK, Reasons, threadVars, dispatchVars

\* A claim begins the course of its worker.
LEMMA ClaimsKeepInv ==
    ASSUME DispatchInv, NEW w \in Workers, Claims(w)
    PROVE  DispatchTypeOK' /\ Reasons'
<1>1. /\ stage' = [stage EXCEPT ![w] = "held"]
      /\ \E i : lead' = [lead EXCEPT ![w] = i]
  BY ClaimsAreSteps, ClaimShape DEF ClaimRows
<1>2. \E why \in {"drain", "attempt", "now"} : Begin(w, why)
  BY DEF Claims, DrainNext, AttemptRow, SendNow
<1> QED
  BY <1>1, <1>2 DEF Begin, threadVars, DispatchInv, DispatchTypeOK, Reasons, TypeOK

\* Every way a dispatch may go on or end.
LEMMA DispatchKeepsInv ==
    ASSUME DispatchInv, NEW w \in Workers, Dispatch(w)
    PROVE  DispatchTypeOK' /\ Reasons'
<1>1. ASSUME NEW where \in {"recheck", "admit", "readmit", "join", "submit", "begin"},
             Goes(w, where), stage[w] # "idle" \/ course[w] # "none",
             seen' \in [Workers -> ThreadStatus \union {"none"}],
             UNCHANGED <<storeVars, threadVars, wakes, policy>>,
             where \in {"admit", "readmit"} => status = "pending"
      PROVE  DispatchTypeOK' /\ Reasons'
  BY <1>1 DEF Goes, storeVars, workerVars, threadVars, DispatchInv, DispatchTypeOK, Reasons
<1>2. CASE ThreadChanged(w)
  <2>1. seen' \in [Workers -> ThreadStatus \union {"none"}]
    BY <1>2 DEF ThreadChanged, DispatchInv, DispatchTypeOK
  <2> QED
    BY <1>1, <1>2, <2>1 DEF ThreadChanged
<1>3. CASE AdmissionLost(w)
  <2>1. seen' \in [Workers -> ThreadStatus \union {"none"}]
    BY <1>3 DEF AdmissionLost, DispatchInv, DispatchTypeOK
  <2> QED
    BY <1>1, <1>3, <2>1 DEF AdmissionLost
<1>4. CASE Pass(w)
  BY <1>1, <1>4 DEF Pass, Unmoved, DispatchInv, DispatchTypeOK
<1>5. ASSUME WorkerDone(w), Ends(w), status' \in ThreadStatus, work' \in BOOLEAN,
             pause' \in {"none", "stopped", "requested"},
             UNCHANGED <<turn, session, asking, online>>,
             "provisioning" \notin WaitKinds => status' \notin {"pending", "starting"}
      PROVE  DispatchTypeOK' /\ Reasons'
  BY <1>5 DEF WorkerDone, Ends, Goes, DispatchInv, DispatchTypeOK, Reasons, TypeOK
<1>6. ASSUME WorkerDone(w), Ends(w), UNCHANGED threadVars
      PROVE  DispatchTypeOK' /\ Reasons'
  BY <1>5, <1>6 DEF threadVars, DispatchInv, DispatchTypeOK, Reasons
<1>7. CASE Waits(w) \/ HookWaits(w) \/ NoticeGone(w)
  BY <1>6, <1>7 DEF Waits, HookWaits, NoticeGone, Requeue, ConsumeNotice
<1>8. CASE Fails(w)
  BY <1>6, <1>8 DEF Fails, Release, ReleaseFailed
<1>9. ASSUME NEW event, Sends(w, event),
             event = "run.preparing" => course[w] \in {"admit", "readmit"}
      PROVE  DispatchTypeOK' /\ Reasons'
  <2>1. /\ status' \in ThreadStatus
        /\ "provisioning" \notin WaitKinds => status' \notin {"pending", "starting"}
    BY <1>9, AfterStatus DEF Sends, DispatchInv, DispatchTypeOK, Reasons
  <2>2. pause' \in {"none", "stopped", "requested"}
    BY <1>9 DEF Sends, Requested, DispatchInv, DispatchTypeOK
  <2> QED
    BY <1>5, <1>9, <2>1, <2>2 DEF Sends, Consume
<1>10. CASE Admit(w) \/ Submit(w) \/ Start(w) \/ Join(w)
  BY <1>9, <1>10 DEF Admit, Submit, Start, Join
<1>11. CASE HandNotice(w)
  <2>1. /\ status' \in ThreadStatus
        /\ "provisioning" \notin WaitKinds => status' \notin {"pending", "starting"}
    BY <1>11, AfterStatus DEF HandNotice, DispatchInv, DispatchTypeOK, Reasons
  <2>2. /\ stage[w] # "idle" /\ lead[w] \in Notices /\ lead' = lead
        /\ stage' = [stage EXCEPT ![w] = "noticed"]
    BY <1>11 DEF HandNotice, DeliverNotice
  <2> QED
    BY <1>11, <2>1, <2>2
       DEF HandNotice, Requested, dispatchVars, DispatchInv, DispatchTypeOK, Reasons, TypeOK
<1> QED
  BY <1>2, <1>3, <1>4, <1>7, <1>8, <1>10, <1>11 DEF Dispatch

\* What the thread does leaves the workers where they are.
LEMMA ThreadKeepsInv ==
    ASSUME DispatchInv, ThreadStep
    PROVE  DispatchTypeOK' /\ Reasons'
<1>1. \A kind : Clear(kind) => stage' = stage /\ lead' = lead
  BY DEF Clear, ClearWaits, storeVars, workerVars
<1>2. stage' = stage /\ lead' = lead /\ UNCHANGED dispatchVars
  BY <1>1 DEF ThreadStep, InlineSend, StartSettled, TurnStarted, TurnCompleted, RunFailed,
              ProvisionFailed, Stop, StopSettled, Ask, Answer, HostLost, HostBack,
              storeVars, workerVars, dispatchVars
<1>3. /\ status' \in ThreadStatus
      /\ status' = "pending" => status = "pending"
      /\ status' = "starting" => status \in {"starting", "pending"}
  <2>1. status \in ThreadStatus
    BY DEF DispatchInv, DispatchTypeOK
  <2>2. CASE InlineSend
    BY <2>1, <2>2, AfterStatus DEF InlineSend
  <2>3. CASE StartSettled
    BY <2>1, <2>3, AfterStatus DEF StartSettled
  <2>4. CASE TurnStarted \/ TurnCompleted
    BY <2>1, <2>4, AfterStatus DEF TurnStarted, TurnCompleted
  <2>5. CASE RunFailed \/ ProvisionFailed \/ StopSettled
    BY <2>1, <2>5, AfterStatus DEF RunFailed, ProvisionFailed, StopSettled
  <2>6. CASE Stop
    BY <2>6 DEF Stop, ThreadStatus
  <2>7. CASE Ask \/ Answer \/ HostLost \/ HostBack
    BY <2>1, <2>7 DEF Ask, Answer, HostLost, HostBack
  <2> QED
    BY <2>2, <2>3, <2>4, <2>5, <2>6, <2>7 DEF ThreadStep
<1>4. wakes' \subseteq {"provisioning", "interaction"}
  BY DEF ThreadStep, InlineSend, StartSettled, TurnStarted, TurnCompleted, RunFailed,
         ProvisionFailed, Stop, StopSettled, Ask, Answer, HostLost, HostBack, Wake,
         DispatchInv, DispatchTypeOK
<1>5. pause' \in {"none", "stopped", "requested"}
  BY DEF ThreadStep, InlineSend, StartSettled, TurnStarted, TurnCompleted, RunFailed,
         ProvisionFailed, Stop, StopSettled, Ask, Answer, HostLost, HostBack, Requested,
         DispatchInv, DispatchTypeOK
<1>6. {turn, session, work, asking, online}' \subseteq BOOLEAN
  <2>1. {turn, session, work, asking, online} \subseteq BOOLEAN
    BY DEF DispatchInv, DispatchTypeOK
  <2> QED
    BY <2>1 DEF ThreadStep, InlineSend, StartSettled, TurnStarted, TurnCompleted, RunFailed,
                ProvisionFailed, Stop, StopSettled, Ask, Answer, HostLost, HostBack
<1>7. /\ turn' => session'
      /\ ~ online' => "host-offline" \in WaitKinds
      /\ asking' => "interaction" \in WaitKinds
  BY DEF ThreadStep, InlineSend, StartSettled, TurnStarted, TurnCompleted, RunFailed,
         ProvisionFailed, Stop, StopSettled, Ask, Answer, HostLost, HostBack,
         DispatchInv, DispatchTypeOK, Reasons
<1> QED
  BY <1>2, <1>3, <1>4, <1>5, <1>6, <1>7
     DEF dispatchVars, DispatchInv, DispatchTypeOK, Reasons

LEMMA DispatchInvNext ==
    ASSUME DispatchInv, [DispatchNext]_vars
    PROVE  DispatchInv'
<1>1. TypeOK'
  BY DispatchStep, TypeNext DEF DispatchInv
<1> SUFFICES DispatchTypeOK' /\ Reasons'
  BY <1>1 DEF DispatchInv
<1>2. wakes \subseteq {"provisioning", "interaction"}
  BY DEF DispatchInv, DispatchTypeOK
<1>3. ASSUME NEW i \in Id, QueueMessage(i) \/ QueueNotice(i)
      PROVE  DispatchTypeOK' /\ Reasons'
  BY <1>2, <1>3, QuietStep DEF QueueMessage, QueueNotice, Enqueue, workerVars
<1>4. ASSUME NEW w \in Workers, Claims(w) \/ Dispatch(w)
      PROVE  DispatchTypeOK' /\ Reasons'
  BY <1>4, ClaimsKeepInv, DispatchKeepsInv
<1>5. CASE ThreadStep
  BY <1>5, ThreadKeepsInv
<1>6. ASSUME NEW kind, RunWake(kind)
      PROVE  DispatchTypeOK' /\ Reasons'
  BY <1>2, <1>6, QuietStep DEF RunWake, Clear, ClearWaits, storeVars, workerVars
<1>7. CASE PluginGone
  BY <1>2, <1>7, QuietStep DEF PluginGone, ClearWaits, workerVars
<1>8. CASE Sweep
  BY <1>2, <1>8, QuietStep DEF Sweep, StaleRelease, ReleaseTokens, workerVars
<1>9. CASE ServerDies
  BY <1>9 DEF ServerDies, Crash, DispatchInv, DispatchTypeOK, Reasons
<1>10. CASE Edits
  BY <1>2, <1>10, QuietStep DEF Edits, UserStep, Delete, SetBoundary, Reorder, workerVars
<1>11. CASE UNCHANGED vars
  BY <1>2, <1>11, QuietStep DEF vars, storeVars, workerVars
<1> QED
  BY <1>3, <1>4, <1>5, <1>6, <1>7, <1>8, <1>9, <1>10, <1>11 DEF DispatchNext

LEMMA DispatchInvAlways == DispatchSpec => []DispatchInv
BY DispatchInvInit, DispatchInvNext, PTL DEF DispatchSpec

\* The thread and its dispatches keep their shape: the course of a worker and
\* the stage of its claim agree, and only a thread with a session has a turn.
THEOREM DispatchTypeCorrect == DispatchSpec => []DispatchTypeOK
BY DispatchInvAlways, PTL DEF DispatchInv

-----------------------------------------------------------------------------
(* What the dispatch implements, and what follows.                         *)

\* Whatever the thread, the host and the user do meanwhile, a dispatch makes
\* only steps that the table of QueueStore allows.
THEOREM DispatchImplementsStore == DispatchSpec => ImplementsStore
<1>1. DispatchInit => Init
  BY DEF DispatchInit
<1>2. DispatchInv /\ [DispatchNext]_vars => [Next]_storeVars
  BY DispatchStep
<1> QED
  BY <1>1, <1>2, DispatchInvAlways, PTL DEF DispatchSpec, ImplementsStore, Spec

\* So no race of a dispatch with the thread hands a message over twice.
THEOREM DispatchSendsAtMostOnce == DispatchSpec => []AtMostOnce
BY DispatchImplementsStore, MessagesAreSentAtMostOnce DEF ImplementsStore

\* With notices that travel alone the promise of Outbox holds for the real paths
\* too, whatever the thread, the host, the plugins and the user do meanwhile: a
\* message leaves the queue delivered once or removed, with its whole prompt.
THEOREM DispatchKeepsPromise ==
    ASSUME NoticesAlone
    PROVE  DispatchSpec => KeepsPromise
BY DispatchImplementsStore, QueueKeepsPromise DEF ImplementsStore

\* A dispatch that waits, fails or loses its thread leaves no row claimed: only
\* the death of the server does (dispatchQueuedMessages, releaseQueuedMessageClaims).
THEOREM DispatchesLeaveNoClaims == DispatchSpec => OrphansOfCrashes
BY DispatchImplementsStore, OnlyCrashesLeaveClaims DEF ImplementsStore

\* Only a dispatch sends a row: the worker that holds it, and if the pause after
\* a manual stop holds the batch, only behind a notice.
LEMMA SendsOfDispatch ==
    ASSUME DispatchInv, [DispatchNext]_vars, NEW i \in Id,
           phase[i] = "queued", phase'[i] = "sent"
    PROVE  \E v \in Workers :
              /\ i \in batch[v] /\ claim[i] = token[v]
              /\ stage[v] # "idle"
              /\ lead[v] \in Notices \/ ~ HeldByPause(v)
<1>1. ASSUME NEW v \in Workers, Dispatch(v)
      PROVE  /\ i \in batch[v] /\ claim[i] = token[v]
             /\ stage[v] # "idle"
             /\ lead[v] \in Notices \/ ~ HeldByPause(v)
  <2>1. i \in StillHeld(v) /\ (Consume(v) \/ ConsumeNotice(v))
    <3>1. phase' # phase
      OBVIOUS
    <3>2. WorkerStep(v)
      BY <1>1, <3>1, DispatchIsStep DEF storeVars, rowVars
    <3>3. DeleteBatch(v) /\ (Consume(v) \/ ConsumeNotice(v))
      BY <3>1, <3>2, WorkerShape DEF DeliverNotice, rowVars
    <3>4. i \in batch[v]
      BY <3>3 DEF DeleteBatch, DispatchInv, TypeOK
    <3> QED
      BY <3>3, <3>4 DEF DeleteBatch
  <2>2. /\ i \in batch[v] /\ claim[i] = token[v]
        /\ stage[v] # "idle"
    BY <2>1 DEF StillHeld, Consume, ConsumeNotice
  <2>3. CASE stage[v] = "noticed"
    BY <2>2, <2>3 DEF DispatchInv, Reasons
  <2>4. CASE \E event : Sends(v, event)
    BY <2>2, <2>4 DEF Sends
  <2>5. stage[v] = "noticed" \/ \E event : Sends(v, event)
    BY <1>1, <2>1
       DEF Dispatch, ThreadChanged, Waits, Pass, HookWaits, Admit, AdmissionLost, Submit,
           Start, Join, HandNotice, NoticeGone, Fails, Release, Requeue, ReleaseFailed,
           DeliverNotice, ConsumeNotice, storeVars, rowVars
  <2> QED
    BY <2>2, <2>3, <2>4, <2>5
<1>2. ASSUME phase' = phase
      PROVE  FALSE
  BY <1>2
<1>3. \E v \in Workers : Dispatch(v)
  <2>1. ASSUME NEW v \in Workers, Claims(v)
        PROVE  FALSE
    BY <1>2, <2>1, ClaimsAreSteps, ClaimShape DEF ClaimRows
  <2>2. ASSUME NEW j \in Id, QueueMessage(j) \/ QueueNotice(j)
        PROVE  FALSE
    BY <2>2 DEF QueueMessage, QueueNotice, Enqueue, DispatchInv, TypeOK
  <2>3. \A kind : Clear(kind) => phase' = phase
    BY DEF Clear, ClearWaits, storeVars, rowVars
  <2>4. CASE ThreadStep
    BY <1>2, <2>3, <2>4
       DEF ThreadStep, InlineSend, StartSettled, TurnStarted, TurnCompleted, RunFailed,
           ProvisionFailed, Stop, StopSettled, Ask, Answer, HostLost, HostBack,
           storeVars, rowVars
  <2>5. ASSUME NEW kind, RunWake(kind)
        PROVE  FALSE
    BY <1>2, <2>3, <2>5 DEF RunWake, storeVars, rowVars
  <2>6. CASE PluginGone \/ Sweep \/ ServerDies
    BY <1>2, <2>6
       DEF PluginGone, ClearWaits, Sweep, StaleRelease, ReleaseTokens, ServerDies, Crash, rowVars
  <2>7. CASE Edits
    BY <2>7 DEF Edits, UserStep, Delete, SetBoundary, Reorder, DispatchInv, TypeOK
  <2>8. CASE UNCHANGED vars
    BY <1>2, <2>8 DEF vars, storeVars, rowVars
  <2> QED
    BY <2>1, <2>2, <2>4, <2>5, <2>6, <2>7, <2>8 DEF DispatchNext
<1> QED
  BY <1>1, <1>3

\* After a manual stop nothing that merely waited for the turn to end is sent on
\* its own: the transaction that sends looks at the pause again, and the row it
\* sends is held by nobody else.
THEOREM PauseIsHonoured == DispatchSpec => PauseHonoured
<1> DEFINE Honoured == \A w \in Workers :
              (\E i \in batch[w] : Ordinary(i) /\ phase[i] = "queued" /\ phase'[i] = "sent")
              => \/ policy[w] = "now"
                 \/ pause = "none"
                 \/ lead[w] \in Notices
<1>1. ASSUME DispatchInv, StoreInv, [DispatchNext]_vars
      PROVE  Honoured
  <2>1. SUFFICES ASSUME NEW w \in Workers, NEW i \in batch[w],
                        Ordinary(i), phase[i] = "queued", phase'[i] = "sent"
                 PROVE  policy[w] = "now" \/ pause = "none" \/ lead[w] \in Notices
    OBVIOUS
  <2>2. i \in Id /\ stage[w] # "idle" /\ claim[i] = token[w]
    BY <1>1, <2>1 DEF StoreInv, TypeOK, HeldRows, ClaimsExclusive
  <2>3. PICK v \in Workers :
           /\ claim[i] = token[v] /\ stage[v] # "idle"
           /\ lead[v] \in Notices \/ ~ HeldByPause(v)
    BY <1>1, <2>1, <2>2, SendsOfDispatch
  <2>4. v = w
    BY <1>1, <2>2, <2>3 DEF StoreInv, ClaimsExclusive
  <2> QED
    BY <2>1, <2>3, <2>4 DEF HeldByPause, Paused
<1>2. DispatchSpec => []StoreInv
  BY DispatchImplementsStore, StoreInvAlways DEF ImplementsStore
<1>3. DispatchSpec => [][Honoured]_vars
  BY <1>1, <1>2, DispatchInvAlways, PTL DEF DispatchSpec
<1> QED
  BY <1>3 DEF PauseHonoured
=============================================================================
