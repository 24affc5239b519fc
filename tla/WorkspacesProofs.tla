-------------------------- MODULE WorkspacesProofs --------------------------
(***************************************************************************)
(* Proofs about Workspaces, for any number of attempts, retries and        *)
(* crashes and every policy of the provider.  What the properties rest on  *)
(* is that the row of the launch and the operations in memory agree        *)
(* (Tracked), that a path key has one owner (OneOwner), that what the      *)
(* rows call usable is there (Usable), that the environment a dispatch     *)
(* found ready stays so while its thread waits or runs (StillReady), and   *)
(* that a cancellation which waits has told its create to stop (Told).     *)
(***************************************************************************)
EXTENDS Workspaces, TLAPS

\* One create runs at most, for the launch as it is; a cancellation runs only
\* while one is recorded, and removes only when no create is left.
Tracked ==
    /\ \A c, d \in creates : c = d
    /\ \A c \in creates : c.attempt = launch.attempt /\ c.key = launch.key
    /\ creates # {} => launch.phase = "creating" \/ (launch.phase = "cancelled" /\ cancelling = "waiting")
    /\ cancelling # "none" => launch.pending
    /\ launch.pending => launch.phase = "cancelled"
    /\ launch.attached => launch.phase = "ready"
    /\ launch.phase = "creating" => launch.transients <= TransientRetryLimit /\ ~launch.rejected
    /\ launch.rejected /\ launch.phase # "none" => launch.key \in disowned
    /\ cancelling = "removing" => removing = 0

\* The launch and the environments never share a key, but for the environment
\* the launch has become.
OneOwner ==
    /\ launch.key \in {0, launch.attempt}
    /\ \A n \in Attempt : Exists(n) => /\ envs[n].key \in {0, n} /\ thread.env # 0
                                       /\ n <= launch.attempt
                                       /\ n = launch.attempt => launch.attached \/ launch.phase = "none"
                                       /\ envs[n].key = launch.key =>
                                            n = launch.attempt \/ launch.phase = "none"
    /\ \A m, n \in Attempt : Exists(m) /\ Exists(n) /\ envs[m].key = envs[n].key => m = n
    /\ launch.attached => /\ launch.attempt \in Attempt /\ Exists(launch.attempt)
                          /\ envs[launch.attempt].key = launch.key
                          /\ thread.env = launch.attempt
    /\ launch.phase # "none" => launch.attempt \in Attempt
    /\ thread.status \in {"attached", "runs"} => thread.env # 0
    /\ removing # 0 => Exists(removing) /\ envs[removing].teardown = "running"
    /\ launch.phase = "none" => thread.status = "gone" \/ \A n \in Attempt : ~Exists(n)

Usable ==
    /\ \A n \in Attempt : envs[n].status \in {"provisioning", "ready"} =>
                              envs[n].teardown = "none" /\ envs[n].key \in sites
    /\ launch.phase = "ready" /\ ~launch.attached => launch.key \in sites

\* The thread of a dispatch that did not lapse counts as one that lives in its environment,
\* from the check of the environment to the end of the run.
Waits == start.env # 0 /\ ~start.lapsed
StillReady ==
    /\ thread.status = "runs" => start.env # 0
    /\ start.env # 0 => thread.env # 0 /\ thread.status # "gone"
    /\ Waits => /\ thread.env = start.env /\ envs[thread.env].status = "ready"
                /\ thread.status \in {"attached", "idle", "error", "runs"}
                /\ thread.archived => thread.status = "runs"

WorkspaceInv == TypeOK /\ Tracked /\ OneOwner /\ Usable /\ StillReady /\ NothingLeaked

-----------------------------------------------------------------------------
(* The steps by their shape.                                               *)

\* What cancelProviderLaunch leaves: nothing to do, or a recorded cancellation
\* that runs, and the creates there were.
GivenUp ==
    /\ ~Settled
    /\ launch' = [launch EXCEPT !.phase = "cancelled", !.pending = TRUE]
    /\ IF cancelling = "none" THEN cancelling' = "waiting" ELSE cancelling' = cancelling
    /\ creates' \subseteq CreateOp
    /\ \A c \in creates' : \E d \in creates : c.attempt = d.attempt /\ c.key = d.key
    /\ \A c, d \in creates' : c = d

LEMMA CancelShape ==
    ASSUME TypeOK, Tracked, CancelLaunch
    PROVE  GivenUp \/ UNCHANGED launchVars
<1>1. CASE Settled
  BY <1>1 DEF CancelLaunch
<1>2. CASE ~Settled /\ cancelling # "none"
  BY <1>2 DEF CancelLaunch, GivenUp, TypeOK, Tracked
<1>3. CASE ~Settled /\ cancelling = "none"
  <2>1. creates' = {[c EXCEPT !.aborted = @ \/ c.attempt = launch.attempt] : c \in creates}
    BY <1>3 DEF CancelLaunch
  <2>2. ASSUME NEW c \in CreateOp, NEW a \in BOOLEAN
        PROVE  /\ [c EXCEPT !.aborted = a] \in CreateOp
               /\ [c EXCEPT !.aborted = a].attempt = c.attempt
               /\ [c EXCEPT !.aborted = a].key = c.key
    BY DEF CreateOp
  <2>3. ASSUME NEW e \in creates'
        PROVE  e \in CreateOp /\ \E d \in creates : e.attempt = d.attempt /\ e.key = d.key
    <3>1. PICK c \in creates : e = [c EXCEPT !.aborted = @ \/ c.attempt = launch.attempt]
      BY <2>1, <2>3
    <3>2. c \in CreateOp
      BY DEF TypeOK
    <3>3. (c.aborted \/ c.attempt = launch.attempt) \in BOOLEAN
      OBVIOUS
    <3>4. e = [c EXCEPT !.aborted = (c.aborted \/ c.attempt = launch.attempt)]
      BY <3>1
    <3> QED
      BY <2>2, <3>2, <3>3, <3>4
  <2>4. \A c, d \in creates' : c = d
    BY <2>1 DEF Tracked
  <2> QED
    BY <1>3, <2>3, <2>4 DEF CancelLaunch, GivenUp
<1> QED
  BY <1>1, <1>2, <1>3

\* The thread or its dispatch moves, and the thread may give its launch up; a stop may take
\* an environment for ready whose hooks were still running.
ThreadMoves ==
    /\ thread' \in ThreadRow /\ thread'.env = thread.env
    /\ GivenUp \/ UNCHANGED launchVars
    /\ UNCHANGED <<removing, guests, siteVars, policy, crashes>>
    /\ start' \in StartRecord
    /\ \/ envs' = envs
       \/ \E n \in Attempt : envs[n].status = "provisioning" /\ envs' = [envs EXCEPT ![n].status = "ready"]
    /\ thread'.status \in {"attached", "runs"} => thread.env # 0
    /\ thread.status = "gone" => thread'.status = "gone"

ThreadStep ==
    \/ AskCancels \/ AskFindsHostAway \/ AskRejects \/ SweepCancelled
    \/ StartChecks \/ RunStarts \/ StartFails \/ RunEnds \/ AttachedFails \/ Reprovision \/ Retry
    \/ Stop \/ Archive \/ Unarchive \/ Delete \/ Restore

LEMMA StartTypes ==
    ASSUME TypeOK
    PROVE  /\ NoStart \in StartRecord
           /\ \A b \in BOOLEAN : [start EXCEPT !.lapsed = b] \in StartRecord
           /\ thread.env # 0 => [start EXCEPT !.env = thread.env] \in StartRecord
           /\ Lapses => start' \in StartRecord
<1>1. NoStart \in StartRecord
  BY WorkspaceAssumption DEF StartRecord, NoStart, Key
<1>2. ASSUME NEW b \in BOOLEAN PROVE [start EXCEPT !.lapsed = b] \in StartRecord
  BY DEF TypeOK, StartRecord
<1>3. [start EXCEPT !.env = thread.env] \in StartRecord
  BY DEF TypeOK, ThreadRow, StartRecord
<1>4. ASSUME Lapses PROVE start' \in StartRecord
  <2>1. (start.lapsed \/ (start.env # 0 /\ thread.status # "runs")) \in BOOLEAN
    BY DEF TypeOK, StartRecord
  <2>2. start' = [start EXCEPT !.lapsed = start.lapsed \/ (start.env # 0 /\ thread.status # "runs")]
    BY <1>4 DEF Lapses
  <2> QED  BY <1>2, <2>1, <2>2
<1> QED  BY <1>1, <1>2, <1>3, <1>4

LEMMA ThreadShape ==
    ASSUME WorkspaceInv, ThreadStep
    PROVE  ThreadMoves
<1>0. TypeOK /\ Tracked /\ start \in StartRecord /\ thread \in ThreadRow /\ launch.attempt \in Key
  BY DEF WorkspaceInv, TypeOK, LaunchRow
<1>1. CASE AskCancels \/ SweepCancelled
  BY <1>0, <1>1, CancelShape DEF AskCancels, SweepCancelled, ThreadMoves, TypeOK, others
<1>2. CASE AskFindsHostAway \/ AskRejects
  BY <1>0, <1>2, CancelShape DEF AskFindsHostAway, AskRejects, Asks, ThreadMoves, Becomes, ThreadRow, others
<1>3. CASE StartChecks
  BY <1>0, <1>3, StartTypes DEF StartChecks, ThreadMoves, TypeOK
<1>4. CASE RunStarts
  BY <1>0, <1>4 DEF RunStarts, ThreadMoves, Becomes, ThreadRow, others, WorkspaceInv, StillReady
<1>5. CASE StartFails \/ RunEnds
  BY <1>0, <1>5, StartTypes DEF StartFails, RunEnds, ThreadMoves, Becomes, ThreadRow, TypeOK
<1>6. CASE AttachedFails \/ Reprovision
  BY <1>0, <1>6 DEF AttachedFails, Reprovision, ThreadMoves, Becomes, ThreadRow, others
<1>7. CASE Retry
  BY <1>0, <1>7, CancelShape DEF Retry, ThreadMoves, Becomes, ThreadRow, others
<1>8. CASE Stop
  <2>1. thread' \in ThreadRow /\ thread'.env = thread.env /\ thread'.status = "idle"
    BY <1>0, <1>8 DEF Stop, Becomes, ThreadRow
  <2>2. start' \in StartRecord
    BY <1>0, <1>8, StartTypes DEF Stop
  <2>3. GivenUp \/ UNCHANGED launchVars
    BY <1>0, <1>8, CancelShape DEF Stop
  <2>4. \/ envs' = envs
        \/ \E n \in Attempt : envs[n].status = "provisioning" /\ envs' = [envs EXCEPT ![n].status = "ready"]
    <3>1. thread.status = "attached" => thread.env \in Attempt
      BY <1>0 DEF TypeOK, ThreadRow, Key, Attempt
    <3> QED
      BY <1>8, <3>1 DEF Stop
  <2> QED
    BY <1>8, <2>1, <2>2, <2>3, <2>4 DEF Stop, ThreadMoves
<1>9. CASE Archive
  BY <1>0, <1>9, CancelShape, StartTypes DEF Archive, ThreadMoves, ThreadRow, TypeOK
<1>10. CASE Unarchive
  BY <1>0, <1>10 DEF Unarchive, ThreadMoves, ThreadRow, TypeOK, others
<1>11. CASE Delete
  BY <1>0, <1>11, CancelShape, StartTypes DEF Delete, ThreadMoves, Becomes, ThreadRow
<1>12. CASE Restore
  BY <1>0, <1>12 DEF Restore, ThreadMoves, Becomes, ThreadRow, others, WorkspaceInv, OneOwner, Key, Attempt
<1> QED
  BY <1>1, <1>2, <1>3, <1>4, <1>5, <1>6, <1>7, <1>8, <1>9, <1>10, <1>11, <1>12 DEF ThreadStep

\* A create ends in the row of its launch, or in nothing.
LEMMA FailShape ==
    ASSUME TypeOK, Tracked, NEW c \in creates, CreateFails(c)
    PROVE  /\ creates' = {}
           /\ UNCHANGED <<thread, cancelling, removing, envs, guests, siteVars, others>>
           /\ \/ launch' = launch /\ launch.phase # "creating"
              \/ /\ launch.phase = "creating"
                 /\ \E f \in {"transient", "terminal"}, t \in 0 .. TransientRetryLimit + 1 :
                        launch' = [launch EXCEPT !.phase = "failed", !.failure = f, !.transients = t]
<1> USE WorkspaceAssumption
<1>1. creates' = {}
  BY DEF CreateFails, Tracked
<1>2. CASE ~Creating(c)
  BY <1>1, <1>2 DEF CreateFails, Creating, Tracked
<1>3. CASE Creating(c)
  <2>1. PICK f \in {"transient", "terminal"} :
          launch' = [launch EXCEPT !.phase = "failed", !.failure = f,
                         !.transients = IF f = "transient" THEN @ + 1 ELSE @]
    BY <1>3 DEF CreateFails
  <2>2. (IF f = "transient" THEN launch.transients + 1 ELSE launch.transients) \in 0 .. TransientRetryLimit + 1
    BY <1>3 DEF Creating, Tracked, TypeOK, LaunchRow
  <2>3. launch' = [launch EXCEPT !.phase = "failed", !.failure = f, !.transients =
                      IF f = "transient" THEN launch.transients + 1 ELSE launch.transients]
    BY <2>1 DEF TypeOK, LaunchRow
  <2> QED
    BY <1>1, <1>3, <2>2, <2>3 DEF CreateFails, Creating
<1> QED
  BY <1>2, <1>3

LEMMA FailKeeps ==
    ASSUME TypeOK, Tracked, NEW c \in creates, CreateFails(c)
    PROVE  /\ launch'.attempt = launch.attempt /\ launch'.key = launch.key
           /\ launch'.attached = launch.attached /\ launch'.pending = launch.pending
           /\ launch' = launch \/ (launch.phase = "creating" /\ launch'.phase = "failed")
<1>1. CASE launch' = launch
  BY <1>1
<1>2. ASSUME NEW f \in {"transient", "terminal"}, NEW t \in 0 .. TransientRetryLimit + 1,
             launch' = [launch EXCEPT !.phase = "failed", !.failure = f, !.transients = t]
      PROVE  /\ launch'.attempt = launch.attempt /\ launch'.key = launch.key
             /\ launch'.attached = launch.attached /\ launch'.pending = launch.pending
             /\ launch'.phase = "failed"
  BY <1>2 DEF TypeOK, LaunchRow
<1> QED
  BY <1>1, <1>2, FailShape

\* The rows of the environments stay, but for their status.
SameEnvs ==
    \A n \in Attempt : /\ (envs'[n].status = "none") = (envs[n].status = "none")
                       /\ envs'[n].key = envs[n].key /\ envs'[n].teardown = envs[n].teardown

LEMMA StatusOnly ==
    ASSUME envs \in [Attempt -> EnvRow], NEW n \in Attempt, NEW s \in {"ready", "error"},
           Exists(n), envs' = [envs EXCEPT ![n].status = s]
    PROVE  SameEnvs
BY DEF SameEnvs, Exists, EnvRow

LEMMA ThreadKeeps ==
    ASSUME envs \in [Attempt -> EnvRow], ThreadMoves
    PROVE  /\ SameEnvs
           /\ \A n \in Attempt : envs[n].status = "ready" => envs'[n].status = "ready"
           /\ \A n \in Attempt : envs'[n].status \in {"provisioning", "ready"} =>
                                     envs[n].status \in {"provisioning", "ready"}
<1>1. CASE envs' = envs
  BY <1>1 DEF SameEnvs
<1>2. ASSUME NEW m \in Attempt, envs[m].status = "provisioning",
             envs' = [envs EXCEPT ![m].status = "ready"]
      PROVE  /\ SameEnvs
             /\ \A n \in Attempt : envs[n].status = "ready" => envs'[n].status = "ready"
             /\ \A n \in Attempt : envs'[n].status \in {"provisioning", "ready"} =>
                                       envs[n].status \in {"provisioning", "ready"}
  BY <1>2, StatusOnly DEF Exists
<1> QED
  BY <1>1, <1>2 DEF ThreadMoves

\* A removal touches one environment, which keeps its key: it is asked for and
\* perhaps started, or it ends.
Removal(n) ==
    /\ Exists(n) /\ envs'[n].key = envs[n].key
    /\ \A m \in Attempt \ {n} : envs'[m] = envs[m]
    /\ UNCHANGED <<thread, launchVars, guests, disowned, others>>
    /\ \/ /\ envs'[n].status = "error" /\ envs'[n].teardown = "running"
          /\ ~HasLive(n) /\ sites' = sites
          /\ removing' \in {removing, n} /\ (removing' # removing => cancelling # "removing")
       \/ /\ removing = n /\ removing' = 0
          /\ envs'[n].status \in {"destroyed", envs[n].status}
          /\ sites' \in {sites, sites \ {envs[n].key}}
          /\ \/ envs'[n].teardown = "removed" /\ sites' = sites \ {envs[n].key}
             \/ envs'[n].teardown = "failed"

LEMMA RemovalShape ==
    ASSUME envs \in [Attempt -> EnvRow], OneOwner, NEW n \in Attempt,
           RequestRemoval(n) \/ SweepRemoves(n) \/ RemoveDone(n) \/ RemoveFails(n)
    PROVE  Removal(n)
<1> USE DEF EnvRow
<1>1. CASE RequestRemoval(n)
  BY <1>1 DEF RequestRemoval, Removal, siteVars
<1>2. CASE SweepRemoves(n)
  BY <1>2 DEF SweepRemoves, SlotFree, Removal, siteVars
<1>3. CASE RemoveDone(n)
  <2>1. n # 0 /\ Exists(n)
    BY <1>3 DEF RemoveDone, OneOwner, Attempt
  <2> QED
    BY <1>3, <2>1 DEF RemoveDone, Removal
<1>4. CASE RemoveFails(n)
  <2>1. n # 0 /\ Exists(n)
    BY <1>4 DEF RemoveFails, OneOwner, Attempt
  <2> QED
    BY <1>4, <2>1 DEF RemoveFails, Removal
<1> QED
  BY <1>1, <1>2, <1>3, <1>4

LEMMA Steps ==
    ASSUME [Next]_vars
    PROVE  \/ ThreadStep \/ AskStarts \/ AskResumes \/ AskAttaches
           \/ \E c \in creates : Create(c)
           \/ CancelProceeds \/ CancelDone \/ CancelFails \/ ForgetLaunch
           \/ \E n \in Attempt :
               \/ GuestComes(n) \/ GuestGoes(n)
               \/ ProvisionSucceeds(n) \/ ProvisionFails(n)
               \/ RequestRemoval(n) \/ SweepRemoves(n) \/ RemoveDone(n) \/ RemoveFails(n)
           \/ Crash \/ UNCHANGED vars
BY DEF Next, ThreadStep

-----------------------------------------------------------------------------
(* Types.                                                                  *)

LEMMA EnvTypes ==
    ASSUME NEW f \in [Attempt -> EnvRow], NEW n \in Attempt,
           NEW s \in {"provisioning", "ready", "error", "destroyed", f[n].status},
           NEW t \in {"none", "running", "failed", "removed"}
    PROVE  /\ [f EXCEPT ![n].status = s] \in [Attempt -> EnvRow]
           /\ [f EXCEPT ![n].status = s, ![n].teardown = t] \in [Attempt -> EnvRow]
           /\ [f EXCEPT ![n].teardown = t, ![n].status = s] \in [Attempt -> EnvRow]
           /\ [f EXCEPT ![n].teardown = t] \in [Attempt -> EnvRow]
<1> DEFINE r == [f[n] EXCEPT !.status = s]
           q == [f[n] EXCEPT !.teardown = t]
<1>1. r \in EnvRow /\ q \in EnvRow
  BY DEF EnvRow
<1>2. [r EXCEPT !.teardown = t] \in EnvRow /\ [q EXCEPT !.status = s] \in EnvRow
  BY <1>1 DEF EnvRow
<1>3. ASSUME NEW e \in EnvRow
      PROVE  [f EXCEPT ![n] = e] \in [Attempt -> EnvRow]
  OBVIOUS
<1>4. [f EXCEPT ![n].status = s] = [f EXCEPT ![n] = r] /\ [f EXCEPT ![n].teardown = t] = [f EXCEPT ![n] = q]
  OBVIOUS
<1>5. [f EXCEPT ![n].status = s, ![n].teardown = t] = [f EXCEPT ![n] = [r EXCEPT !.teardown = t]]
  OBVIOUS
<1>6. [f EXCEPT ![n].teardown = t, ![n].status = s] = [f EXCEPT ![n] = [q EXCEPT !.status = s]]
  OBVIOUS
<1> QED
  BY <1>1, <1>2, <1>3, <1>4, <1>5, <1>6

LEMMA TypeNext ==
    ASSUME WorkspaceInv, [Next]_vars
    PROVE  TypeOK'
<1> USE WorkspaceAssumption DEF TypeOK
<1>0. TypeOK /\ Tracked
  BY DEF WorkspaceInv
<1>1. CASE ThreadStep
  <2>0. ThreadMoves
    BY <1>1, ThreadShape
  <2>2. launch' \in LaunchRow
    BY <1>0, <2>0 DEF ThreadMoves, GivenUp, LaunchRow, launchVars
  <2>3. envs' \in [Attempt -> EnvRow]
    <3>1. ASSUME NEW n \in Attempt, envs' = [envs EXCEPT ![n].status = "ready"]
          PROVE  envs' \in [Attempt -> EnvRow]
      BY <1>0, <3>1, EnvTypes
    <3> QED
      BY <1>0, <2>0, <3>1 DEF ThreadMoves
  <2>4. creates' \subseteq CreateOp /\ cancelling' \in {"none", "waiting", "removing"}
    BY <1>0, <2>0 DEF ThreadMoves, GivenUp, launchVars
  <2> QED
    BY <1>0, <2>0, <2>2, <2>3, <2>4 DEF ThreadMoves, siteVars, others
<1>2. CASE AskStarts
  <2>1. launch.attempt + 1 \in Attempt /\ Attempt \subseteq Key /\ 0 \in Key
    BY <1>0, <1>2 DEF AskStarts, LaunchRow, Attempt, Key
  <2> DEFINE n == launch.attempt + 1
             k == IF policy.keyPerAttempt \/ thread.env # 0 \/ launch.attached THEN n ELSE 0
             t == IF launch.phase = "cancelled" /\ Retryable THEN launch.transients ELSE 0
             c == [attempt |-> n, key |-> k, aborted |-> FALSE]
  <2>2. k \in Key /\ t \in 0 .. TransientRetryLimit + 1
    BY <1>0, <2>1 DEF LaunchRow
  <2>3. launch' = [attempt |-> n, phase |-> "creating", pending |-> FALSE, attached |-> FALSE,
                   key |-> k, failure |-> "none", rejected |-> FALSE, transients |-> t]
    BY <1>2 DEF AskStarts
  <2>4. creates' = creates \union {c} /\ disowned' = disowned \ {k}
    BY <1>2 DEF AskStarts
  <2>5. n \in Attempt /\ n \in Key
    BY <2>1
  <2> HIDE DEF n, k, t
  <2>6. launch' \in LaunchRow
    BY <2>2, <2>3, <2>5 DEF LaunchRow
  <2>7. c \in CreateOp
    BY <2>2, <2>5 DEF CreateOp
  <2> QED
    BY <1>0, <1>2, <2>4, <2>6, <2>7 DEF AskStarts, others
<1>3. CASE AskResumes
  <2>1. launch.attempt \in Attempt /\ launch.key \in Key
    BY <1>0, <1>3 DEF AskResumes, WorkspaceInv, OneOwner, LaunchRow
  <2> DEFINE c == [attempt |-> launch.attempt, key |-> launch.key, aborted |-> FALSE]
  <2>2. c \in CreateOp
    BY <2>1 DEF CreateOp
  <2>3. creates' = creates \union {c}
    BY <1>3 DEF AskResumes
  <2> QED
    BY <1>0, <1>3, <2>2, <2>3 DEF AskResumes, siteVars, others
<1>4. CASE AskAttaches
  <2>1. launch.attempt \in Attempt /\ launch.attempt \in Key /\ launch.key \in Key
    BY <1>0, <1>4 DEF AskAttaches, WorkspaceInv, OneOwner, LaunchRow
  <2>2. launch' \in LaunchRow /\ thread' \in ThreadRow
    BY <1>0, <1>4, <2>1 DEF AskAttaches, LaunchRow, ThreadRow
  <2>3. envs' \in [Attempt -> EnvRow]
    BY <1>0, <1>4, <2>1 DEF AskAttaches, EnvRow
  <2>4. thread'.env # 0
    BY <1>0, <1>4, <2>1 DEF AskAttaches, ThreadRow, Attempt
  <2> QED
    BY <1>0, <1>4, <2>2, <2>3, <2>4 DEF AskAttaches, siteVars, others
<1>5. ASSUME NEW c \in creates, Create(c)
      PROVE  TypeOK'
  <2>0. c.key \in Key
    BY <1>0 DEF CreateOp
  <2>1. CASE ProviderMakes(c)
    BY <1>0, <2>0, <2>1 DEF ProviderMakes, launchVars, others
  <2>2. CASE CreateReturns(c)
    <3>1. launch' \in LaunchRow
      BY <1>0, <2>2 DEF CreateReturns, LaunchRow
    <3> QED
      BY <1>0, <2>2, <3>1 DEF CreateReturns, siteVars, others
  <2>3. CASE CreateFails(c)
    <3>1. launch' \in LaunchRow
      BY <1>0, <2>3, FailShape DEF LaunchRow
    <3>2. creates' = {} /\ UNCHANGED <<thread, cancelling, removing, envs, guests, siteVars, others>>
      BY <1>0, <2>3, FailShape, Zenon
    <3> QED
      BY <1>0, <3>1, <3>2 DEF siteVars, others
  <2>4. CASE CreateRejected(c)
    <3>1. launch' \in LaunchRow
      BY <1>0, <2>4 DEF CreateRejected, LaunchRow
    <3> QED
      BY <1>0, <2>0, <2>4, <3>1 DEF CreateRejected, others
  <2> QED
    BY <1>5, <2>1, <2>2, <2>3, <2>4 DEF Create
<1>6. CASE CancelProceeds
  <2>1. launch' \in LaunchRow
    BY <1>0, <1>6 DEF CancelProceeds, LaunchRow
  <2> QED
    BY <1>0, <1>6, <2>1 DEF CancelProceeds, siteVars, others
<1>7. CASE CancelDone \/ CancelFails
  <2>1. launch' \in LaunchRow
    BY <1>0, <1>7 DEF CancelDone, CancelFails, LaunchRow
  <2> QED
    BY <1>0, <1>7, <2>1 DEF CancelDone, CancelFails, others
<1>8. CASE ForgetLaunch
  <2>1. launch' \in LaunchRow
    BY <1>0, <1>8 DEF ForgetLaunch, LaunchRow
  <2> QED
    BY <1>0, <1>8, <2>1 DEF ForgetLaunch, siteVars, others
<1>9. ASSUME NEW n \in Attempt, GuestComes(n) \/ GuestGoes(n)
      PROVE  TypeOK'
  BY <1>0, <1>9 DEF GuestComes, GuestGoes, launchVars, siteVars, others
<1>10. ASSUME NEW n \in Attempt, ProvisionSucceeds(n) \/ ProvisionFails(n)
      PROVE  TypeOK'
  <2>1. thread' \in ThreadRow
    BY <1>0, <1>10 DEF ProvisionSucceeds, ProvisionFails, Becomes, ThreadRow
  <2>3. thread'.status \in {"attached", "runs"} => thread'.env # 0
    BY <1>0, <1>10 DEF ProvisionSucceeds, ProvisionFails, Becomes, ThreadRow
  <2>2. envs' \in [Attempt -> EnvRow]
    <3>1. [envs EXCEPT ![n].status = "ready"] \in [Attempt -> EnvRow]
      BY <1>0, EnvTypes
    <3>2. [envs EXCEPT ![n].status = "error"] \in [Attempt -> EnvRow]
      BY <1>0, EnvTypes
    <3> QED
      BY <1>10, <3>1, <3>2 DEF ProvisionSucceeds, ProvisionFails
  <2> QED
    BY <1>0, <1>10, <2>1, <2>2, <2>3
       DEF ProvisionSucceeds, ProvisionFails, launchVars, siteVars, others
<1>11. ASSUME NEW n \in Attempt, RequestRemoval(n) \/ SweepRemoves(n)
      PROVE  TypeOK'
  <2>1. [envs EXCEPT ![n].status = "error", ![n].teardown = "running"] \in [Attempt -> EnvRow]
    BY <1>0, EnvTypes
  <2>2. n \in Key
    BY DEF Attempt, Key
  <2> QED
    BY <1>0, <1>11, <2>1, <2>2 DEF RequestRemoval, SweepRemoves, launchVars, siteVars, others
<1>12. ASSUME NEW n \in Attempt, RemoveDone(n) \/ RemoveFails(n)
      PROVE  TypeOK'
  <2>1. /\ [envs EXCEPT ![n].teardown = "removed", ![n].status = "destroyed"] \in [Attempt -> EnvRow]
        /\ [envs EXCEPT ![n].teardown = "removed", ![n].status = envs[n].status] \in [Attempt -> EnvRow]
        /\ [envs EXCEPT ![n].teardown = "failed"] \in [Attempt -> EnvRow]
    BY <1>0, EnvTypes
  <2>2. envs' \in {[envs EXCEPT ![n].teardown = "removed", ![n].status = "destroyed"],
                   [envs EXCEPT ![n].teardown = "removed", ![n].status = envs[n].status],
                   [envs EXCEPT ![n].teardown = "failed"]}
    BY <1>0, <1>12 DEF RemoveDone, RemoveFails, EnvRow
  <2>3. envs' \in [Attempt -> EnvRow]
    BY <2>1, <2>2, Zenon
  <2>4. 0 \in Key
    BY DEF Key
  <2> QED
    BY <1>0, <1>12, <2>3, <2>4 DEF RemoveDone, RemoveFails, launchVars, others
<1>13. CASE Crash
  <2>1. /\ thread' \in ThreadRow
        /\ thread'.status \in {"attached", "runs"} => thread'.env # 0
    BY <1>0, <1>13 DEF Crash, CrashOfDispatch, Becomes, ThreadRow
  <2>3. start' \in StartRecord
    BY <1>0, <1>13, StartTypes DEF Crash, CrashOfDispatch
  <2>2. sites' \subseteq Key /\ 0 \in Key /\ crashes' \in 0 .. MaxCrashes
    BY <1>0, <1>13 DEF Crash, CreateOp, Key
  <2> QED
    BY <1>0, <1>13, <2>1, <2>2, <2>3 DEF Crash
<1>14. CASE UNCHANGED vars
  BY <1>0, <1>14 DEF vars, launchVars, siteVars, others
<1> QED
  BY <1>1, <1>2, <1>3, <1>4, <1>5, <1>6, <1>7, <1>8, <1>9, <1>10, <1>11, <1>12, <1>13, <1>14, Steps

LEMMA TrackedNext ==
    ASSUME WorkspaceInv, [Next]_vars
    PROVE  Tracked'
<1> USE WorkspaceAssumption DEF WorkspaceInv, TypeOK, Tracked, LaunchRow, CreateOp, Attempt, Key, Exists,
        launchVars, siteVars, others
<1>1. CASE ThreadStep
  <2>1. ThreadMoves
    BY <1>1, ThreadShape
  <2>2. CASE GivenUp
    <3>1. launch.phase # "none" /\ ~launch.attached
      BY <2>2 DEF GivenUp, Settled
    <3>2. launch' = [launch EXCEPT !.phase = "cancelled", !.pending = TRUE]
      BY <2>2 DEF GivenUp
    <3>3. cancelling' # "none" /\ (cancelling' = "removing" => cancelling = "removing")
      BY <2>2 DEF GivenUp
    <3>4. creates' # {} => creates # {}
      BY <2>2 DEF GivenUp
    <3>5. creates' # {} => cancelling' = "waiting"
      BY <2>2, <3>4 DEF GivenUp
    <3>6. \A c \in creates' : c.attempt = launch.attempt /\ c.key = launch.key
      BY <2>2 DEF GivenUp
    <3>7. \A c, d \in creates' : c = d
      BY <2>2 DEF GivenUp
    <3> QED
      BY <2>1, <3>1, <3>2, <3>3, <3>5, <3>6, <3>7 DEF ThreadMoves
  <2>3. CASE UNCHANGED launchVars
    BY <2>1, <2>3 DEF ThreadMoves
  <2> QED
    BY <2>1, <2>2, <2>3 DEF ThreadMoves
<1>2. CASE AskStarts
  <2>1. creates = {} /\ cancelling = "none"
    BY <1>2 DEF AskStarts, Settled
  <2> DEFINE n == launch.attempt + 1
             k == IF policy.keyPerAttempt \/ thread.env # 0 \/ launch.attached THEN n ELSE 0
             t == IF launch.phase = "cancelled" /\ Retryable THEN launch.transients ELSE 0
             c == [attempt |-> n, key |-> k, aborted |-> FALSE]
  <2>2. launch' = [attempt |-> n, phase |-> "creating", pending |-> FALSE, attached |-> FALSE,
                   key |-> k, failure |-> "none", rejected |-> FALSE, transients |-> t]
    BY <1>2 DEF AskStarts
  <2>3. creates' = {c}
    BY <1>2, <2>1 DEF AskStarts
  <2>4. t <= TransientRetryLimit
    BY DEF Retryable
  <2>5. c.attempt = n /\ c.key = k
    OBVIOUS
  <2>6. cancelling' = "none" /\ removing' = removing
    BY <1>2, <2>1 DEF AskStarts
  <2> HIDE DEF n, k, t, c
  <2> QED
    BY <2>2, <2>3, <2>4, <2>5, <2>6
<1>3. CASE AskResumes
  <2> DEFINE c == [attempt |-> launch.attempt, key |-> launch.key, aborted |-> FALSE]
  <2>1. creates' = {c}
    BY <1>3 DEF AskResumes
  <2>2. c.attempt = launch.attempt /\ c.key = launch.key
    OBVIOUS
  <2> HIDE DEF c
  <2> QED
    BY <1>3, <2>1, <2>2 DEF AskResumes
<1>4. CASE AskAttaches
  BY <1>4 DEF AskAttaches, Asks
<1>5. ASSUME NEW c \in creates, Create(c)
      PROVE  Tracked'
  <2>1. CASE ProviderMakes(c)
    BY <2>1 DEF ProviderMakes
  <2>2. CASE CreateReturns(c)
    BY <2>2 DEF CreateReturns, Creating
  <2>3. CASE CreateFails(c)
    <3>1. CASE launch' = launch
      BY <2>3, <3>1, FailShape
    <3>2. CASE launch.phase = "creating"
      <4>1. PICK f \in {"transient", "terminal"}, t \in 0 .. TransientRetryLimit + 1 :
              launch' = [launch EXCEPT !.phase = "failed", !.failure = f, !.transients = t]
        BY <2>3, <3>2, FailShape
      <4> QED
        BY <2>3, <3>2, <4>1, FailShape
    <3> QED
      BY <2>3, <3>1, <3>2, FailShape
  <2>4. CASE CreateRejected(c)
    BY <2>4 DEF CreateRejected, Creating
  <2> QED
    BY <1>5, <2>1, <2>2, <2>3, <2>4 DEF Create
<1>6. CASE CancelProceeds
  BY <1>6 DEF CancelProceeds, SlotFree
<1>7. CASE CancelDone
  BY <1>7 DEF CancelDone
<1>8. CASE CancelFails
  BY <1>8 DEF CancelFails
<1>9. CASE ForgetLaunch
  BY <1>9 DEF ForgetLaunch
<1>10. ASSUME NEW n \in Attempt,
             GuestComes(n) \/ GuestGoes(n)
      PROVE  Tracked'
  <2>1. CASE GuestComes(n)
    BY <2>1 DEF GuestComes
  <2>2. CASE GuestGoes(n)
    BY <2>2 DEF GuestGoes
  <2> QED
    BY <1>10, <2>1, <2>2
<1>11. ASSUME NEW n \in Attempt,
             ProvisionSucceeds(n) \/ ProvisionFails(n)
      PROVE  Tracked'
  <2>1. CASE ProvisionSucceeds(n)
    BY <2>1 DEF ProvisionSucceeds
  <2>2. CASE ProvisionFails(n)
    BY <2>2 DEF ProvisionFails, Becomes
  <2> QED
    BY <1>11, <2>1, <2>2
<1>12. ASSUME NEW n \in Attempt,
             RequestRemoval(n) \/ SweepRemoves(n) \/ RemoveDone(n) \/ RemoveFails(n)
      PROVE  Tracked'
  <2>1. CASE RequestRemoval(n)
    BY <2>1 DEF RequestRemoval
  <2>2. CASE SweepRemoves(n)
    BY <2>2 DEF SweepRemoves, SlotFree
  <2>3. CASE RemoveDone(n)
    BY <2>3 DEF RemoveDone
  <2>4. CASE RemoveFails(n)
    BY <2>4 DEF RemoveFails
  <2> QED
    BY <1>12, <2>1, <2>2, <2>3, <2>4
<1>13. CASE Crash
  BY <1>13 DEF Crash, Becomes, Unmaking
<1>14. CASE UNCHANGED vars
  BY <1>14 DEF vars
<1> QED
  BY <1>1, <1>2, <1>3, <1>4, <1>5, <1>6, <1>7, <1>8, <1>9, <1>10, <1>11, <1>12, <1>13, <1>14, Steps

\* Who owns a key does not change while the attempts, the keys and the
\* environments stay.
SameOwners ==
    /\ SameEnvs
    /\ launch'.attempt = launch.attempt /\ launch'.key = launch.key
    /\ launch'.attached = launch.attached
    /\ launch'.phase = "none" <=> launch.phase = "none"
    /\ thread'.env = thread.env
    /\ thread'.status \in {"attached", "runs"} => thread.env # 0
    /\ thread.status = "gone" => thread'.status = "gone"
    /\ removing' = removing

LEMMA OwnersStay ==
    ASSUME OneOwner, SameOwners, removing \in Key
    PROVE  OneOwner'
BY DEF OneOwner, SameOwners, SameEnvs, Exists, Attempt, Key

LEMMA OwnersThread ==
    ASSUME WorkspaceInv, ThreadStep
    PROVE  OneOwner'
<1> USE DEF WorkspaceInv, TypeOK
<1>1. ThreadMoves
  BY ThreadShape
<1>2. SameEnvs
  BY <1>1, ThreadKeeps
<1>3. /\ launch'.attempt = launch.attempt /\ launch'.key = launch.key
      /\ launch'.attached = launch.attached
      /\ launch'.phase = "none" <=> launch.phase = "none"
  BY <1>1 DEF ThreadMoves, GivenUp, Settled, LaunchRow, launchVars
<1>4. /\ thread'.env = thread.env /\ removing' = removing
      /\ thread.status = "gone" => thread'.status = "gone"
      /\ thread'.status \in {"attached", "runs"} => thread.env # 0
  BY <1>1 DEF ThreadMoves
<1> QED
  BY <1>2, <1>3, <1>4, OwnersStay DEF SameOwners

LEMMA OwnersProvision ==
    ASSUME WorkspaceInv, NEW n \in Attempt, ProvisionSucceeds(n) \/ ProvisionFails(n)
    PROVE  OneOwner'
<1> USE DEF WorkspaceInv, TypeOK
<1>1. SameEnvs
  BY StatusOnly DEF ProvisionSucceeds, ProvisionFails, Exists
<1>2. /\ thread'.env = thread.env
      /\ thread'.status \in {"attached", "runs"} => thread.status \in {"attached", "runs"}
      /\ thread.status = "gone" => thread'.status = "gone"
  BY DEF ProvisionSucceeds, ProvisionFails, Becomes, ThreadRow
<1>3. UNCHANGED <<launch, removing>>
  BY DEF ProvisionSucceeds, ProvisionFails, launchVars
<1>4. thread.status \in {"attached", "runs"} => thread.env # 0
  BY DEF OneOwner
<1> QED
  BY <1>1, <1>2, <1>3, <1>4, OwnersStay DEF SameOwners

LEMMA OwnersRemoval ==
    ASSUME WorkspaceInv, NEW n \in Attempt, Removal(n)
    PROVE  OneOwner'
<1>1. UNCHANGED <<thread, launch>>
  BY DEF Removal, launchVars
<1>2. \A m \in Attempt : Exists(m)' = Exists(m) /\ envs'[m].key = envs[m].key
  BY DEF Removal, Exists
<1>3. removing' # 0 => /\ removing' \in Attempt /\ Exists(removing)'
                       /\ envs'[removing'].teardown = "running"
  BY DEF Removal, Exists, WorkspaceInv, OneOwner, TypeOK, Key, Attempt
<1> QED
  BY <1>1, <1>2, <1>3 DEF WorkspaceInv, OneOwner

LEMMA OneOwnerNext ==
    ASSUME WorkspaceInv, [Next]_vars
    PROVE  OneOwner'
<1> USE WorkspaceAssumption
    DEF WorkspaceInv, TypeOK, Tracked, OneOwner, EnvRow, ThreadRow, LaunchRow, CreateOp,
        Attempt, Key, Exists, launchVars, siteVars, others
<1>1. CASE ThreadStep
  BY <1>1, OwnersThread
<1>2. CASE AskStarts
  BY <1>2 DEF AskStarts, Asks, Settled, Retryable
<1>3. CASE AskResumes
  BY <1>3 DEF AskResumes, Asks
<1>4. CASE AskAttaches
  BY <1>4 DEF AskAttaches, Asks
<1>5. ASSUME NEW c \in creates, Create(c)
      PROVE  OneOwner'
  <2>1. CASE ProviderMakes(c)
    BY <2>1 DEF ProviderMakes
  <2>2. CASE CreateReturns(c)
    BY <2>2 DEF CreateReturns, Creating
  <2>3. CASE CreateFails(c)
    BY <2>3, FailKeeps, FailShape, OwnersStay DEF SameOwners, SameEnvs
  <2>4. CASE CreateRejected(c)
    BY <2>4 DEF CreateRejected, Creating
  <2> QED
    BY <1>5, <2>1, <2>2, <2>3, <2>4 DEF Create
<1>6. CASE CancelProceeds
  BY <1>6 DEF CancelProceeds, SlotFree
<1>7. CASE CancelDone
  BY <1>7 DEF CancelDone
<1>8. CASE CancelFails
  BY <1>8 DEF CancelFails
<1>9. CASE ForgetLaunch
  BY <1>9 DEF ForgetLaunch
<1>10. ASSUME NEW n \in Attempt,
             GuestComes(n) \/ GuestGoes(n)
      PROVE  OneOwner'
  <2>1. CASE GuestComes(n)
    BY <2>1 DEF GuestComes
  <2>2. CASE GuestGoes(n)
    BY <2>2 DEF GuestGoes
  <2> QED
    BY <1>10, <2>1, <2>2
<1>11. ASSUME NEW n \in Attempt, ProvisionSucceeds(n) \/ ProvisionFails(n)
       PROVE  OneOwner'
  BY <1>11, OwnersProvision
<1>12. ASSUME NEW n \in Attempt,
              RequestRemoval(n) \/ SweepRemoves(n) \/ RemoveDone(n) \/ RemoveFails(n)
       PROVE  OneOwner'
  BY <1>12, RemovalShape, OwnersRemoval
<1>13. CASE Crash
  <2>1. /\ thread'.env = thread.env /\ (thread.status = "gone" => thread'.status = "gone")
        /\ thread'.status \in {"attached", "runs"} => thread.status \in {"attached", "runs"}
    BY <1>13 DEF Crash, CrashOfDispatch, Becomes
  <2>2. removing' = 0 /\ UNCHANGED <<launch, envs>>
    BY <1>13 DEF Crash
  <2> QED  BY <2>1, <2>2
<1>14. CASE UNCHANGED vars
  BY <1>14 DEF vars
<1> QED
  BY <1>1, <1>2, <1>3, <1>4, <1>5, <1>6, <1>7, <1>8, <1>9, <1>10, <1>11, <1>12, <1>13, <1>14, Steps

LEMMA UsableRemoval ==
    ASSUME WorkspaceInv, NEW n \in Attempt, Removal(n)
    PROVE  Usable'
<1> USE DEF WorkspaceInv, TypeOK
<1>1. UNCHANGED launch
  BY DEF Removal, launchVars
<1>2. envs'[n].status \notin {"provisioning", "ready"}
  BY DEF Removal, OneOwner, Usable, Attempt
<1>3. ASSUME NEW m \in Attempt, envs'[m].status \in {"provisioning", "ready"}
      PROVE  envs'[m].teardown = "none" /\ envs'[m].key \in sites'
  <2>1. m # n /\ envs'[m] = envs[m] /\ Exists(m) /\ Exists(n)
    BY <1>2, <1>3 DEF Removal, Exists
  <2>2. envs[m].key # envs[n].key /\ envs[m].key \in sites
    BY <1>3, <2>1 DEF OneOwner, Usable
  <2> QED
    BY <1>3, <2>1, <2>2 DEF Removal, Usable
<1>4. ASSUME launch.phase = "ready", ~launch.attached
      PROVE  launch.key \in sites'
  <2>1. launch.key # envs[n].key
    BY <1>4 DEF Removal, OneOwner
  <2> QED
    BY <1>4, <2>1 DEF Removal, Usable
<1> QED
  BY <1>1, <1>3, <1>4 DEF Usable

LEMMA UsableThread ==
    ASSUME WorkspaceInv, ThreadStep
    PROVE  Usable'
<1>1. ThreadMoves /\ SameEnvs /\ sites' = sites
      /\ \A n \in Attempt : envs'[n].status \in {"provisioning", "ready"} =>
                                envs[n].status \in {"provisioning", "ready"}
  BY ThreadShape, ThreadKeeps DEF WorkspaceInv, TypeOK, ThreadMoves, siteVars
<1>2. launch'.phase = "ready" => launch' = launch
  BY <1>1 DEF ThreadMoves, GivenUp, launchVars, WorkspaceInv, TypeOK, LaunchRow
<1>3. ASSUME NEW n \in Attempt, envs'[n].status \in {"provisioning", "ready"}
      PROVE  envs'[n].teardown = "none" /\ envs'[n].key \in sites'
  <2>1. envs[n].teardown = "none" /\ envs[n].key \in sites
    BY <1>1, <1>3 DEF WorkspaceInv, Usable
  <2> QED  BY <1>1, <2>1 DEF SameEnvs
<1>4. launch'.phase = "ready" /\ ~launch'.attached => launch'.key \in sites'
  BY <1>1, <1>2 DEF WorkspaceInv, Usable
<1> QED  BY <1>3, <1>4 DEF Usable

LEMMA UsableNext ==
    ASSUME WorkspaceInv, [Next]_vars
    PROVE  Usable'
<1> USE WorkspaceAssumption DEF WorkspaceInv, TypeOK, Tracked, OneOwner, Usable, EnvRow, ThreadRow, LaunchRow, CreateOp, Attempt, Key, Exists,
        launchVars, siteVars, others
<1>1. CASE ThreadStep
  BY <1>1, UsableThread
<1>2. CASE AskStarts
  BY <1>2 DEF AskStarts, Asks, Settled, Retryable
<1>3. CASE AskResumes
  BY <1>3 DEF AskResumes, Asks
<1>4. CASE AskAttaches
  BY <1>4 DEF AskAttaches, Asks
<1>5. ASSUME NEW c \in creates, Create(c)
      PROVE  Usable'
  <2>1. CASE ProviderMakes(c)
    BY <2>1 DEF ProviderMakes
  <2>2. CASE CreateReturns(c)
    BY <2>2 DEF CreateReturns, Creating
  <2>3. CASE CreateFails(c)
    <3>1. launch'.phase = "ready" => launch' = launch
      BY <2>3, FailKeeps
    <3>2. UNCHANGED <<envs, sites>>
      BY <2>3, FailShape
    <3> QED
      BY <3>1, <3>2
  <2>4. CASE CreateRejected(c)
    BY <2>4 DEF CreateRejected, Creating
  <2> QED
    BY <1>5, <2>1, <2>2, <2>3, <2>4 DEF Create
<1>6. CASE CancelProceeds
  BY <1>6 DEF CancelProceeds, SlotFree
<1>7. CASE CancelDone
  BY <1>7 DEF CancelDone
<1>8. CASE CancelFails
  BY <1>8 DEF CancelFails
<1>9. CASE ForgetLaunch
  BY <1>9 DEF ForgetLaunch
<1>10. ASSUME NEW n \in Attempt,
             GuestComes(n) \/ GuestGoes(n)
      PROVE  Usable'
  <2>1. CASE GuestComes(n)
    BY <2>1 DEF GuestComes
  <2>2. CASE GuestGoes(n)
    BY <2>2 DEF GuestGoes
  <2> QED
    BY <1>10, <2>1, <2>2
<1>11. ASSUME NEW n \in Attempt,
             ProvisionSucceeds(n) \/ ProvisionFails(n)
      PROVE  Usable'
  <2>1. CASE ProvisionSucceeds(n)
    BY <2>1 DEF ProvisionSucceeds
  <2>2. CASE ProvisionFails(n)
    BY <2>2 DEF ProvisionFails, Becomes
  <2> QED
    BY <1>11, <2>1, <2>2
<1>12. ASSUME NEW n \in Attempt,
              RequestRemoval(n) \/ SweepRemoves(n) \/ RemoveDone(n) \/ RemoveFails(n)
       PROVE  Usable'
  BY <1>12, RemovalShape, UsableRemoval
<1>13. CASE Crash
  <2>1. ASSUME NEW n \in Attempt, envs[n].status \in {"provisioning", "ready"}
        PROVE  envs[n].key \in sites'
    <3>1. envs[n].key \in sites /\ envs[n].teardown = "none"
      BY <2>1
    <3>2. removing # 0 => envs[removing].key # envs[n].key
      BY <2>1, <3>1
    <3>3. cancelling = "removing" => launch.key # envs[n].key
      BY <2>1
    <3> QED
      BY <1>13, <3>1, <3>2, <3>3 DEF Crash, Unmaking
  <2>2. ASSUME launch.phase = "ready", ~launch.attached
        PROVE  launch.key \in sites'
    <3>1. launch.key \in sites /\ cancelling # "removing"
      BY <2>2
    <3>2. removing # 0 => envs[removing].key # launch.key
      BY <2>2
    <3> QED
      BY <1>13, <3>1, <3>2 DEF Crash, Unmaking
  <2> QED
    BY <1>13, <2>1, <2>2 DEF Crash
<1>14. CASE UNCHANGED vars
  BY <1>14 DEF vars
<1> QED
  BY <1>1, <1>2, <1>3, <1>4, <1>5, <1>6, <1>7, <1>8, <1>9, <1>10, <1>11, <1>12, <1>13, <1>14, Steps

\* A dispatch stays what it was while its thread and its environment do.
LEMMA StillReadyStays ==
    ASSUME TypeOK, StillReady, UNCHANGED <<thread, start>>,
           \A n \in Attempt : n = thread.env /\ Waits /\ envs[n].status = "ready"
                                => envs'[n].status = "ready"
    PROVE  StillReady'
<1>1. Waits => thread.env \in Attempt
  BY DEF StillReady, Waits, TypeOK, ThreadRow, Attempt, Key
<1> QED
  BY <1>1 DEF StillReady, Waits

LEMMA StillReadyThread ==
    ASSUME WorkspaceInv, ThreadStep
    PROVE  StillReady'
<1> DEFINE e == thread.env
<1>1. /\ \A n \in Attempt : envs[n].status = "ready" => envs'[n].status = "ready"
  BY ThreadShape, ThreadKeeps DEF WorkspaceInv, TypeOK
<1>2. Waits => e \in Attempt /\ envs[e].status = "ready" /\ envs'[e].status = "ready"
  BY <1>1 DEF WorkspaceInv, StillReady, Waits, TypeOK, ThreadRow, Attempt, Key
<1> USE DEF WorkspaceInv, TypeOK, ThreadRow, Becomes, StillReady, Waits, NoStart, others
<1>3. CASE AskCancels \/ SweepCancelled
  BY <1>2, <1>3 DEF AskCancels, SweepCancelled
<1>4. CASE AskFindsHostAway \/ AskRejects
  BY <1>2, <1>4 DEF AskFindsHostAway, AskRejects, Asks
<1>5. CASE StartChecks
  BY <1>5 DEF StartChecks
<1>6. CASE RunStarts
  BY <1>2, <1>6 DEF RunStarts
<1>7. CASE StartFails \/ RunEnds
  BY <1>7 DEF StartFails, RunEnds
<1>8. CASE AttachedFails \/ Reprovision
  BY <1>2, <1>8 DEF AttachedFails, Reprovision
<1>9. CASE Retry
  BY <1>2, <1>9 DEF Retry
<1>10. CASE Stop \/ Archive
  <2>1. CASE thread.status = "runs"
    <3>1. start' = start
      BY <1>10, <2>1 DEF Stop, Archive, Lapses, StartRecord
    <3> QED  BY <1>2, <1>10, <2>1, <3>1 DEF Stop, Archive
  <2>2. CASE thread.status # "runs"
    <3>1. start'.env = start.env /\ (start.env # 0 => start'.lapsed)
      BY <1>10, <2>2 DEF Stop, Archive, Lapses, StartRecord
    <3>2. thread'.env = thread.env /\ thread'.status # "runs"
          /\ (thread.status # "gone" => thread'.status # "gone")
      BY <1>10, <2>2 DEF Stop, Archive
    <3> QED  BY <3>1, <3>2
  <2> QED  BY <2>1, <2>2
<1>11. CASE Unarchive
  BY <1>2, <1>11 DEF Unarchive
<1>12. CASE Delete
  BY <1>12 DEF Delete
<1>13. CASE Restore
  BY <1>2, <1>13 DEF Restore, OneOwner
<1> QED
  BY <1>3, <1>4, <1>5, <1>6, <1>7, <1>8, <1>9, <1>10, <1>11, <1>12, <1>13 DEF ThreadStep

\* A removal leaves the environment of such a dispatch alone: a thread lives there.
LEMMA StillReadyRemoval ==
    ASSUME WorkspaceInv, NEW n \in Attempt, Removal(n)
    PROVE  StillReady'
<1>1. UNCHANGED <<thread, start>>
  BY DEF Removal, others
<1>2. ASSUME n = thread.env, Waits, envs[n].status = "ready"
      PROVE  envs'[n].status = "ready"
  <2>1. HasLive(n)
    BY <1>2 DEF WorkspaceInv, StillReady, HasLive, Waits
  <2>2. removing # n
    BY <1>2 DEF WorkspaceInv, Usable, OneOwner, Attempt
  <2> QED
    BY <2>1, <2>2 DEF Removal
<1>3. \A m \in Attempt \ {n} : envs'[m] = envs[m]
  BY DEF Removal
<1> QED
  BY <1>1, <1>2, <1>3, StillReadyStays DEF WorkspaceInv

LEMMA StillReadyNext ==
    ASSUME WorkspaceInv, [Next]_vars
    PROVE  StillReady'
<1>0. TypeOK /\ StillReady
  BY DEF WorkspaceInv
<1>1. CASE ThreadStep
  BY <1>1, StillReadyThread
<1>2. CASE AskStarts \/ AskResumes
  BY <1>0, <1>2, StillReadyStays DEF AskStarts, AskResumes, others
<1>3. CASE AskAttaches
  BY <1>0, <1>3 DEF AskAttaches, Asks, StillReady, Waits, TypeOK, ThreadRow, others, WorkspaceInv,
                    OneOwner, Attempt
<1>4. ASSUME NEW c \in creates, Create(c)
      PROVE  StillReady'
  BY <1>0, <1>4, StillReadyStays DEF Create, ProviderMakes, CreateReturns, CreateFails, CreateRejected, others
<1>5. CASE CancelProceeds \/ CancelDone \/ CancelFails \/ ForgetLaunch
  BY <1>0, <1>5, StillReadyStays DEF CancelProceeds, CancelDone, CancelFails, ForgetLaunch, others
<1>6. ASSUME NEW n \in Attempt, GuestComes(n) \/ GuestGoes(n)
      PROVE  StillReady'
  BY <1>0, <1>6, StillReadyStays DEF GuestComes, GuestGoes, others
<1>7. ASSUME NEW n \in Attempt, ProvisionSucceeds(n)
      PROVE  StillReady'
  BY <1>0, <1>7, StillReadyStays DEF ProvisionSucceeds, others, TypeOK, EnvRow
<1>8. ASSUME NEW n \in Attempt, ProvisionFails(n)
      PROVE  StillReady'
  <2>1. Waits => thread.env # n
    BY <1>0, <1>8 DEF ProvisionFails, StillReady, Waits
  <2>2. \A m \in Attempt \ {n} : envs'[m] = envs[m]
    BY <1>0, <1>8 DEF ProvisionFails, TypeOK
  <2>3. CASE UNCHANGED thread
    BY <1>0, <1>8, <2>1, <2>2, <2>3, StillReadyStays DEF ProvisionFails, others
  <2>4. CASE thread.env = n /\ Becomes("error")
    BY <1>0, <1>8, <2>1, <2>4 DEF ProvisionFails, Becomes, StillReady, Waits, TypeOK, ThreadRow, others
  <2> QED
    BY <1>8, <2>3, <2>4 DEF ProvisionFails
<1>9. ASSUME NEW n \in Attempt,
             RequestRemoval(n) \/ SweepRemoves(n) \/ RemoveDone(n) \/ RemoveFails(n)
      PROVE  StillReady'
  BY <1>9, RemovalShape, StillReadyRemoval DEF WorkspaceInv, TypeOK
<1>10. CASE Crash
  <2>1. CASE thread.status = "runs" /\ UNCHANGED <<thread, start>>
    BY <1>0, <1>10, <2>1, StillReadyStays DEF Crash
  <2>2. CASE thread.status = "runs" /\ Becomes("attached") /\ start' = [start EXCEPT !.lapsed = TRUE]
    <3>1. start'.env = start.env /\ start'.lapsed
      BY <1>0, <2>2 DEF TypeOK, StartRecord
    <3> QED  BY <1>0, <2>2, <3>1 DEF Becomes, StillReady, Waits, TypeOK, ThreadRow
  <2>3. CASE thread.status # "runs"
    <3>1. /\ thread'.env = thread.env /\ thread'.status # "runs"
          /\ thread'.status = "gone" => thread.status = "gone"
      BY <1>0, <1>10, <2>3 DEF Crash, CrashOfDispatch, Becomes, TypeOK, ThreadRow
    <3>2. start' = NoStart \/ (start.lapsed /\ start' = start)
      BY <1>10, <2>3 DEF Crash, CrashOfDispatch
    <3> QED  BY <1>0, <3>1, <3>2 DEF StillReady, Waits, NoStart
  <2> QED  BY <1>10, <2>1, <2>2, <2>3 DEF Crash, CrashOfDispatch
<1>11. CASE UNCHANGED vars
  BY <1>0, <1>11, StillReadyStays DEF vars, others
<1> QED
  BY <1>1, <1>2, <1>3, <1>4, <1>5, <1>6, <1>7, <1>8, <1>9, <1>10, <1>11, Steps

LEMMA NothingLeaks ==
    ASSUME NothingLeaked, sites' = sites, disowned' = disowned, SameEnvs,
           launch'.key = launch.key, PendingWork => PendingWork'
    PROVE  NothingLeaked'
<1>1. SUFFICES ASSUME NEW k \in sites \ disowned
               PROVE  \/ PendingWork' /\ launch'.key = k
                      \/ \E n \in Attempt : Exists(n)' /\ envs'[n].key = k /\ envs'[n].teardown # "removed"
  BY DEF NothingLeaked
<1>2. CASE PendingWork /\ launch.key = k
  BY <1>2
<1>3. CASE \E n \in Attempt : Exists(n) /\ envs[n].key = k /\ envs[n].teardown # "removed"
  BY <1>3 DEF Exists, SameEnvs
<1> QED
  BY <1>1, <1>2, <1>3 DEF NothingLeaked

LEMMA LeaksRemoval ==
    ASSUME NothingLeaked, NEW n \in Attempt, Removal(n)
    PROVE  NothingLeaked'
<1>1. /\ sites' \subseteq sites /\ disowned' = disowned /\ launch' = launch
      /\ envs'[n].teardown = "removed" => envs[n].key \notin sites'
  BY DEF Removal, launchVars
<1>2. \A m \in Attempt : /\ Exists(m) => Exists(m)'
                         /\ envs'[m].key = envs[m].key
                         /\ m # n => envs'[m].teardown = envs[m].teardown
  BY DEF Removal, Exists
<1>3. SUFFICES ASSUME NEW k \in sites' \ disowned, ~(PendingWork /\ launch.key = k)
               PROVE  \E m \in Attempt : Exists(m)' /\ envs'[m].key = k /\ envs'[m].teardown # "removed"
  BY <1>1 DEF NothingLeaked, PendingWork
<1>4. PICK m \in Attempt : Exists(m) /\ envs[m].key = k /\ envs[m].teardown # "removed"
  BY <1>1, <1>3 DEF NothingLeaked
<1>5. CASE m = n
  BY <1>1, <1>2, <1>3, <1>4, <1>5
<1>6. CASE m # n
  BY <1>2, <1>4, <1>6
<1> QED
  BY <1>5, <1>6

LEMMA NothingLeakedNext ==
    ASSUME WorkspaceInv, [Next]_vars
    PROVE  NothingLeaked'
<1> USE WorkspaceAssumption DEF WorkspaceInv, TypeOK, Tracked, OneOwner, NothingLeaked, PendingWork, EnvRow, LaunchRow, CreateOp, Attempt, Key, Exists,
        launchVars, siteVars, others
<1>1. CASE ThreadStep
  <2>1. ThreadMoves /\ SameEnvs
    BY <1>1, ThreadShape, ThreadKeeps
  <2>2. launch'.key = launch.key
    BY <2>1 DEF ThreadMoves, GivenUp
  <2>3. PendingWork => PendingWork'
    BY <2>1 DEF ThreadMoves, GivenUp
  <2>4. sites' = sites /\ disowned' = disowned
    BY <2>1 DEF ThreadMoves
  <2> QED
    BY <2>1, <2>2, <2>3, <2>4, NothingLeaks
<1>2. CASE AskStarts
  BY <1>2 DEF AskStarts, Asks, Settled, Retryable
<1>3. CASE AskResumes
  BY <1>3 DEF AskResumes, Asks
<1>4. CASE AskAttaches
  BY <1>4 DEF AskAttaches, Asks
<1>5. ASSUME NEW c \in creates, Create(c)
      PROVE  NothingLeaked'
  <2>1. CASE ProviderMakes(c)
    BY <2>1 DEF ProviderMakes
  <2>2. CASE CreateReturns(c)
    BY <2>2 DEF CreateReturns, Creating
  <2>3. CASE CreateFails(c)
    <3>1. UNCHANGED <<envs, sites, disowned>>
      BY <2>3, FailShape
    <3>2. launch'.key = launch.key /\ (PendingWork => PendingWork')
      BY <2>3, FailKeeps
    <3> QED
      BY <3>1, <3>2, NothingLeaks DEF SameEnvs
  <2>4. CASE CreateRejected(c)
    BY <2>4 DEF CreateRejected, Creating
  <2> QED
    BY <1>5, <2>1, <2>2, <2>3, <2>4 DEF Create
<1>6. CASE CancelProceeds
  BY <1>6 DEF CancelProceeds, SlotFree
<1>7. CASE CancelDone
  BY <1>7 DEF CancelDone
<1>8. CASE CancelFails
  BY <1>8 DEF CancelFails
<1>9. CASE ForgetLaunch
  BY <1>9 DEF ForgetLaunch
<1>10. ASSUME NEW n \in Attempt,
             GuestComes(n) \/ GuestGoes(n)
      PROVE  NothingLeaked'
  <2>1. CASE GuestComes(n)
    BY <2>1 DEF GuestComes
  <2>2. CASE GuestGoes(n)
    BY <2>2 DEF GuestGoes
  <2> QED
    BY <1>10, <2>1, <2>2
<1>11. ASSUME NEW n \in Attempt,
             ProvisionSucceeds(n) \/ ProvisionFails(n)
      PROVE  NothingLeaked'
  <2>1. CASE ProvisionSucceeds(n)
    BY <2>1 DEF ProvisionSucceeds
  <2>2. CASE ProvisionFails(n)
    BY <2>2 DEF ProvisionFails, Becomes
  <2> QED
    BY <1>11, <2>1, <2>2
<1>12. ASSUME NEW n \in Attempt,
              RequestRemoval(n) \/ SweepRemoves(n) \/ RemoveDone(n) \/ RemoveFails(n)
       PROVE  NothingLeaked'
  BY <1>12, RemovalShape, LeaksRemoval
<1>13. CASE Crash
  BY <1>13 DEF Crash, Becomes, Unmaking
<1>14. CASE UNCHANGED vars
  BY <1>14 DEF vars
<1> QED
  BY <1>1, <1>2, <1>3, <1>4, <1>5, <1>6, <1>7, <1>8, <1>9, <1>10, <1>11, <1>12, <1>13, <1>14, Steps

-----------------------------------------------------------------------------
(* The theorems.                                                           *)

LEMMA InvInit ==
    ASSUME Init
    PROVE  WorkspaceInv
<1> USE WorkspaceAssumption DEF Init, Attempt, Key, Exists
<1>1. TypeOK
  BY DEF TypeOK, ThreadRow, LaunchRow, EnvRow, NoStart, StartRecord
<1>2. Tracked /\ OneOwner
  BY DEF Tracked, OneOwner
<1>3. Usable /\ StillReady /\ NothingLeaked
  BY DEF Usable, StillReady, Waits, NoStart, NothingLeaked
<1> QED
  BY <1>1, <1>2, <1>3 DEF WorkspaceInv

\* The invariant that everything below rests on: rows and operations agree.
THEOREM WorkspaceInvHolds == Spec => []WorkspaceInv
<1>1. Init => WorkspaceInv
  BY InvInit
<1>2. WorkspaceInv /\ [Next]_vars => WorkspaceInv'
  BY TypeNext, TrackedNext, OneOwnerNext, UsableNext, StillReadyNext, NothingLeakedNext DEF WorkspaceInv
<1> QED
  BY <1>1, <1>2, PTL DEF Spec

\* Every row and every operation keeps its type, whatever fails and however
\* often the server dies.
THEOREM WorkspacesTypeCorrect == Spec => []TypeOK
<1>1. WorkspaceInv => TypeOK
  BY DEF WorkspaceInv
<1> QED
  BY <1>1, WorkspaceInvHolds, PTL

\* No path key is created twice at a time, or created while it is being removed.
THEOREM NoOverlapHolds == Spec => []NoOverlap
<1>1. WorkspaceInv => NoOverlap
  <2>1. SUFFICES ASSUME WorkspaceInv PROVE NoOverlap
    OBVIOUS
  <2> USE <2>1 DEF WorkspaceInv
  <2>2. ASSUME NEW c \in creates
        PROVE  c.key \notin Unmaking
    <3>1. c.key = launch.key /\ cancelling # "removing" /\ ~launch.attached /\ launch.phase # "none"
      BY <2>2 DEF Tracked
    <3>2. ASSUME removing # 0, envs[removing].key = launch.key
          PROVE  FALSE
      <4>1. removing \in Attempt /\ Exists(removing)
        BY <3>2 DEF OneOwner, TypeOK, Key, Attempt
      <4>2. removing = launch.attempt
        BY <3>1, <3>2, <4>1 DEF OneOwner
      <4> QED
        BY <3>1, <4>1, <4>2 DEF OneOwner
    <3> QED
      BY <3>1, <3>2 DEF Unmaking
  <2> QED
    BY <2>2 DEF NoOverlap, Tracked
<1> QED
  BY <1>1, WorkspaceInvHolds, PTL

\* Every workspace that exists has a row that leads to its removal.
THEOREM NothingLeakedHolds == Spec => []NothingLeaked
<1>1. WorkspaceInv => NothingLeaked
  BY DEF WorkspaceInv
<1> QED
  BY <1>1, WorkspaceInvHolds, PTL

\* The workspace in which a dispatch starts its agent is there and is not being removed, from
\* the check of the environment to the end of the run, for a thread that was neither archived
\* nor stopped in between.
THEOREM AgentsKeepWorkspaceHolds == Spec => []AgentsKeepWorkspace
<1>1. WorkspaceInv => AgentsKeepWorkspace
  <2>1. SUFFICES ASSUME WorkspaceInv, thread.status = "runs", ~start.lapsed
                 PROVE  /\ thread.env = start.env
                        /\ envs[start.env].status = "ready" /\ envs[start.env].teardown = "none"
                        /\ envs[start.env].key \in sites
    BY DEF AgentsKeepWorkspace
  <2>2. thread.env = start.env /\ start.env \in Attempt /\ envs[start.env].status = "ready"
    BY <2>1 DEF WorkspaceInv, TypeOK, StartRecord, StillReady, Waits, Key, Attempt
  <2> QED
    BY <2>1, <2>2 DEF WorkspaceInv, Usable
<1> QED
  BY <1>1, WorkspaceInvHolds, PTL

\* A launch that was cancelled never becomes an environment, however late its
\* create answers.
THEOREM CancelledStaysHolds == Spec => CancelledStays
<1>1. ASSUME WorkspaceInv, [Next]_vars, launch.phase = "cancelled", launch'.attempt = launch.attempt
      PROVE  launch'.phase \in {"cancelled", "none"} /\ ~launch'.attached
  <2> USE <1>1 DEF WorkspaceInv, TypeOK, LaunchRow, launchVars
  <2>0. ~launch.attached
    BY DEF Tracked
  <2>1. CASE ThreadStep
    BY <2>0, <2>1, ThreadShape DEF ThreadMoves, GivenUp
  <2>2. CASE AskStarts
    BY <2>2, WorkspaceAssumption DEF AskStarts, Key
  <2>3. CASE AskResumes \/ AskAttaches
    BY <2>3 DEF AskResumes, AskAttaches
  <2>4. ASSUME NEW c \in creates, Create(c)
        PROVE  launch'.phase \in {"cancelled", "none"} /\ ~launch'.attached
    BY <2>0, <2>4 DEF Create, ProviderMakes, CreateReturns, CreateFails, CreateRejected, Creating
  <2>5. CASE CancelProceeds \/ CancelDone \/ CancelFails
    BY <2>0, <2>5 DEF CancelProceeds, CancelDone, CancelFails
  <2>6. CASE ForgetLaunch
    BY <2>6 DEF ForgetLaunch
  <2>7. ASSUME NEW n \in Attempt,
               \/ GuestComes(n) \/ GuestGoes(n)
               \/ ProvisionSucceeds(n) \/ ProvisionFails(n)
               \/ RequestRemoval(n) \/ SweepRemoves(n) \/ RemoveDone(n) \/ RemoveFails(n)
        PROVE  launch'.phase \in {"cancelled", "none"} /\ ~launch'.attached
    BY <2>0, <2>7 DEF GuestComes, GuestGoes, ProvisionSucceeds, ProvisionFails,
                      RequestRemoval, SweepRemoves, RemoveDone, RemoveFails
  <2>8. CASE Crash \/ UNCHANGED vars
    BY <2>0, <2>8 DEF Crash, vars
  <2> QED
    BY <2>1, <2>2, <2>3, <2>4, <2>5, <2>6, <2>7, <2>8, Steps
<1>2. WorkspaceInv /\ [Next]_vars =>
        [launch.phase = "cancelled" /\ launch'.attempt = launch.attempt
            => launch'.phase \in {"cancelled", "none"} /\ ~launch'.attached]_vars
  BY <1>1
<1> QED
  BY <1>2, WorkspaceInvHolds, PTL DEF Spec, CancelledStays

-----------------------------------------------------------------------------
(* A cancellation always has something that can happen next.              *)

\* A cancellation that waits has told the create it waits for to stop.
Told == cancelling = "waiting" => \A c \in creates : c.aborted

LEMMA ThreadCancels ==
    ASSUME ThreadStep
    PROVE  CancelLaunch \/ UNCHANGED launchVars
BY DEF ThreadStep, AskCancels, AskFindsHostAway, AskRejects, SweepCancelled, StartChecks, RunStarts, StartFails,
       RunEnds, AttachedFails, Reprovision, Retry, Stop, Archive, Unarchive, Delete, Restore

LEMMA CancelTells ==
    ASSUME TypeOK, Tracked, Told, CancelLaunch
    PROVE  Told'
<1>1. CASE Settled \/ cancelling # "none"
  BY <1>1 DEF CancelLaunch, Told, launchVars
<1>2. CASE ~Settled /\ cancelling = "none"
  <2>1. creates' = {[c EXCEPT !.aborted = @ \/ c.attempt = launch.attempt] : c \in creates}
    BY <1>2 DEF CancelLaunch
  <2>2. ASSUME NEW c \in creates
        PROVE  [c EXCEPT !.aborted = @ \/ c.attempt = launch.attempt].aborted
    <3>1. c \in CreateOp /\ c.attempt = launch.attempt
      BY DEF TypeOK, Tracked
    <3> QED
      BY <3>1 DEF CreateOp
  <2>3. ASSUME NEW e \in creates'
        PROVE  e.aborted
    <3>1. PICK c \in creates : e = [c EXCEPT !.aborted = @ \/ c.attempt = launch.attempt]
      BY <2>1, <2>3
    <3> QED
      BY <2>2, <3>1
  <2> QED
    BY <2>3 DEF Told
<1> QED
  BY <1>1, <1>2

LEMMA ToldNext ==
    ASSUME WorkspaceInv, Told, [Next]_vars
    PROVE  Told'
<1> USE DEF Told, WorkspaceInv, launchVars
<1>1. CASE ThreadStep
  BY <1>1, ThreadCancels, CancelTells
<1>2. CASE AskStarts
  BY <1>2 DEF AskStarts, Settled, Tracked
<1>3. CASE AskResumes
  BY <1>3 DEF AskResumes, Tracked
<1>4. CASE AskAttaches \/ ForgetLaunch
  BY <1>4 DEF AskAttaches, ForgetLaunch
<1>5. ASSUME NEW c \in creates, Create(c)
      PROVE  Told'
  BY <1>5 DEF Create, ProviderMakes, CreateReturns, CreateFails, CreateRejected
<1>6. CASE CancelProceeds \/ CancelDone \/ CancelFails
  BY <1>6 DEF CancelProceeds, CancelDone, CancelFails
<1>7. ASSUME NEW n \in Attempt,
             \/ GuestComes(n) \/ GuestGoes(n)
             \/ ProvisionSucceeds(n) \/ ProvisionFails(n)
             \/ RequestRemoval(n) \/ SweepRemoves(n) \/ RemoveDone(n) \/ RemoveFails(n)
      PROVE  Told'
  BY <1>7 DEF GuestComes, GuestGoes, ProvisionSucceeds, ProvisionFails,
              RequestRemoval, SweepRemoves, RemoveDone, RemoveFails
<1>8. CASE Crash \/ UNCHANGED vars
  BY <1>8 DEF Crash, vars
<1> QED
  BY <1>1, <1>2, <1>3, <1>4, <1>5, <1>6, <1>7, <1>8, Steps

\* A recorded cancellation always has a next step that nothing else of the launch holds up: the
\* provider is removing the workspace; or the create it waits for was told to stop; or it has
\* its turn on the host, or an environment's removal has; or, after a failure or a restart, the
\* sweep can take it up.
CancelGoesOn ==
    launch.pending =>
        \/ cancelling = "removing" /\ creates = {}
        \/ /\ cancelling = "waiting"
           /\ \/ \E c \in creates : c.attempt = launch.attempt /\ c.aborted
              \/ removing # 0 /\ Exists(removing) /\ envs[removing].teardown = "running"
              \/ SlotFree /\ creates = {}
        \/ cancelling = "none" /\ launch.phase = "cancelled" /\ ~Settled /\ creates = {}

\* Whatever failed and wherever the server died, a recorded cancellation never waits for a
\* create that nobody stopped, for a slot that nobody holds, or for a sweep that skips it
\* (cancelProviderLaunch, runCancel, sweepProviderLifecycles).
THEOREM CancellationsGoOn == Spec => []CancelGoesOn
<1>1. Init => WorkspaceInv /\ Told
  BY InvInit DEF Init, Told
<1>2. WorkspaceInv /\ Told /\ [Next]_vars => (WorkspaceInv /\ Told)'
  BY ToldNext, TypeNext, TrackedNext, OneOwnerNext, UsableNext, StillReadyNext, NothingLeakedNext DEF WorkspaceInv
<1>3. WorkspaceInv /\ Told => CancelGoesOn
  <2>1. SUFFICES ASSUME WorkspaceInv, Told, launch.pending
                 PROVE  CancelGoesOn
    BY DEF CancelGoesOn
  <2> USE <2>1 DEF WorkspaceInv
  <2>2. cancelling \in {"none", "waiting", "removing"} /\ launch.phase = "cancelled" /\ ~launch.attached
    BY DEF TypeOK, Tracked
  <2>3. CASE cancelling = "waiting"
    BY <2>3 DEF CancelGoesOn, Told, Tracked, OneOwner, SlotFree
  <2>4. CASE cancelling # "waiting"
    BY <2>2, <2>4 DEF CancelGoesOn, Tracked, Settled
  <2> QED
    BY <2>3, <2>4
<1> QED
  BY <1>1, <1>2, <1>3, PTL DEF Spec
=============================================================================
