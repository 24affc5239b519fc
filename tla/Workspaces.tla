----------------------------- MODULE Workspaces -----------------------------
(***************************************************************************)
(* The workspaces that a plugin's environment provider makes for a thread. *)
(* A thread that has to start asks for one; the server records a launch,   *)
(* lets the provider create the workspace and attaches it to the thread as *)
(* an environment.  A launch that is given up is cancelled: its create is  *)
(* aborted, awaited, and then the provider removes what the path key       *)
(* stands for.  An environment no thread lives in any more is removed by a *)
(* sweep.  Removals fail and are retried; the server dies and recovers     *)
(* from the rows of its database.                                          *)
(*                                                                         *)
(* Launch attempts are numbered, and so is the environment each one gives. *)
(* A path key is the number of the attempt it was made for, or 0 for the   *)
(* key that attempts of the thread share.  One provider, always            *)
(* registered, on one host, and one dispatch of the thread at a time.      *)
(* Deadlines are choices: whatever waits for a time may happen at once or  *)
(* late.                                                                   *)
(***************************************************************************)
EXTENDS Naturals, FiniteSets

CONSTANTS
    MaxAttempts,         \* bound: launch attempts of the thread
    MaxCrashes,          \* bound: deaths of the server
    TransientRetryLimit  \* TRANSIENT_RETRY_LIMIT

ASSUME WorkspaceAssumption == {MaxAttempts, MaxCrashes, TransientRetryLimit} \subseteq Nat

VARIABLES
    policy,     \* of the provider: a key for each attempt, environments that retire by themselves
    thread,     \* its row: status, archived, the environment it is bound to (0: none)
    launch,     \* its row of environment_launches
    creates,    \* createOperations
    cancelling, \* cancelOperations: "none", "waiting", or "removing" in the cleanup slot
    removing,   \* removeOperations: the environment in the cleanup slot, 0 if none
    envs,       \* the environment of each attempt
    start,      \* the dispatch under way: the environment it found ready (0: none), and whether
                \* the thread was archived or stopped since; while the thread runs, the run's
    guests,     \* environments where other threads live, archived ones that still run included
    sites,      \* path keys whose workspace exists
    disowned,   \* path keys whose workspace the server refused
    crashes

launchVars == <<launch, creates, cancelling>>
siteVars == <<sites, disowned>>
others == <<policy, start, crashes>>
vars == <<thread, launchVars, removing, envs, guests, siteVars, others>>

Attempt == 1 .. MaxAttempts
Key == 0 .. MaxAttempts
NoStart == [env |-> 0, lapsed |-> FALSE]

Init ==
    /\ policy \in [keyPerAttempt : BOOLEAN, retires : BOOLEAN]
    /\ thread = [status |-> "asks", archived |-> FALSE, env |-> 0]
    /\ launch = [attempt |-> 0, phase |-> "none", pending |-> FALSE, attached |-> FALSE, key |-> 0,
                 failure |-> "none", transients |-> 0, rejected |-> FALSE]
    /\ creates = {} /\ cancelling = "none" /\ removing = 0
    /\ envs = [n \in Attempt |-> [status |-> "none", teardown |-> "none", key |-> 0]]
    /\ guests = {} /\ start = NoStart /\ sites = {} /\ disowned = {} /\ crashes = 0

\* Mutant: an archived thread does not count, whatever it still runs.
HasUnarchived(n) == n \in guests \/ (thread.env = n /\ ~thread.archived /\ thread.status # "gone")

\* environmentHasLiveThreads: an archived thread counts while it runs.
HasLive(n) ==
    \/ n \in guests
    \/ /\ thread.env = n
       /\ thread.status = "runs" \/ (~thread.archived /\ thread.status # "gone")

\* withEnvironmentCleanupSlot: one cleanup of a host at a time.
SlotFree == cancelling # "removing" /\ removing = 0

\* The path keys the provider is removing.
Unmaking == {k \in Key : (cancelling = "removing" /\ launch.key = k)
                        \/ (removing # 0 /\ envs[removing].key = k)}

\* A failed launch, or a cancelled one that failed, that will be tried again by itself.
Retryable == launch.failure = "transient" /\ launch.transients <= TransientRetryLimit

\* Nothing is left of the launch that a new attempt would trip over.
Settled == launch.phase = "none" \/ launch.attached \/ (launch.phase = "cancelled" /\ ~launch.pending)

\* cancelProviderLaunch
CancelLaunch ==
    IF Settled THEN UNCHANGED launchVars
    ELSE /\ launch' = [launch EXCEPT !.phase = "cancelled", !.pending = TRUE]
         /\ IF cancelling # "none" THEN UNCHANGED <<creates, cancelling>>
            ELSE /\ cancelling' = "waiting"
                 /\ creates' = {[c EXCEPT !.aborted = @ \/ c.attempt = launch.attempt] : c \in creates}

Becomes(status) == thread' = [thread EXCEPT !.status = status]

-----------------------------------------------------------------------------
(* The thread asks for its workspace (askProviderLaunch).                  *)

Asks ==
    /\ thread.status = "asks" /\ ~thread.archived
    /\ thread.env # 0 => envs[thread.env].teardown \notin {"running", "failed"}

\* A cancellation that is not through, or a transient failure: clean up first.
AskCancels ==
    /\ Asks /\ ~Settled
    /\ launch.phase = "cancelled" \/ (launch.phase = "failed" /\ Retryable)
    /\ CancelLaunch
    /\ UNCHANGED <<thread, removing, envs, guests, siteVars, others>>

\* A new attempt; transient failures are counted across the attempts they caused.
AskStarts ==
    /\ Asks /\ Settled /\ launch.attempt < MaxAttempts
    /\ LET n == launch.attempt + 1
           k == IF policy.keyPerAttempt \/ thread.env # 0 \/ launch.attached THEN n ELSE 0
       IN /\ launch' = [attempt |-> n, phase |-> "creating", pending |-> FALSE, attached |-> FALSE,
                        key |-> k, failure |-> "none", rejected |-> FALSE,
                        transients |-> IF launch.phase = "cancelled" /\ Retryable
                                       THEN launch.transients ELSE 0]
          /\ creates' = creates \union {[attempt |-> n, key |-> k, aborted |-> FALSE]}
          /\ disowned' = disowned \ {k}
    /\ UNCHANGED <<thread, cancelling, removing, envs, guests, sites, others>>

\* After a restart the row is creating and nobody creates.
AskResumes ==
    /\ Asks /\ launch.phase = "creating" /\ {c \in creates : c.attempt = launch.attempt} = {}
    /\ creates' = creates \union {[attempt |-> launch.attempt, key |-> launch.key, aborted |-> FALSE]}
    /\ UNCHANGED <<thread, launch, cancelling, removing, envs, guests, siteVars, others>>

\* Mutant: the thread is not bound to it.
AskAttachesUnbound ==
    /\ Asks /\ launch.phase = "ready" /\ ~launch.attached
    /\ launch' = [launch EXCEPT !.attached = TRUE]
    /\ envs' = [envs EXCEPT ![launch.attempt] =
                    [status |-> "provisioning", teardown |-> "none", key |-> launch.key]]
    /\ Becomes("attached")
    /\ UNCHANGED <<creates, cancelling, removing, guests, siteVars, others>>

\* The workspace becomes an environment; its hooks still have to run.
AskAttaches ==
    /\ Asks /\ launch.phase = "ready" /\ ~launch.attached
    /\ launch' = [launch EXCEPT !.attached = TRUE]
    /\ envs' = [envs EXCEPT ![launch.attempt] =
                    [status |-> "provisioning", teardown |-> "none", key |-> launch.key]]
    /\ thread' = [thread EXCEPT !.status = "attached", !.env = launch.attempt]
    /\ UNCHANGED <<creates, cancelling, removing, guests, siteVars, others>>

\* The host of a workspace that is ready cannot be reached: only the thread fails.
AskFindsHostAway ==
    /\ Asks /\ launch.phase = "ready" /\ ~launch.attached
    /\ Becomes("error")
    /\ UNCHANGED <<launchVars, removing, envs, guests, siteVars, others>>

\* The failure is final: the thread fails and the launch is cleaned up.
AskRejects ==
    /\ Asks /\ launch.phase = "failed" /\ ~Retryable
    /\ CancelLaunch
    /\ Becomes("error")
    /\ UNCHANGED <<removing, envs, guests, siteVars, others>>

-----------------------------------------------------------------------------
(* Creating and cancelling.                                                *)

\* The provider makes the workspace; it may do so after it was told to stop.
ProviderMakes(c) ==
    /\ sites' = sites \union {c.key}
    /\ UNCHANGED <<thread, launchVars, removing, envs, guests, disowned, others>>

\* Mutant: an answer counts whatever has become of the launch.
SameAttempt(c) == launch.attempt = c.attempt

\* mutateLaunch: the answer of a create counts while its launch is creating.
Creating(c) == launch.attempt = c.attempt /\ launch.phase = "creating"

\* The workspace is there and its path accepted.
CreateReturns(c) ==
    /\ c.key \in sites
    /\ creates' = creates \ {c}
    /\ launch' = IF Creating(c) THEN [launch EXCEPT !.phase = "ready"] ELSE launch
    /\ UNCHANGED <<thread, cancelling, removing, envs, guests, siteVars, others>>

\* The create fails, with a workspace or without.
CreateFails(c) ==
    /\ creates' = creates \ {c}
    /\ IF ~Creating(c) THEN launch' = launch
       ELSE \E f \in {"transient", "terminal"} :
                launch' = [launch EXCEPT !.phase = "failed", !.failure = f,
                               !.transients = IF f = "transient" THEN @ + 1 ELSE @]
    /\ UNCHANGED <<thread, cancelling, removing, envs, guests, siteVars, others>>

\* The path is not accepted: it is claimed by another, or its host is away just now.
CreateRejected(c) ==
    /\ c.key \in sites
    /\ creates' = creates \ {c}
    /\ disowned' = disowned \union {c.key}
    /\ launch' = IF launch.attempt # c.attempt THEN launch
                 ELSE IF Creating(c) THEN [launch EXCEPT !.rejected = TRUE, !.phase = "failed",
                                                         !.failure = "terminal"]
                 ELSE [launch EXCEPT !.rejected = TRUE]
    /\ UNCHANGED <<thread, cancelling, removing, envs, guests, sites, others>>

Create(c) == ProviderMakes(c) \/ CreateReturns(c) \/ CreateFails(c) \/ CreateRejected(c)
CreateEnds(c) == CreateReturns(c) \/ CreateFails(c) \/ CreateRejected(c)

\* Mutant: the create is told to stop and not awaited.
CancelHurries ==
    /\ cancelling = "waiting" /\ SlotFree
    /\ cancelling' = "removing"
    /\ UNCHANGED <<thread, launch, creates, removing, envs, guests, siteVars, others>>

\* The cancellation has awaited the create and its turn on the host (runCancel).
CancelProceeds ==
    /\ cancelling = "waiting" /\ SlotFree
    /\ \A c \in creates : c.attempt # launch.attempt
    /\ IF launch.rejected
       THEN launch' = [launch EXCEPT !.pending = FALSE] /\ cancelling' = "none"
       ELSE cancelling' = "removing" /\ launch' = launch
    /\ UNCHANGED <<thread, creates, removing, envs, guests, siteVars, others>>

\* The provider has removed what the path key stood for.
CancelDone ==
    /\ cancelling = "removing"
    /\ cancelling' = "none"
    /\ launch' = [launch EXCEPT !.pending = FALSE]
    /\ sites' = sites \ {launch.key}
    /\ UNCHANGED <<thread, creates, removing, envs, guests, disowned, others>>

\* Mutant: a removal that failed is not tried again.
CancelForgets ==
    /\ cancelling = "removing"
    /\ cancelling' = "none"
    /\ launch' = [launch EXCEPT !.pending = FALSE]
    /\ sites' \in {sites, sites \ {launch.key}}
    /\ UNCHANGED <<thread, creates, removing, envs, guests, disowned, others>>

\* The removal fails, perhaps after it was done; the cancellation stays recorded.
CancelFails ==
    /\ cancelling = "removing"
    /\ cancelling' = "none"
    /\ sites' \in {sites, sites \ {launch.key}}
    /\ UNCHANGED <<thread, launch, creates, removing, envs, guests, disowned, others>>

\* sweepProviderLifecycles: a recorded cancellation is taken up again.
SweepCancelled ==
    /\ launch.phase = "cancelled" /\ launch.pending /\ ~launch.attached
    /\ CancelLaunch
    /\ UNCHANGED <<thread, removing, envs, guests, siteVars, others>>

\* deleteFinishedEnvironmentLaunches
ForgetLaunch ==
    /\ thread.status = "gone" /\ ~launch.pending
    /\ launch.attached \/ launch.phase = "cancelled"
    /\ launch' = [launch EXCEPT !.phase = "none", !.attached = FALSE]
    /\ UNCHANGED <<thread, creates, cancelling, removing, envs, guests, siteVars, others>>

-----------------------------------------------------------------------------
(* The thread.                                                             *)

\* The environment of a thread that starts, or takes a message, is found ready; then the
\* dispatch awaits the host and the plugins.
StartChecks ==
    /\ thread.status \in {"attached", "idle", "error"} /\ ~thread.archived
    /\ thread.env # 0 /\ envs[thread.env].status = "ready"
    /\ start = NoStart
    /\ start' = [start EXCEPT !.env = thread.env]
    /\ UNCHANGED <<thread, launchVars, removing, envs, guests, siteVars, policy, crashes>>

\* Its transaction looks at the thread again, not at the environment.
RunStarts ==
    /\ start.env # 0
    /\ thread.status \in {"asks", "attached", "idle", "error"} /\ ~thread.archived
    /\ Becomes("runs")
    /\ UNCHANGED <<launchVars, removing, envs, guests, siteVars, others>>

\* An await fails, or the transaction refuses.
StartFails ==
    /\ start.env # 0 /\ thread.status # "runs"
    /\ start' = NoStart
    /\ IF thread.status = "attached" /\ ~thread.archived
       THEN Becomes("error") \/ (start.lapsed /\ UNCHANGED thread)
       ELSE UNCHANGED thread
    /\ UNCHANGED <<launchVars, removing, envs, guests, siteVars, policy, crashes>>

RunEnds ==
    /\ thread.status = "runs"
    /\ Becomes("idle") \/ Becomes("error")
    /\ start' = NoStart
    /\ UNCHANGED <<launchVars, removing, envs, guests, siteVars, policy, crashes>>

\* The environment was lost before the thread could start in it.
AttachedFails ==
    /\ thread.status = "attached" /\ ~thread.archived
    /\ envs[thread.env].status \in {"error", "destroyed"}
    /\ Becomes("error")
    /\ UNCHANGED <<launchVars, removing, envs, guests, siteVars, others>>

\* A dispatch under way goes on when its thread is stopped or archived.
Lapses == start' = [start EXCEPT !.lapsed = @ \/ (start.env # 0 /\ thread.status # "runs")]

\* A message for a thread whose environment is gone makes it ask for a new one.
Reprovision ==
    /\ thread.status \in {"idle", "error"} /\ ~thread.archived
    /\ thread.env # 0 /\ envs[thread.env].status \in {"error", "destroyed"}
    /\ Becomes("asks")
    /\ UNCHANGED <<launchVars, removing, envs, guests, siteVars, others>>

\* A message for a thread that never got a workspace: clean up, then ask again.
Retry ==
    /\ thread.status = "error" /\ ~thread.archived /\ thread.env = 0
    /\ launch.phase # "none"
    /\ IF Settled THEN Becomes("asks") ELSE UNCHANGED thread
    /\ CancelLaunch
    /\ UNCHANGED <<removing, envs, guests, siteVars, others>>

\* A stop before the start.  The request a restart has not restored yet is not cancelled.
Stop ==
    /\ thread.status \in {"asks", "lost", "attached"}
    /\ Becomes("idle")
    /\ IF thread.status = "asks" THEN CancelLaunch ELSE UNCHANGED launchVars
    /\ IF thread.status = "attached" /\ envs[thread.env].status = "provisioning" /\ thread.env \notin guests
       THEN envs' = [envs EXCEPT ![thread.env].status = "ready"]
       ELSE UNCHANGED envs
    /\ Lapses
    /\ UNCHANGED <<removing, guests, siteVars, policy, crashes>>

\* A thread that is starting is not archived before it has an environment.
Archive ==
    /\ ~thread.archived
    /\ thread.status # "gone" /\ (thread.env # 0 \/ thread.status \in {"idle", "error"})
    /\ thread' = [thread EXCEPT !.archived = TRUE]
    /\ CancelLaunch /\ Lapses
    /\ UNCHANGED <<removing, envs, guests, siteVars, policy, crashes>>

Unarchive ==
    /\ thread.archived /\ thread.status # "gone"
    /\ thread' = [thread EXCEPT !.archived = FALSE]
    /\ UNCHANGED <<launchVars, removing, envs, guests, siteVars, others>>

\* A dispatch is refused from now on; the agent of a deleted thread is not followed.
Delete ==
    /\ thread.status # "gone"
    /\ Becomes("gone") /\ start' = NoStart
    /\ CancelLaunch
    /\ UNCHANGED <<removing, envs, guests, siteVars, policy, crashes>>

-----------------------------------------------------------------------------
(* Environments, and the other threads in them.                            *)

Exists(n) == envs[n].status # "none"

\* Another thread is created in the environment, or unarchived there.
GuestComes(n) ==
    /\ Exists(n) /\ n \notin guests
    /\ guests' = guests \union {n}
    /\ UNCHANGED <<thread, launchVars, removing, envs, siteVars, others>>

\* It is deleted, or archived and its run over.
GuestGoes(n) ==
    /\ n \in guests
    /\ guests' = guests \ {n}
    /\ UNCHANGED <<thread, launchVars, removing, envs, siteVars, others>>

\* The setup hooks of the environment end.
ProvisionSucceeds(n) ==
    /\ envs[n].status = "provisioning"
    /\ envs' = [envs EXCEPT ![n].status = "ready"]
    /\ UNCHANGED <<thread, launchVars, removing, guests, siteVars, others>>

ProvisionFails(n) ==
    /\ envs[n].status = "provisioning"
    /\ envs' = [envs EXCEPT ![n].status = "error"]
    /\ IF thread.env = n /\ thread.status = "attached" /\ ~thread.archived
       THEN Becomes("error") ELSE UNCHANGED thread
    /\ UNCHANGED <<launchVars, removing, guests, siteVars, others>>

\* requestEnvironmentRemoval, from the route that deletes an environment
RequestRemoval(n) ==
    /\ Exists(n) /\ envs[n].teardown = "none" /\ ~HasLive(n)
    /\ envs' = [envs EXCEPT ![n].status = "error", ![n].teardown = "running"]
    /\ UNCHANGED <<thread, launchVars, removing, guests, siteVars, others>>

\* Mutant: only a removal that was not tried yet is started.
SweepRemovesOnce(n) ==
    /\ Exists(n) /\ SlotFree /\ envs[n].teardown = "none" /\ ~HasLive(n)
    /\ policy.retires
    /\ envs' = [envs EXCEPT ![n].status = "error", ![n].teardown = "running"]
    /\ removing' = n
    /\ UNCHANGED <<thread, launchVars, guests, siteVars, others>>

\* sweepProviderEnvironmentInSlot: retire, request the removal and start it.
SweepRemoves(n) ==
    /\ Exists(n) /\ SlotFree /\ envs[n].teardown # "removed" /\ ~HasLive(n)
    /\ policy.retires \/ envs[n].teardown # "none"
    /\ envs' = [envs EXCEPT ![n].status = "error", ![n].teardown = "running"]
    /\ removing' = n
    /\ UNCHANGED <<thread, launchVars, guests, siteVars, others>>

\* A thread that has come back keeps the environment from being destroyed.
RemoveDone(n) ==
    /\ removing = n /\ removing' = 0
    /\ sites' = sites \ {envs[n].key}
    /\ envs' = [envs EXCEPT ![n].teardown = "removed",
                            ![n].status = IF HasLive(n) THEN @ ELSE "destroyed"]
    /\ UNCHANGED <<thread, launchVars, guests, disowned, others>>

\* A removal that failed may have removed the workspace all the same.
RemoveFails(n) ==
    /\ removing = n /\ removing' = 0
    /\ sites' \in {sites, sites \ {envs[n].key}}
    /\ envs' = [envs EXCEPT ![n].teardown = "failed"]
    /\ UNCHANGED <<thread, launchVars, guests, disowned, others>>

-----------------------------------------------------------------------------
(* The server dies.  Work under way on the host may or may not come to an end. *)

\* The agent of a run stays, but its thread may still be recorded as starting; the start of
\* a thread that was stopped or archived may have reached the host, any other is forgotten.
CrashOfDispatch ==
    \/ /\ thread.status = "runs"
       /\ \/ UNCHANGED <<thread, start>>
          \/ Becomes("attached") /\ start' = [start EXCEPT !.lapsed = TRUE]
    \/ /\ thread.status # "runs"
       /\ IF thread.status = "asks" THEN Becomes("lost") ELSE UNCHANGED thread
       /\ start' = NoStart \/ (start.lapsed /\ UNCHANGED start)

Crash ==
    /\ crashes < MaxCrashes /\ crashes' = crashes + 1
    /\ sites' \in {sites, sites \union {c.key : c \in creates}, sites \ Unmaking}
    /\ creates' = {} /\ cancelling' = "none" /\ removing' = 0
    /\ CrashOfDispatch
    /\ UNCHANGED <<policy, launch, envs, guests, disowned>>

\* The sweep of starting threads reads the request from the launch.
Restore ==
    /\ thread.status = "lost"
    /\ \/ /\ launch.phase \in {"none", "cancelled"}
          /\ Becomes("error")
       \/ /\ launch.phase \notin {"none", "cancelled"} /\ ~launch.attached
          /\ Becomes("asks")
       \/ /\ launch.attached /\ ~thread.archived
          /\ thread' = [thread EXCEPT !.status = "attached", !.env = launch.attempt]
    /\ UNCHANGED <<launchVars, removing, envs, guests, siteVars, others>>

Next ==
    \/ AskCancels \/ AskStarts \/ AskResumes \/ AskAttaches \/ AskFindsHostAway \/ AskRejects
    \/ \E c \in creates : Create(c)
    \/ CancelProceeds \/ CancelDone \/ CancelFails \/ SweepCancelled \/ ForgetLaunch
    \/ StartChecks \/ RunStarts \/ StartFails \/ RunEnds \/ AttachedFails \/ Reprovision \/ Retry
    \/ Stop \/ Archive \/ Unarchive \/ Delete
    \/ \E n \in Attempt :
        \/ GuestComes(n) \/ GuestGoes(n)
        \/ ProvisionSucceeds(n) \/ ProvisionFails(n)
        \/ RequestRemoval(n) \/ SweepRemoves(n) \/ RemoveDone(n) \/ RemoveFails(n)
    \/ Crash \/ Restore

Spec == Init /\ [][Next]_vars

\* A create that was told to stop ends; the sweeps come again and again and get their turn
\* on the host (the queue of a host is served in order); a removal ends, and removals do not
\* fail for ever.
Fairness ==
    /\ WF_vars(\E c \in creates : c.aborted /\ CreateEnds(c))
    /\ SF_vars(CancelProceeds) /\ SF_vars(CancelDone)
    /\ WF_vars(SweepCancelled)
    /\ SF_vars(\E n \in Attempt : SweepRemoves(n))
    /\ SF_vars(\E n \in Attempt : RemoveDone(n))

FairSpec == Spec /\ Fairness

-----------------------------------------------------------------------------
(* Properties.                                                             *)

\* The rows of the three tables, a dispatch and a create under way.
ThreadRow == [status : {"asks", "lost", "attached", "idle", "error", "runs", "gone"},
              archived : BOOLEAN, env : Key]
StartRecord == [env : Key, lapsed : BOOLEAN]
LaunchRow == [attempt : Key, phase : {"none", "creating", "ready", "failed", "cancelled"},
              pending : BOOLEAN, attached : BOOLEAN, key : Key,
              failure : {"none", "transient", "terminal"},
              transients : 0 .. TransientRetryLimit + 1, rejected : BOOLEAN]
CreateOp == [attempt : Attempt, key : Key, aborted : BOOLEAN]
EnvRow == [status : {"none", "provisioning", "ready", "error", "destroyed"},
           teardown : {"none", "running", "failed", "removed"}, key : Key]

\* The rows hold values of their columns, a thread that starts or runs has an environment,
\* and a launch counts no more failures than one past the limit.
TypeOK ==
    /\ policy \in [keyPerAttempt : BOOLEAN, retires : BOOLEAN]
    /\ start \in StartRecord
    /\ thread.status \in {"attached", "runs"} => thread.env # 0
    /\ thread \in ThreadRow /\ launch \in LaunchRow
    /\ creates \subseteq CreateOp
    /\ cancelling \in {"none", "waiting", "removing"} /\ removing \in Key
    /\ envs \in [Attempt -> EnvRow]
    /\ guests \subseteq Attempt
    /\ sites \subseteq Key /\ disowned \subseteq Key /\ crashes \in 0 .. MaxCrashes

\* The provider never creates a path key twice at a time, and never creates one that it is
\* removing (cancelProviderLaunch awaits the aborted create; the cleanups of a host take
\* turns; a launch that rebuilds an environment gets a key of its own).
NoOverlap ==
    /\ \A c, d \in creates : c.key = d.key => c = d
    /\ \A c \in creates : c.key \notin Unmaking

\* What providerLaunchHasPendingWork says of the launch.
PendingWork == launch.pending \/ (~launch.attached /\ launch.phase \in {"creating", "ready", "failed"})

\* Each workspace on the host has a row that leads to its removal, whatever failed and
\* wherever the server died: a launch with work left, or an environment that was not
\* removed.  Except those whose path the server refused, which runCancel gives up.
NothingLeaked ==
    \A k \in sites \ disowned :
        \/ PendingWork /\ launch.key = k
        \/ \E n \in Attempt : Exists(n) /\ envs[n].key = k /\ envs[n].teardown # "removed"

\* An agent runs in the environment its dispatch found ready: the workspace is still there
\* and no removal of it was asked for, though the transaction that starts the run does not
\* look at it again.  A thread that waits to start keeps its environment, and so does one
\* that is archived while it runs (environmentHasLiveThreads).  Not so if the thread was
\* archived and unarchived, or stopped, between the check and the start.
AgentsKeepWorkspace ==
    thread.status = "runs" /\ ~start.lapsed =>
        /\ thread.env = start.env
        /\ envs[start.env].status = "ready" /\ envs[start.env].teardown = "none"
        /\ envs[start.env].key \in sites

\* A launch that was cancelled is never ready and never becomes an environment, however late
\* its create answers (mutateLaunch): only a new attempt follows it.
CancelledStays ==
    [][launch.phase = "cancelled" /\ launch'.attempt = launch.attempt
        => launch'.phase \in {"cancelled", "none"} /\ ~launch'.attached]_vars

\* A cancellation is carried through, and a removal too unless a thread comes to live in the
\* environment, though removals fail and the server dies in the middle.
CleanupEnds ==
    /\ launch.pending ~> ~launch.pending
    /\ \A n \in Attempt :
          envs[n].teardown \in {"running", "failed"} ~> envs[n].teardown = "removed" \/ HasLive(n)

\* What the guide says: a teardown that failed is tried again.  Not so once a thread lives
\* there again: the sweep leaves the environment alone and the thread waits for the removal.
FailedTeardownRetried ==
    \A n \in Attempt : envs[n].teardown = "failed" ~> envs[n].teardown # "failed"
=============================================================================
