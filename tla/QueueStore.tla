----------------------------- MODULE QueueStore -----------------------------
(***************************************************************************)
(* The rows of one thread's message queue (table queued_thread_messages)   *)
(* and the workers of the server that claim, dispatch and settle them.     *)
(*                                                                         *)
(* Every operation on the table is one SQLite transaction and so one       *)
(* action.  A worker is one asynchronous call of the server that holds a   *)
(* claim: it claims in one step, awaits, and settles the claim in another, *)
(* so the user and the other workers act in between.  A crash forgets the  *)
(* workers and keeps the rows.                                             *)
(*                                                                         *)
(* Abstractions.  sort_key is the strict order `before` it induces on the  *)
(* rows; which keys realise it is left out.  A claim token is a member     *)
(* of Tokens that nothing else mentions.  The columns that decide whether  *)
(* two rows may share a batch (sender, model, reasoning level, permission  *)
(* mode, service tier) are one value, Envelope[i]: they never change.      *)
(***************************************************************************)
EXTENDS Integers, FiniteSets

CONSTANTS
    Id,         \* the messages that may ever be queued
    Workers,    \* concurrent dispatch calls of the server
    Tokens,     \* claim tokens
    NoToken,    \* the token of a row nobody holds
    NoId,       \* absent row, e.g. the lead of a worker that holds nothing
    Envelope,   \* Envelope[i]: the grouping envelope of message i
    Notices,    \* the messages that are the server's own system notices
    WaitKinds   \* the reasons to wait that this instance distinguishes

AllWaits == {"none", "thread-busy", "turn-starting", "time", "plugin",
             "provisioning", "host-offline", "interaction"}
TurnEndWaits == {"none", "thread-busy", "turn-starting"}

ASSUME StoreAssumption ==
    /\ IsFiniteSet(Id)
    /\ NoToken \notin Tokens
    /\ NoId \notin Id
    /\ Notices \subseteq Id
    /\ DOMAIN Envelope = Id
    /\ "none" \in WaitKinds /\ WaitKinds \subseteq AllWaits

VARIABLES
    phase,          \* where message i is: "new", "queued", "sent" or "removed"
    before,         \* the order of the queued rows: <<i, j>> if i is before j
    groupWithNext,  \* row i is sent in one prompt with the row behind it
    wait,           \* why row i waits
    failed,         \* row i shows a failure reason
    claim,          \* the token of the worker that holds row i, or NoToken
    stage,          \* what worker w does: "idle", "held" or "noticed"
    batch,          \* the rows worker w claimed
    lead,           \* the first of them
    token,          \* the token it claimed them with
    copies          \* (history) how often message i was handed to the agent

rowVars == <<phase, before, groupWithNext, wait, failed, claim>>
workerVars == <<stage, batch, lead, token>>
storeVars == <<rowVars, workerVars, copies>>

-----------------------------------------------------------------------------
(* Reading the table.                                                      *)

Queued == {i \in Id : phase[i] = "queued"}

\* listQueuedThreadMessages: the rows no worker holds.
Live == {i \in Queued : claim[i] = NoToken}

Earlier(i, j) == <<i, j>> \in before

\* getPreviousUnclaimedQueuedThreadMessage: the last live row before i, if any.
PreviousLive(i) ==
    {j \in Live : /\ Earlier(j, i)
                  /\ \A k \in Live : ~ (Earlier(j, k) /\ Earlier(k, i))}

IsFirst(i, S) == i \in S /\ \A j \in S \ {i} : Earlier(i, j)

\* The live rows from i to j, whichever comes first, both included.
Span(i, j) ==
    {k \in Live : \/ k \in {i, j}
                  \/ Earlier(i, k) /\ Earlier(k, j)
                  \/ Earlier(j, k) /\ Earlier(k, i)}

\* The group of live row i (collectLeadGroupIds, partitionQueuedMessageGroups):
\* the rows it reaches along groupWithNext edges without a change of envelope.
\* Mutant: an edge groups whatever two rows it finds itself between.
SharesEdges(i, j) ==
    \A k \in Span(i, j) :
        (\E m \in Span(i, j) : Earlier(k, m)) => groupWithNext[k]
SharesGroup(i, j) ==
    LET span == Span(i, j)
    IN  \A k \in span :
          /\ Envelope[k] = Envelope[i]
          /\ (\E m \in span : Earlier(k, m)) => groupWithNext[k]
GroupOf(i) == {j \in Live : SharesGroup(i, j)}

Ordinary(i) == i \notin Notices /\ wait[i] \in TurnEndWaits
IdleDrainable(i) == ~ failed[i] /\ wait[i] \in TurnEndWaits

\* Mutant: nothing protects the claims of running dispatches from the sweep.
NoTokens == {}

ActiveTokens == {token[w] : w \in {v \in Workers : stage[v] # "idle"}}
FreshTokens == Tokens \ (ActiveTokens \union {claim[i] : i \in Id})

-----------------------------------------------------------------------------
Init ==
    /\ phase = [i \in Id |-> "new"]
    /\ before = {}
    /\ groupWithNext = [i \in Id |-> FALSE]
    /\ wait = [i \in Id |-> "none"]
    /\ failed = [i \in Id |-> FALSE]
    /\ claim = [i \in Id |-> NoToken]
    /\ stage = [w \in Workers |-> "idle"]
    /\ batch = [w \in Workers |-> {}]
    /\ lead = [w \in Workers |-> NoId]
    /\ token = [w \in Workers |-> NoToken]
    /\ copies = [i \in Id |-> "none"]

\* Mutant: the tail is the last row of the list the user sees, so that a
\* claimed row has no place relative to the new one.
EnqueueBehindLive(i, kind) ==
    /\ phase[i] = "new"
    /\ phase' = [phase EXCEPT ![i] = "queued"]
    /\ before' = before \union (Live \X {i})
    /\ wait' = [wait EXCEPT ![i] = kind]
    /\ UNCHANGED <<groupWithNext, failed, claim, workerVars, copies>>

\* createQueuedThreadMessageInTransaction: a new row goes to the tail.
Enqueue(i, kind) ==
    /\ phase[i] = "new"
    /\ phase' = [phase EXCEPT ![i] = "queued"]
    /\ before' = before \union (Queued \X {i})
    /\ wait' = [wait EXCEPT ![i] = kind]
    /\ UNCHANGED <<groupWithNext, failed, claim, workerVars, copies>>

-----------------------------------------------------------------------------
(* Claiming.  The transaction stamps one fresh token on the whole group.   *)

ClaimRows(w, S) ==
    /\ stage[w] = "idle"
    /\ \E first \in S : IsFirst(first, S) /\ lead' = [lead EXCEPT ![w] = first]
    /\ \E t \in FreshTokens :
          /\ claim' = [i \in Id |-> IF i \in S THEN t ELSE claim[i]]
          /\ token' = [token EXCEPT ![w] = t]
    /\ stage' = [stage EXCEPT ![w] = "held"]
    /\ batch' = [batch EXCEPT ![w] = S]
    /\ UNCHANGED <<phase, before, wait, failed, copies>>

\* createAutomaticQueuedMessageGroupEligibility over the waits in `kinds`, and
\* isAutomaticQueuedThreadMessageGroupClaimAllowed.
AutomaticAllowed(S, kinds, paused) ==
    /\ \A i \in S : ~ failed[i] /\ wait[i] \in kinds
    /\ paused => \A i \in S : ~ Ordinary(i)

DrainCandidates(kinds, paused) ==
    {i \in Live : LET group == GroupOf(i)
                  IN  /\ \E j \in group : IdleDrainable(j)
                      /\ AutomaticAllowed(group, kinds, paused)}

\* claimNextQueuedThreadMessageGroup: the first group the drain may act on.
ClaimNext(w, kinds, paused) ==
    LET candidates == DrainCandidates(kinds, paused)
    IN  \E i \in candidates :
          /\ IsFirst(i, candidates)
          /\ ClaimRows(w, GroupOf(i))
          /\ UNCHANGED groupWithNext

\* claimQueuedThreadMessageGroup with the automatic policy.
ClaimAutomatic(w, i, kinds, paused) ==
    /\ i \in Live
    /\ AutomaticAllowed(GroupOf(i), kinds, paused)
    /\ ClaimRows(w, GroupOf(i))
    /\ UNCHANGED groupWithNext

\* claimQueuedThreadMessageGroup with the explicit-send policy: the head takes
\* its group along, any other member is cut out of the group and goes alone.
ClaimExplicit(w, i) ==
    /\ i \in Live
    /\ \/ /\ IsFirst(i, GroupOf(i))
          /\ ClaimRows(w, GroupOf(i))
          /\ UNCHANGED groupWithNext
       \/ /\ ~ IsFirst(i, GroupOf(i))
          /\ ClaimRows(w, {i})
          /\ groupWithNext' = [j \in Id |->
                IF j = i \/ j \in PreviousLive(i) THEN FALSE ELSE groupWithNext[j]]

-----------------------------------------------------------------------------
(* Settling a claim.                                                       *)

Bump(c) == IF c = "none" THEN "one" ELSE "many"

StillHeld(w) == {i \in batch[w] : phase[i] = "queued" /\ claim[i] = token[w]}

WorkerDone(w) ==
    /\ stage' = [stage EXCEPT ![w] = "idle"]
    /\ batch' = [batch EXCEPT ![w] = {}]
    /\ lead' = [lead EXCEPT ![w] = NoId]
    /\ token' = [token EXCEPT ![w] = NoToken]

\* Mutant: the dispatch consumes the row it started from and leaves its group.
DeleteLead(w) ==
    /\ lead[w] \in StillHeld(w)
    /\ phase' = [phase EXCEPT ![lead[w]] = "sent"]
    /\ before' = {p \in before : lead[w] \notin {p[1], p[2]}}
    /\ claim' = [i \in Id |-> IF i \in batch[w] THEN NoToken ELSE claim[i]]
    /\ UNCHANGED <<groupWithNext, wait, failed>>

\* Mutant: a batch that lost a row to the user's delete goes without it.
DeleteWhatIsLeft(w) ==
    /\ StillHeld(w) # {}
    /\ phase' = [i \in Id |-> IF i \in StillHeld(w) THEN "sent" ELSE phase[i]]
    /\ before' = {p \in before : {p[1], p[2]} \intersect StillHeld(w) = {}}
    /\ claim' = [i \in Id |-> IF i \in StillHeld(w) THEN NoToken ELSE claim[i]]
    /\ UNCHANGED <<groupWithNext, wait, failed>>

\* deleteClaimedQueuedThreadMessageBatchInTransaction: all rows or none; the
\* live row in front of a deleted one loses its edge.  A row that is gone has
\* the columns of one that never was.
DeleteBatch(w) ==
    /\ StillHeld(w) = batch[w]
    /\ phase' = [i \in Id |-> IF i \in batch[w] THEN "sent" ELSE phase[i]]
    /\ before' = {p \in before : p[1] \notin batch[w] /\ p[2] \notin batch[w]}
    /\ claim' = [i \in Id |-> IF i \in batch[w] THEN NoToken ELSE claim[i]]
    /\ groupWithNext' = [j \in Id |->
          IF \E i \in batch[w] : j \in PreviousLive(i) \union {i}
          THEN FALSE ELSE groupWithNext[j]]
    /\ wait' = [i \in Id |-> IF i \in batch[w] THEN "none" ELSE wait[i]]
    /\ failed' = [i \in Id |-> failed[i] /\ i \notin batch[w]]

\* The dispatch transaction (consumeClaimedRows): the turn request with the
\* content of every claimed row is appended where the rows are deleted.
Consume(w) ==
    /\ stage[w] = "held" /\ lead[w] \notin Notices
    /\ DeleteBatch(w)
    /\ copies' = [i \in Id |-> IF i \in batch[w] THEN Bump(copies[i]) ELSE copies[i]]
    /\ WorkerDone(w)

\* sendClaimedSystemNotice, first half: deliverParentSystemMessage hands over
\* the content of the lead in a transaction of its own.
DeliverNotice(w) ==
    /\ stage[w] = "held" /\ lead[w] \in Notices
    /\ copies' = [copies EXCEPT ![lead[w]] = Bump(@)]
    /\ stage' = [stage EXCEPT ![w] = "noticed"]
    /\ UNCHANGED <<rowVars, batch, lead, token>>

\* Mutant: the notice is deleted first and delivered afterwards.
ConsumeUndelivered(w) ==
    /\ stage[w] # "idle" /\ lead[w] \in Notices
    /\ DeleteBatch(w)
    /\ WorkerDone(w)
    /\ UNCHANGED copies

\* sendClaimedSystemNotice, second half: the whole batch is deleted.
ConsumeNotice(w) ==
    /\ stage[w] = "noticed"
    /\ DeleteBatch(w)
    /\ WorkerDone(w)
    /\ UNCHANGED copies

\* releaseQueuedMessageClaims: whatever the worker still holds goes back.
Unclaim(w) == claim' = [i \in Id |-> IF i \in StillHeld(w) THEN NoToken ELSE claim[i]]

Release(w) ==
    /\ stage[w] # "idle"
    /\ Unclaim(w)
    /\ WorkerDone(w)
    /\ UNCHANGED <<phase, before, groupWithNext, wait, failed, copies>>

\* requeueClaimedQueuedThreadMessages: the rows go back with a new wait, and
\* a failure shown before is superseded.
Requeue(w, kind) ==
    /\ stage[w] = "held"
    /\ Unclaim(w)
    /\ LET written == StillHeld(w) \union ({lead[w]} \intersect Live)
       IN  /\ wait' = [i \in Id |-> IF i \in written THEN kind ELSE wait[i]]
           /\ failed' = [i \in Id |-> failed[i] /\ i \notin written]
    /\ WorkerDone(w)
    /\ UNCHANGED <<phase, before, groupWithNext, copies>>

\* Release, then recordQueuedMessageDrainFailure on the row that was claimed
\* for (the lead of a drain, the row of a single attempt): a failure reason, or
\* a host-offline wait if the machine is away.  Only a live row is written.
ReleaseFailed(w, i, offline) ==
    /\ stage[w] # "idle"
    /\ i \in batch[w]
    /\ Unclaim(w)
    /\ LET written == {i} \intersect (StillHeld(w) \union Live)
       IN  /\ failed' = [j \in Id |-> IF j \in written THEN ~ offline ELSE failed[j]]
           /\ wait' = [j \in Id |->
                 IF j \in written /\ offline THEN "host-offline" ELSE wait[j]]
    /\ WorkerDone(w)
    /\ UNCHANGED <<phase, before, groupWithNext, copies>>

\* clearThreadQueueWaitsOfKind: every live row of one kind that shows no failure.
WaitingOn(kind) == {i \in Live : wait[i] = kind /\ ~ failed[i]}
ClearWaits(kind) ==
    /\ WaitingOn(kind) # {}
    /\ wait' = [i \in Id |-> IF i \in WaitingOn(kind) THEN "none" ELSE wait[i]]
    /\ UNCHANGED <<phase, before, groupWithNext, failed, claim, workerVars, copies>>

-----------------------------------------------------------------------------
(* The user edits the queue.                                               *)

\* deleteQueuedThreadMessage: the route asks nothing about a claim.
Delete(i) ==
    /\ phase[i] = "queued"
    /\ phase' = [phase EXCEPT ![i] = "removed"]
    /\ before' = {p \in before : p[1] # i /\ p[2] # i}
    /\ claim' = [claim EXCEPT ![i] = NoToken]
    /\ groupWithNext' = [j \in Id |->
          IF j \in PreviousLive(i) \union {i} THEN FALSE ELSE groupWithNext[j]]
    /\ wait' = [wait EXCEPT ![i] = "none"]
    /\ failed' = [failed EXCEPT ![i] = FALSE]
    /\ UNCHANGED <<workerVars, copies>>

\* applyQueuedThreadMessageGroupBoundary under the row order `rel`: the live
\* rows up to b become one group, every other edge is cleared.
Prefix(rel, b) == {i \in Live : i = b \/ <<i, b>> \in rel}
BoundaryAllowed(rel, b) ==
    /\ b \in Live
    /\ \A i, j \in Prefix(rel, b) : Envelope[i] = Envelope[j]
BoundaryEdges(rel, b) ==
    [i \in Id |-> IF i \in Live THEN i \in Prefix(rel, b) \ {b} ELSE groupWithNext[i]]

SetBoundary(b) ==
    /\ BoundaryAllowed(before, b)
    /\ groupWithNext' = BoundaryEdges(before, b)
    /\ UNCHANGED <<phase, before, wait, failed, claim, workerVars, copies>>

\* The orders a new key between live rows p and n can lead to: the key is
\* above p's and below n's, on either side of any other row.
Placements(i, p, n) ==
    {(before \ {q \in before : i \in {q[1], q[2]}})
        \union (C \X {i}) \union ({i} \X ((Queued \ {i}) \ C)) :
     C \in {D \in SUBSET (Queued \ {i}) :
              /\ \A d \in D, e \in Queued \ {i} : Earlier(e, d) => e \in D
              /\ p # NoId => p \in D
              /\ n # NoId => n \notin D}}

\* applyPreservedLeadGroupAfterReorder: the lead group survives iff it is still
\* the front of the queue; no other edge does.
PreservedEdges(rel) ==
    LET group == UNION {GroupOf(i) : i \in {j \in Live : IsFirst(j, Live)}}
        kept == \A i \in group, j \in Live \ group : <<i, j>> \in rel
    IN  IF Cardinality(group) <= 1 THEN groupWithNext
        ELSE [i \in Id |-> IF i \in Live
                           THEN kept /\ i \in group /\ \E j \in group : <<i, j>> \in rel
                           ELSE groupWithNext[i]]

\* reorderQueuedThreadMessage: move live row i between live rows p and n, and
\* regroup at b unless b is NoId.  A refused request changes nothing.
NextLive(i) ==
    {j \in Live : /\ Earlier(i, j)
                  /\ \A k \in Live : ~ (Earlier(i, k) /\ Earlier(k, j))}
AtPlace(i, p, n) ==
    /\ PreviousLive(i) = {p} \ {NoId}
    /\ NextLive(i) = {n} \ {NoId}

Reorder(i, p, n, b) ==
    /\ i \in Live /\ {p, n} \subseteq (Live \ {i}) \union {NoId}
    /\ p # NoId /\ n # NoId => Earlier(p, n)
    /\ ~ AtPlace(i, p, n)
    /\ \E rel \in Placements(i, p, n) :
          /\ before' = rel
          /\ b # NoId => BoundaryAllowed(rel, b)
          /\ groupWithNext' = IF b = NoId THEN PreservedEdges(rel)
                                          ELSE BoundaryEdges(rel, b)
    /\ UNCHANGED <<phase, wait, failed, claim, workerVars, copies>>

-----------------------------------------------------------------------------
(* Recovery.                                                               *)

\* The server dies: the workers and their active tokens are gone.
Crash ==
    /\ \E w \in Workers : stage[w] # "idle"
    /\ stage' = [w \in Workers |-> "idle"]
    /\ batch' = [w \in Workers |-> {}]
    /\ lead' = [w \in Workers |-> NoId]
    /\ token' = [w \in Workers |-> NoToken]
    /\ UNCHANGED <<rowVars, copies>>

\* Mutant: the sweep looks only at rows an idle thread could send.
OrphansOfDrainableRows ==
    {claim[i] : i \in {j \in Queued : IdleDrainable(j)}} \ ({NoToken} \union ActiveTokens)

\* releaseStaleQueuedMessageClaims: the claims older than five minutes, but for
\* those of the tokens this process has active.  Which ones are old is left open.
OrphanTokens == {claim[i] : i \in Queued} \ ({NoToken} \union ActiveTokens)

ReleaseTokens(T) ==
    /\ claim' = [i \in Id |-> IF claim[i] \in T THEN NoToken ELSE claim[i]]
    /\ UNCHANGED <<phase, before, groupWithNext, wait, failed, workerVars, copies>>

StaleRelease == \E T \in SUBSET OrphanTokens \ {{}} : ReleaseTokens(T)
StaleReleaseOf(t) == \E T \in SUBSET OrphanTokens : t \in T /\ ReleaseTokens(T)

-----------------------------------------------------------------------------
WorkerStep(w) ==
    \/ Consume(w)
    \/ DeliverNotice(w)
    \/ ConsumeNotice(w)
    \/ Release(w)
    \/ \E kind \in WaitKinds \ {"none"} : Requeue(w, kind)
    \/ \E i \in batch[w], offline \in BOOLEAN :
          (offline => "host-offline" \in WaitKinds) /\ ReleaseFailed(w, i, offline)

ClaimStep(w) ==
    /\ stage[w] = "idle"
    /\ \/ \E kinds \in SUBSET WaitKinds, paused \in BOOLEAN :
             \/ ClaimNext(w, kinds, paused)
             \/ \E i \in Live : ClaimAutomatic(w, i, kinds, paused)
       \/ \E i \in Live : ClaimExplicit(w, i)

UserStep ==
    \/ \E i \in Queued : Delete(i)
    \/ \E i \in Live : SetBoundary(i)
    \/ \E i \in Live : \E p, n, b \in Live \union {NoId} : Reorder(i, p, n, b)

Next ==
    \/ \E i \in Id : \E kind \in WaitKinds : Enqueue(i, kind)
    \/ \E w \in Workers : ClaimStep(w) \/ WorkerStep(w)
    \/ \E kind \in WaitKinds \ {"none"} : ClearWaits(kind)
    \/ UserStep
    \/ Crash
    \/ StaleRelease

\* A dispatch call returns or throws: every await it makes has a timeout.  The
\* recovery sweep runs on a timer, and a claim once old is old for every sweep.
Fairness ==
    /\ \A w \in Workers : WF_storeVars(WorkerStep(w))
    /\ \A t \in Tokens : WF_storeVars(StaleReleaseOf(t))

Spec == Init /\ [][Next]_storeVars
FairSpec == Spec /\ Fairness
-----------------------------------------------------------------------------
(* Properties.                                                             *)

\* rel orders S strictly and totally.
IsStrictOrder(rel, S) ==
    /\ rel \subseteq S \X S
    /\ \A i, j \in S : (i # j) <=> (<<i, j>> \in rel \/ <<j, i>> \in rel)
    /\ \A i, j, k \in S : <<i, j>> \in rel /\ <<j, k>> \in rel => <<i, k>> \in rel
    /\ \A i, j \in S : ~ (<<i, j>> \in rel /\ <<j, i>> \in rel)

\* The columns and the workers keep their shape; `before` orders exactly the
\* queued rows, strictly and totally; a worker that holds a claim has a lead.
TypeOK ==
    /\ phase \in [Id -> {"new", "queued", "sent", "removed"}]
    /\ IsStrictOrder(before, Queued)
    /\ groupWithNext \in [Id -> BOOLEAN]
    /\ wait \in [Id -> WaitKinds]
    /\ failed \in [Id -> BOOLEAN]
    /\ claim \in [Id -> Tokens \union {NoToken}]
    /\ stage \in [Workers -> {"idle", "held", "noticed"}]
    /\ batch \in [Workers -> SUBSET Id]
    /\ lead \in [Workers -> Id \union {NoId}]
    /\ token \in [Workers -> Tokens \union {NoToken}]
    /\ copies \in [Id -> {"none", "one", "many"}]
    /\ \A w \in Workers : stage[w] # "idle" => lead[w] \in batch[w] /\ token[w] # NoToken
    /\ \A i \in Id : phase[i] # "queued" => claim[i] = NoToken

\* Nobody takes a row from a worker that is still dispatching it: neither
\* another claim nor the stale-claim sweep, however long the dispatch takes.
\* Only the user's delete does (the comment on withActiveQueuedMessageClaims).
ClaimsExclusive ==
    /\ \A w \in Workers : stage[w] # "idle" =>
          \A i \in batch[w] : phase[i] = "queued" => claim[i] = token[w]
    /\ \A v, w \in Workers :
          v # w /\ stage[v] # "idle" /\ stage[w] # "idle" => token[v] # token[w]

\* The rows a worker sends as one prompt agree on their sender and execution
\* options, whatever the user did to the queue between grouping and claiming:
\* the prompt is sent with the options of its lead.
OneEnvelope ==
    \A w \in Workers : \A i, j \in batch[w] : Envelope[i] = Envelope[j]

\* A user's message is handed to the agent at most once, and none that is
\* still queued, or that the user deleted, was handed over: drains racing each
\* other, releases, retries and crashes included (consumeClaimedRows).
AtMostOnce ==
    \A i \in Id \ Notices :
       /\ copies[i] # "many"
       /\ phase[i] # "sent" => copies[i] = "none"

\* What leaves the queue without the user deleting it reached the agent.
NothingLost == \A i \in Id : phase[i] = "sent" => copies[i] # "none"

\* A batch is sent as the prompt it was claimed as: in the step that sends one
\* of its rows all of them are sent, and the worker is done.
SentWhole ==
    [][\A w \in Workers :
          (\E i \in batch[w] : phase[i] = "queued" /\ phase'[i] = "sent")
          => /\ \A i \in batch[w] : phase'[i] = "sent"
             /\ stage'[w] = "idle"]_storeVars

\* The queue keeps the promise of Outbox: a message's fate is decided by the
\* copies handed over; a row sent without a copy has no fate there.
Fate == [i \in Id |->
    IF copies[i] = "many" THEN "duplicated"
    ELSE IF copies[i] = "one" THEN "delivered"
    ELSE IF phase[i] = "sent" THEN "lost" ELSE phase[i]]
Promise == INSTANCE Outbox WITH fate <- Fate
KeepsPromise == Promise!Spec

\* No row stays claimed for ever: its worker settles it, or the sweep finds it
\* after the server died with the claim.
ClaimsResolve == \A i \in Id : claim[i] # NoToken ~> claim[i] = NoToken
=============================================================================
