-------------------------- MODULE QueueStoreProofs --------------------------
(***************************************************************************)
(* Proofs about QueueStore, for every set of messages, workers and tokens. *)
(* Types holds by itself; the claims, the batches and the copies need each *)
(* other, and so are one inductive invariant.  With it, QueueStore         *)
(* implements Outbox.                                                      *)
(***************************************************************************)
EXTENDS QueueStore, TLAPS

-----------------------------------------------------------------------------
(* The order of the rows.                                                  *)

\* A row put behind all others keeps the order.
LEMMA AppendOrder ==
    ASSUME NEW rel, NEW S, NEW i, i \notin S, IsStrictOrder(rel, S)
    PROVE  IsStrictOrder(rel \union (S \X {i}), S \union {i})
BY DEF IsStrictOrder

\* Rows that leave the table leave the others in order.
LEMMA RestrictOrder ==
    ASSUME NEW rel, NEW S, NEW B, IsStrictOrder(rel, S)
    PROVE  IsStrictOrder({p \in rel : p[1] \notin B /\ p[2] \notin B}, S \ B)
BY DEF IsStrictOrder

\* A row moved behind a down-closed set C of the others, and before the rest.
LEMMA MoveOrder ==
    ASSUME NEW rel, NEW S, NEW i \in S, IsStrictOrder(rel, S),
           NEW C \in SUBSET (S \ {i}),
           \A d \in C, e \in S \ {i} : <<e, d>> \in rel => e \in C
    PROVE  IsStrictOrder((rel \ {q \in rel : i \in {q[1], q[2]}})
                            \union (C \X {i}) \union ({i} \X ((S \ {i}) \ C)), S)
<1> DEFINE new == (rel \ {q \in rel : i \in {q[1], q[2]}})
                    \union (C \X {i}) \union ({i} \X ((S \ {i}) \ C))
<1>1. \A j, k \in S \ {i} : <<j, k>> \in new <=> <<j, k>> \in rel
  OBVIOUS
<1>2. \A j \in S : <<j, i>> \in new <=> j \in C
  OBVIOUS
<1>3. \A j \in S : <<i, j>> \in new <=> j \in (S \ {i}) \ C
  OBVIOUS
<1>4. new \subseteq S \X S
  BY DEF IsStrictOrder
<1> HIDE DEF new
<1>5. IsStrictOrder(new, S)
  BY <1>1, <1>2, <1>3, <1>4 DEF IsStrictOrder
<1> QED
  BY <1>5 DEF new

-----------------------------------------------------------------------------
(* Types.                                                                  *)

LEMMA TypeInit == Init => TypeOK
BY StoreAssumption DEF Init, TypeOK, IsStrictOrder, Queued

\* A claim takes live rows and gives its worker the first of them.
LEMMA ClaimTypes ==
    ASSUME TypeOK, NEW w \in Workers, NEW S \in SUBSET Live, ClaimRows(w, S),
           groupWithNext' \in [Id -> BOOLEAN]
    PROVE  TypeOK'
<1>1. Queued' = Queued
  BY DEF ClaimRows, Queued
<1>2. PICK t \in FreshTokens :
         /\ claim' = [i \in Id |-> IF i \in S THEN t ELSE claim[i]]
         /\ token' = [token EXCEPT ![w] = t]
  BY DEF ClaimRows
<1>3. t \in Tokens /\ t # NoToken
  BY StoreAssumption DEF FreshTokens
<1>4. PICK first \in S : lead' = [lead EXCEPT ![w] = first]
  BY DEF ClaimRows
<1>5. S \subseteq Queued /\ S \subseteq Id
  BY DEF Live, Queued
<1>6. IsStrictOrder(before, Queued)'
  BY <1>1 DEF TypeOK, ClaimRows, IsStrictOrder
<1>7. /\ phase' \in [Id -> {"new", "queued", "sent", "removed"}]
      /\ wait' \in [Id -> WaitKinds]
      /\ failed' \in [Id -> BOOLEAN]
      /\ copies' \in [Id -> {"none", "one", "many"}]
  BY DEF TypeOK, ClaimRows
<1>8. /\ stage' \in [Workers -> {"idle", "held", "noticed"}]
      /\ batch' \in [Workers -> SUBSET Id]
      /\ lead' \in [Workers -> Id \union {NoId}]
      /\ token' \in [Workers -> Tokens \union {NoToken}]
      /\ claim' \in [Id -> Tokens \union {NoToken}]
  BY <1>2, <1>3, <1>4, <1>5 DEF TypeOK, ClaimRows
<1>9. \A v \in Workers : stage'[v] # "idle" => lead'[v] \in batch'[v] /\ token'[v] # NoToken
  BY <1>2, <1>3, <1>4 DEF TypeOK, ClaimRows
<1>10. \A i \in Id : phase'[i] # "queued" => claim'[i] = NoToken
  BY <1>2, <1>5 DEF TypeOK, ClaimRows, Queued
<1> QED
  BY <1>6, <1>7, <1>8, <1>9, <1>10 DEF TypeOK

\* Deleting a batch leaves the rows that are not in it in order.
LEMMA DeleteBatchTypes ==
    ASSUME TypeOK, NEW w \in Workers, DeleteBatch(w)
    PROVE  /\ IsStrictOrder(before, Queued)'
           /\ phase' \in [Id -> {"new", "queued", "sent", "removed"}]
           /\ groupWithNext' \in [Id -> BOOLEAN]
           /\ wait' \in [Id -> WaitKinds]
           /\ failed' \in [Id -> BOOLEAN]
           /\ claim' \in [Id -> Tokens \union {NoToken}]
           /\ \A i \in Id : phase'[i] # "queued" => claim'[i] = NoToken
<1>1. Queued' = Queued \ batch[w]
  BY DEF TypeOK, DeleteBatch, Queued
<1>2. IsStrictOrder(before, Queued)'
  <2>1. IsStrictOrder({p \in before : p[1] \notin batch[w] /\ p[2] \notin batch[w]},
                      Queued \ batch[w])
    BY RestrictOrder DEF TypeOK
  <2> QED
    BY <1>1, <2>1 DEF DeleteBatch, IsStrictOrder
<1> QED
  BY <1>2, StoreAssumption DEF TypeOK, DeleteBatch

\* Claims of every policy take a group of live rows.
LEMMA ClaimStepTypes ==
    ASSUME TypeOK, NEW w \in Workers, ClaimStep(w)
    PROVE  TypeOK'
<1>1. \A i \in Live : GroupOf(i) \in SUBSET Live
  BY DEF GroupOf
<1>2. ASSUME NEW kinds, NEW paused, ClaimNext(w, kinds, paused)
      PROVE  TypeOK'
  <2>1. PICK i \in Live : ClaimRows(w, GroupOf(i))
    BY <1>2 DEF ClaimNext, DrainCandidates
  <2>2. groupWithNext' \in [Id -> BOOLEAN]
    BY <1>2 DEF TypeOK, ClaimNext
  <2> QED
    BY <1>1, <2>1, <2>2, ClaimTypes
<1>3. ASSUME NEW kinds, NEW paused, NEW i \in Live, ClaimAutomatic(w, i, kinds, paused)
      PROVE  TypeOK'
  <2>1. groupWithNext' \in [Id -> BOOLEAN]
    BY <1>3 DEF TypeOK, ClaimAutomatic
  <2> QED
    BY <1>1, <1>3, <2>1, ClaimTypes DEF ClaimAutomatic
<1>4. ASSUME NEW i \in Live, ClaimExplicit(w, i)
      PROVE  TypeOK'
  <2>1. groupWithNext' \in [Id -> BOOLEAN]
    BY <1>4 DEF TypeOK, ClaimExplicit
  <2>2. ClaimRows(w, GroupOf(i)) \/ ClaimRows(w, {i})
    BY <1>4 DEF ClaimExplicit
  <2> QED
    BY <1>1, <2>1, <2>2, ClaimTypes
<1> QED
  BY <1>2, <1>3, <1>4 DEF ClaimStep

\* A worker that settles its claim, in every way it may end.
LEMMA WorkerStepTypes ==
    ASSUME TypeOK, NEW w \in Workers, WorkerStep(w)
    PROVE  TypeOK'
<1>0. ASSUME WorkerDone(w)
      PROVE  /\ stage' \in [Workers -> {"idle", "held", "noticed"}]
             /\ batch' \in [Workers -> SUBSET Id]
             /\ lead' \in [Workers -> Id \union {NoId}]
             /\ token' \in [Workers -> Tokens \union {NoToken}]
             /\ \A v \in Workers :
                   stage'[v] # "idle" => lead'[v] \in batch'[v] /\ token'[v] # NoToken
  BY <1>0 DEF TypeOK, WorkerDone
<1>1. CASE Consume(w)
  <2>1. copies' \in [Id -> {"none", "one", "many"}]
    BY <1>1 DEF TypeOK, Consume, Bump
  <2>2. DeleteBatch(w) /\ WorkerDone(w)
    BY <1>1 DEF Consume
  <2> QED
    BY <1>0, <2>1, <2>2, DeleteBatchTypes DEF TypeOK
<1>2. CASE DeliverNotice(w)
  <2>1. Queued' = Queued
    BY <1>2 DEF DeliverNotice, rowVars, Queued
  <2>2. copies' \in [Id -> {"none", "one", "many"}]
    BY <1>2, StoreAssumption DEF TypeOK, DeliverNotice, Bump
  <2>3. IsStrictOrder(before, Queued)'
    BY <1>2, <2>1 DEF TypeOK, DeliverNotice, rowVars, IsStrictOrder
  <2> QED
    BY <1>2, <2>2, <2>3 DEF TypeOK, DeliverNotice, rowVars
<1>3. CASE ConsumeNotice(w)
  <2>1. DeleteBatch(w) /\ WorkerDone(w) /\ copies' = copies
    BY <1>3 DEF ConsumeNotice
  <2> QED
    BY <1>0, <2>1, DeleteBatchTypes DEF TypeOK
<1>4. ASSUME Unclaim(w), WorkerDone(w), UNCHANGED <<phase, before, groupWithNext, copies>>,
             wait' \in [Id -> WaitKinds], failed' \in [Id -> BOOLEAN]
      PROVE  TypeOK'
  <2>1. Queued' = Queued
    BY <1>4 DEF Queued
  <2>2. IsStrictOrder(before, Queued)'
    BY <1>4, <2>1 DEF TypeOK, IsStrictOrder
  <2>3. /\ claim' \in [Id -> Tokens \union {NoToken}]
        /\ \A i \in Id : phase'[i] # "queued" => claim'[i] = NoToken
    BY <1>4 DEF TypeOK, Unclaim
  <2>4. copies' \in [Id -> {"none", "one", "many"}] /\ phase' = phase /\ groupWithNext' = groupWithNext
    BY <1>4 DEF TypeOK
  <2> QED
    BY <1>0, <1>4, <2>2, <2>3, <2>4 DEF TypeOK
<1>5. CASE Release(w)
  BY <1>4, <1>5 DEF Release, TypeOK
<1>6. ASSUME NEW kind \in WaitKinds, Requeue(w, kind)
      PROVE  TypeOK'
  <2>1. wait' \in [Id -> WaitKinds] /\ failed' \in [Id -> BOOLEAN]
    BY <1>6 DEF Requeue, TypeOK
  <2> QED
    BY <1>4, <1>6, <2>1 DEF Requeue
<1>7. ASSUME NEW i, NEW offline \in BOOLEAN, offline => "host-offline" \in WaitKinds,
             ReleaseFailed(w, i, offline)
      PROVE  TypeOK'
  <2>1. wait' \in [Id -> WaitKinds] /\ failed' \in [Id -> BOOLEAN]
    BY <1>7 DEF ReleaseFailed, TypeOK
  <2> QED
    BY <1>4, <1>7, <2>1 DEF ReleaseFailed
<1> QED
  BY <1>1, <1>2, <1>3, <1>5, <1>6, <1>7 DEF WorkerStep

\* The user's edits.
LEMMA UserStepTypes ==
    ASSUME TypeOK, UserStep
    PROVE  TypeOK'
<1>1. ASSUME NEW i \in Queued, Delete(i)
      PROVE  TypeOK'
  <2>1. Queued' = Queued \ {i}
    BY <1>1 DEF Delete, Queued, TypeOK
  <2>2. before' = {p \in before : p[1] \notin {i} /\ p[2] \notin {i}}
    BY <1>1 DEF Delete
  <2>3. IsStrictOrder(before, Queued)'
    <3>1. IsStrictOrder({p \in before : p[1] \notin {i} /\ p[2] \notin {i}}, Queued \ {i})
      BY RestrictOrder DEF TypeOK
    <3> QED
      BY <2>1, <2>2, <3>1 DEF IsStrictOrder
  <2>4. i \in Id /\ "none" \in WaitKinds
    BY StoreAssumption DEF Queued
  <2> QED
    BY <1>1, <2>3, <2>4 DEF TypeOK, Delete, workerVars
<1>2. ASSUME NEW rel, NEW b, IsStrictOrder(rel, Queued), before' = rel,
             groupWithNext' \in [Id -> BOOLEAN],
             UNCHANGED <<phase, wait, failed, claim, workerVars, copies>>
      PROVE  TypeOK'
  <2>1. Queued' = Queued
    BY <1>2 DEF Queued
  <2>2. IsStrictOrder(before, Queued)'
    BY <1>2, <2>1 DEF IsStrictOrder
  <2> QED
    BY <1>2, <2>2 DEF TypeOK, workerVars
<1>3. ASSUME NEW rel, NEW b
      PROVE  BoundaryEdges(rel, b) \in [Id -> BOOLEAN]
  <2>1. \A i \in Id : (i \in Prefix(rel, b) \ {b}) \in BOOLEAN
    OBVIOUS
  <2>2. \A i \in Id : groupWithNext[i] \in BOOLEAN
    BY DEF TypeOK
  <2>3. \A i \in Id : (IF i \in Live THEN i \in Prefix(rel, b) \ {b}
                       ELSE groupWithNext[i]) \in BOOLEAN
    BY <2>1, <2>2
  <2> QED
    BY <2>3, Zenon DEF BoundaryEdges
<1>4. ASSUME NEW b \in Live, SetBoundary(b)
      PROVE  TypeOK'
  BY <1>2, <1>3, <1>4 DEF SetBoundary, TypeOK
<1>5. ASSUME NEW i \in Live, NEW p, NEW n, NEW b, Reorder(i, p, n, b)
      PROVE  TypeOK'
  <2>1. PICK rel \in Placements(i, p, n) :
           /\ before' = rel
           /\ groupWithNext' = IF b = NoId THEN PreservedEdges(rel) ELSE BoundaryEdges(rel, b)
    BY <1>5 DEF Reorder
  <2>2. PICK C \in SUBSET (Queued \ {i}) :
           /\ \A d \in C, e \in Queued \ {i} : Earlier(e, d) => e \in C
           /\ rel = (before \ {q \in before : i \in {q[1], q[2]}})
                       \union (C \X {i}) \union ({i} \X ((Queued \ {i}) \ C))
    BY DEF Placements
  <2>3. IsStrictOrder(rel, Queued)
    BY <2>2, MoveOrder DEF TypeOK, Earlier, Live
  <2>4. PreservedEdges(rel) \in [Id -> BOOLEAN]
    BY DEF PreservedEdges, TypeOK
  <2> QED
    BY <1>2, <1>3, <1>5, <2>1, <2>3, <2>4 DEF Reorder
<1> QED
  BY <1>1, <1>4, <1>5 DEF UserStep

LEMMA TypeNext == TypeOK /\ [Next]_storeVars => TypeOK'
<1> SUFFICES ASSUME TypeOK, [Next]_storeVars
             PROVE  TypeOK'
  OBVIOUS
<1>0. ASSUME UNCHANGED <<phase, before>>
      PROVE  IsStrictOrder(before, Queued)'
  <2>1. Queued' = Queued
    BY <1>0 DEF Queued
  <2> QED
    BY <1>0, <2>1 DEF TypeOK, IsStrictOrder
<1>1. ASSUME NEW i \in Id, NEW kind \in WaitKinds, Enqueue(i, kind)
      PROVE  TypeOK'
  <2>1. Queued' = Queued \union {i} /\ i \notin Queued
    BY <1>1 DEF Enqueue, Queued, TypeOK
  <2>2. IsStrictOrder(before, Queued)'
    <3>1. IsStrictOrder(before \union (Queued \X {i}), Queued \union {i})
      BY <2>1, AppendOrder DEF TypeOK
    <3> QED
      BY <1>1, <2>1, <3>1 DEF Enqueue, IsStrictOrder
  <2> QED
    BY <1>1, <2>2 DEF TypeOK, Enqueue, workerVars
<1>2. ASSUME NEW w \in Workers, ClaimStep(w)
      PROVE  TypeOK'
  BY <1>2, ClaimStepTypes
<1>3. ASSUME NEW w \in Workers, WorkerStep(w)
      PROVE  TypeOK'
  BY <1>3, WorkerStepTypes
<1>4. ASSUME NEW kind, ClearWaits(kind)
      PROVE  TypeOK'
  BY <1>0, <1>4, StoreAssumption DEF TypeOK, ClearWaits, workerVars
<1>5. CASE UserStep
  BY <1>5, UserStepTypes
<1>6. CASE Crash
  BY <1>0, <1>6 DEF TypeOK, Crash, rowVars
<1>7. CASE StaleRelease
  BY <1>0, <1>7 DEF TypeOK, StaleRelease, ReleaseTokens, workerVars
<1>8. CASE UNCHANGED storeVars
  BY <1>0, <1>8 DEF TypeOK, storeVars, rowVars, workerVars
<1> QED
  BY <1>1, <1>2, <1>3, <1>4, <1>5, <1>6, <1>7, <1>8 DEF Next

\* The rows and the workers keep their shape, whatever workers and users do:
\* above all, every operation of the table leaves the queue in one total order.
THEOREM TypeCorrect == Spec => []TypeOK
BY TypeInit, TypeNext, PTL DEF Spec

-----------------------------------------------------------------------------
(* Claims, batches and copies.                                             *)

\* A worker's batch was once in the table, and an idle worker has none.
HeldRows ==
    \A w \in Workers :
       /\ stage[w] = "idle" => batch[w] = {}
       /\ \A i \in batch[w] : phase[i] # "new"

StoreInv == TypeOK /\ HeldRows /\ ClaimsExclusive /\ OneEnvelope /\ AtMostOnce

\* Whatever its policy, a claim takes live rows that share one envelope.
LEMMA ClaimShape ==
    ASSUME NEW w \in Workers, ClaimStep(w)
    PROVE  \E S \in SUBSET Live :
              ClaimRows(w, S) /\ \A i, j \in S : Envelope[i] = Envelope[j]
<1>1. \A i \in Live : /\ GroupOf(i) \in SUBSET Live
                      /\ \A j \in GroupOf(i) : Envelope[j] = Envelope[i]
  BY DEF GroupOf, SharesGroup, Span
<1>2. ASSUME NEW i \in Live, ClaimRows(w, GroupOf(i))
      PROVE  \E S \in SUBSET Live :
                ClaimRows(w, S) /\ \A j, k \in S : Envelope[j] = Envelope[k]
  <2>1. \A j, k \in GroupOf(i) : Envelope[j] = Envelope[k]
    BY <1>1
  <2>2. GroupOf(i) \in SUBSET Live
    BY <1>1
  <2> QED
    BY <1>2, <2>1, <2>2, Zenon
<1>3. ASSUME NEW i \in Live, ClaimRows(w, {i})
      PROVE  \E S \in SUBSET Live :
                ClaimRows(w, S) /\ \A j, k \in S : Envelope[j] = Envelope[k]
  <2>1. \A j, k \in {i} : Envelope[j] = Envelope[k]
    OBVIOUS
  <2>2. {i} \in SUBSET Live
    OBVIOUS
  <2> QED
    BY <1>3, <2>1, <2>2, Zenon
<1>4. (\E i \in Live : ClaimRows(w, GroupOf(i))) \/ (\E i \in Live : ClaimRows(w, {i}))
  BY DEF ClaimStep, ClaimNext, DrainCandidates, ClaimAutomatic, ClaimExplicit
<1> QED
  BY <1>2, <1>3, <1>4

\* A worker's step either delivers a notice and keeps its claim, or ends it:
\* then its rows are either all deleted, or go back to the queue.
LEMMA WorkerShape ==
    ASSUME NEW w \in Workers, WorkerStep(w)
    PROVE  \/ DeliverNotice(w)
           \/ /\ WorkerDone(w)
              /\ DeleteBatch(w)
              /\ Consume(w) \/ (ConsumeNotice(w) /\ copies' = copies)
           \/ /\ WorkerDone(w)
              /\ Unclaim(w)
              /\ UNCHANGED <<phase, before, groupWithNext, copies>>
BY DEF WorkerStep, Consume, ConsumeNotice, Release, Requeue, ReleaseFailed

\* What every other step leaves alone.
LEMMA OtherShape ==
    ASSUME [Next]_storeVars, ~ (\E w \in Workers : ClaimStep(w) \/ WorkerStep(w)), ~ Crash
    PROVE  /\ UNCHANGED <<workerVars, copies>>
           /\ \/ \E i \in Id : /\ phase[i] = "new" /\ claim' = claim
                              /\ phase' = [phase EXCEPT ![i] = "queued"]
              \/ \E i \in Id : /\ phase[i] = "queued"
                              /\ phase' = [phase EXCEPT ![i] = "removed"]
                              /\ claim' = [claim EXCEPT ![i] = NoToken]
              \/ UNCHANGED <<phase, claim>>
              \/ /\ phase' = phase
                 /\ \E T \in SUBSET OrphanTokens :
                      claim' = [i \in Id |-> IF claim[i] \in T THEN NoToken ELSE claim[i]]
BY DEF Next, Enqueue, ClearWaits, UserStep, Delete, Queued, SetBoundary, Reorder,
       StaleRelease, ReleaseTokens, storeVars, rowVars, workerVars

LEMMA HeldRowsNext ==
    ASSUME TypeOK, HeldRows, [Next]_storeVars
    PROVE  HeldRows'
<1>1. ASSUME NEW w \in Workers, ClaimStep(w)
      PROVE  HeldRows'
  <2>1. PICK S \in SUBSET Live : ClaimRows(w, S)
    BY <1>1, ClaimShape
  <2> QED
    BY <2>1 DEF HeldRows, TypeOK, ClaimRows, Live, Queued
<1>2. ASSUME NEW w \in Workers, WorkerStep(w)
      PROVE  HeldRows'
  <2>1. CASE DeliverNotice(w)
    BY <2>1 DEF HeldRows, TypeOK, DeliverNotice, rowVars
  <2>2. CASE WorkerDone(w) /\ DeleteBatch(w)
    BY <2>2 DEF HeldRows, TypeOK, WorkerDone, DeleteBatch
  <2>3. CASE WorkerDone(w) /\ phase' = phase
    BY <2>3 DEF HeldRows, TypeOK, WorkerDone
  <2> QED
    BY <1>2, <2>1, <2>2, <2>3, WorkerShape
<1>3. CASE Crash
  BY <1>3 DEF HeldRows, Crash, rowVars
<1>4. CASE ~ (\E w \in Workers : ClaimStep(w) \/ WorkerStep(w)) /\ ~ Crash
  BY <1>4, OtherShape DEF HeldRows, TypeOK, workerVars
<1> QED
  BY <1>1, <1>2, <1>3, <1>4

\* A fresh token is nobody's: neither a running worker's nor any row's.
LEMMA ExclusiveNext ==
    ASSUME TypeOK, HeldRows, ClaimsExclusive, [Next]_storeVars
    PROVE  ClaimsExclusive'
<1>1. ASSUME NEW w \in Workers, ClaimStep(w)
      PROVE  ClaimsExclusive'
  <2>1. PICK S \in SUBSET Live : ClaimRows(w, S)
    BY <1>1, ClaimShape
  <2>2. PICK t \in FreshTokens :
           /\ claim' = [i \in Id |-> IF i \in S THEN t ELSE claim[i]]
           /\ token' = [token EXCEPT ![w] = t]
    BY <2>1 DEF ClaimRows
  <2>3. \A v \in Workers : stage[v] # "idle" => token[v] # t /\ token[v] # NoToken
    BY <2>2 DEF FreshTokens, ActiveTokens, TypeOK
  <2>4. stage[w] = "idle" /\ phase' = phase
        /\ stage' = [stage EXCEPT ![w] = "held"] /\ batch' = [batch EXCEPT ![w] = S]
    BY <2>1 DEF ClaimRows
  <2>5. ASSUME NEW v \in Workers, stage'[v] # "idle", NEW i \in batch'[v],
               phase'[i] = "queued"
        PROVE  claim'[i] = token'[v]
    <3>1. CASE v = w
      BY <2>2, <2>4, <2>5, <3>1 DEF TypeOK, Live, Queued
    <3>2. CASE v # w
      <4>1. stage[v] # "idle" /\ i \in batch[v] /\ phase[i] = "queued" /\ i \in Id
        BY <2>4, <2>5, <3>2 DEF TypeOK
      <4>2. claim[i] = token[v] /\ token[v] # NoToken
        BY <2>3, <4>1 DEF ClaimsExclusive
      <4>3. i \notin S
        BY <4>2 DEF Live
      <4> QED
        BY <2>2, <3>2, <4>1, <4>2, <4>3 DEF TypeOK
    <3> QED
      BY <3>1, <3>2
  <2>6. \A u, v \in Workers :
           u # v /\ stage'[u] # "idle" /\ stage'[v] # "idle" => token'[u] # token'[v]
    BY <2>2, <2>3, <2>4 DEF TypeOK, ClaimsExclusive
  <2> QED
    BY <2>5, <2>6 DEF ClaimsExclusive
<1>2. ASSUME NEW w \in Workers, WorkerStep(w)
      PROVE  ClaimsExclusive'
  <2>1. CASE DeliverNotice(w)
    BY <2>1 DEF ClaimsExclusive, TypeOK, DeliverNotice, rowVars
  <2>2. CASE WorkerDone(w) /\ DeleteBatch(w)
    BY <2>2 DEF ClaimsExclusive, TypeOK, WorkerDone, DeleteBatch
  <2>3. CASE WorkerDone(w) /\ Unclaim(w) /\ phase' = phase
    <3>1. stage[w] # "idle"
      BY <1>2 DEF WorkerStep, Consume, DeliverNotice, ConsumeNotice, Release, Requeue,
                  ReleaseFailed
    <3> QED
      BY <2>3, <3>1 DEF ClaimsExclusive, TypeOK, WorkerDone, Unclaim, StillHeld
  <2> QED
    BY <1>2, <2>1, <2>2, <2>3, WorkerShape
<1>3. CASE Crash
  BY <1>3 DEF ClaimsExclusive, Crash
<1>4. CASE ~ (\E w \in Workers : ClaimStep(w) \/ WorkerStep(w)) /\ ~ Crash
  <2>1. UNCHANGED workerVars
    BY <1>4, OtherShape
  <2>2. ASSUME NEW w \in Workers, stage[w] # "idle", NEW i \in batch[w],
               phase'[i] = "queued"
        PROVE  claim'[i] = token[w]
    <3>1. phase[i] # "new" /\ i \in Id /\ token[w] \in ActiveTokens
      BY <2>2 DEF HeldRows, TypeOK, ActiveTokens
    <3> QED
      BY <1>4, <2>2, <3>1, OtherShape DEF ClaimsExclusive, TypeOK, OrphanTokens
  <2> QED
    BY <2>1, <2>2 DEF ClaimsExclusive, workerVars
<1> QED
  BY <1>1, <1>2, <1>3, <1>4

LEMMA EnvelopeNext ==
    ASSUME TypeOK, OneEnvelope, [Next]_storeVars
    PROVE  OneEnvelope'
<1>1. ASSUME NEW w \in Workers, ClaimStep(w)
      PROVE  OneEnvelope'
  <2>1. PICK S \in SUBSET Live :
           ClaimRows(w, S) /\ \A i, j \in S : Envelope[i] = Envelope[j]
    BY <1>1, ClaimShape
  <2> QED
    BY <2>1 DEF OneEnvelope, TypeOK, ClaimRows
<1>2. ASSUME NEW w \in Workers, WorkerStep(w)
      PROVE  OneEnvelope'
  BY <1>2, WorkerShape DEF OneEnvelope, TypeOK, WorkerDone, DeliverNotice
<1>3. CASE Crash
  BY <1>3 DEF OneEnvelope, Crash
<1>4. CASE ~ (\E w \in Workers : ClaimStep(w) \/ WorkerStep(w)) /\ ~ Crash
  BY <1>4, OtherShape DEF OneEnvelope, workerVars
<1> QED
  BY <1>1, <1>2, <1>3, <1>4

\* The rows that a dispatch consumes are still queued, so never sent before.
LEMMA CopiesNext ==
    ASSUME TypeOK, AtMostOnce, [Next]_storeVars
    PROVE  AtMostOnce'
<1>1. ASSUME NEW w \in Workers, ClaimStep(w)
      PROVE  AtMostOnce'
  <2>1. phase' = phase /\ copies' = copies
    BY <1>1, ClaimShape DEF ClaimRows
  <2> QED
    BY <2>1 DEF AtMostOnce
<1>2. ASSUME NEW w \in Workers, WorkerStep(w)
      PROVE  AtMostOnce'
  <2>1. CASE DeliverNotice(w)
    BY <2>1 DEF AtMostOnce, TypeOK, DeliverNotice, rowVars
  <2>2. CASE Consume(w)
    <3>1. \A i \in batch[w] : phase[i] = "queued"
      BY <2>2 DEF Consume, DeleteBatch, StillHeld
    <3> QED
      BY <2>2, <3>1 DEF AtMostOnce, TypeOK, Consume, DeleteBatch, Bump
  <2>3. CASE DeleteBatch(w) /\ copies' = copies
    BY <2>3 DEF AtMostOnce, TypeOK, DeleteBatch, StillHeld
  <2>4. CASE UNCHANGED <<phase, copies>>
    BY <2>4 DEF AtMostOnce
  <2> QED
    BY <1>2, <2>1, <2>2, <2>3, <2>4, WorkerShape
<1>3. CASE Crash
  BY <1>3 DEF AtMostOnce, Crash, rowVars
<1>4. CASE ~ (\E w \in Workers : ClaimStep(w) \/ WorkerStep(w)) /\ ~ Crash
  BY <1>4, OtherShape DEF AtMostOnce, TypeOK
<1> QED
  BY <1>1, <1>2, <1>3, <1>4

LEMMA StoreInvInit == Init => StoreInv
BY TypeInit DEF Init, StoreInv, HeldRows, ClaimsExclusive, OneEnvelope, AtMostOnce

LEMMA StoreInvNext == StoreInv /\ [Next]_storeVars => StoreInv'
BY TypeNext, HeldRowsNext, ExclusiveNext, EnvelopeNext, CopiesNext DEF StoreInv

LEMMA StoreInvAlways == Spec => []StoreInv
BY StoreInvInit, StoreInvNext, PTL DEF Spec

\* However claims, deletes, crashes and the sweep of stale claims interleave, a
\* row that a worker still dispatches carries that worker's token and no other.
THEOREM ClaimsAreExclusive == Spec => []ClaimsExclusive
BY StoreInvAlways, PTL DEF StoreInv

\* However the user regroups, the rows of one prompt share sender and options.
THEOREM PromptsHaveOneEnvelope == Spec => []OneEnvelope
BY StoreInvAlways, PTL DEF StoreInv

\* No user's message is handed to the agent twice, or while it is still in the
\* queue, or after its user deleted it.
THEOREM MessagesAreSentAtMostOnce == Spec => []AtMostOnce
BY StoreInvAlways, PTL DEF StoreInv

\* A step that sends one row of a batch sends the batch: the claim that a
\* deleted row no longer carries makes the whole deletion fail.
THEOREM BatchesAreSentWhole == Spec => SentWhole
<1> DEFINE Whole == \A w \in Workers :
              (\E i \in batch[w] : phase[i] = "queued" /\ phase'[i] = "sent")
              => /\ \A i \in batch[w] : phase'[i] = "sent"
                 /\ stage'[w] = "idle"
<1>1. ASSUME StoreInv, [Next]_storeVars
      PROVE  Whole
  <2>1. SUFFICES ASSUME NEW w \in Workers, NEW i \in batch[w],
                        phase[i] = "queued", phase'[i] = "sent"
                 PROVE  (\A j \in batch[w] : phase'[j] = "sent") /\ stage'[w] = "idle"
    OBVIOUS
  <2>2. i \in Id /\ claim[i] = token[w] /\ stage[w] # "idle"
    BY <1>1, <2>1 DEF StoreInv, TypeOK, HeldRows, ClaimsExclusive
  <2>3. ASSUME NEW v \in Workers, ClaimStep(v)
        PROVE  FALSE
    BY <2>1, <2>3, ClaimShape DEF ClaimRows
  <2>4. ASSUME NEW v \in Workers, WorkerStep(v)
        PROVE  (\A j \in batch[w] : phase'[j] = "sent") /\ stage'[w] = "idle"
    <3>1. WorkerDone(v) /\ DeleteBatch(v) /\ stage[v] # "idle"
      BY <2>1, <2>4, WorkerShape
         DEF DeliverNotice, rowVars, Consume, ConsumeNotice
    <3>2. i \in batch[v] /\ claim[i] = token[v]
      BY <1>1, <2>1, <2>2, <3>1 DEF DeleteBatch, StillHeld, StoreInv, TypeOK
    <3>3. v = w
      BY <1>1, <2>2, <3>1, <3>2 DEF StoreInv, ClaimsExclusive
    <3> QED
      BY <1>1, <3>1, <3>3 DEF DeleteBatch, WorkerDone, StoreInv, TypeOK
  <2>5. CASE Crash
    BY <2>1, <2>5 DEF Crash, rowVars
  <2>6. CASE ~ (\E v \in Workers : ClaimStep(v) \/ WorkerStep(v)) /\ ~ Crash
    BY <1>1, <2>1, <2>2, <2>6, OtherShape DEF StoreInv, TypeOK
  <2> QED
    BY <2>3, <2>4, <2>5, <2>6
<1>2. Spec => [][Whole]_storeVars
  BY <1>1, StoreInvAlways, PTL DEF Spec
<1> QED
  BY <1>2 DEF SentWhole

-----------------------------------------------------------------------------
(* No claim is lost from sight: what ClaimsResolve rests on.               *)

\* A row that carries the token of a working worker is in its batch.
HeldInBatch ==
    \A w \in Workers, i \in Id : stage[w] # "idle" /\ claim[i] = token[w] => i \in batch[w]

\* A claimed row is in the batch of the worker that will settle it, or its claim
\* is one that the sweep releases when it is old.
ClaimsHaveOwners ==
    \A i \in Id : claim[i] # NoToken =>
       \/ \E w \in Workers : stage[w] # "idle" /\ i \in batch[w] /\ token[w] = claim[i]
       \/ claim[i] \in OrphanTokens

\* A worker that ends, in whatever way, leaves no claim behind.
OrphansOfCrashes == [][OrphanTokens' \subseteq OrphanTokens \/ Crash]_storeVars

LEMMA HeldInBatchNext ==
    ASSUME StoreInv, HeldInBatch, [Next]_storeVars
    PROVE  HeldInBatch'
<1>1. ASSUME NEW w \in Workers, ClaimStep(w)
      PROVE  HeldInBatch'
  <2>1. PICK S \in SUBSET Live : ClaimRows(w, S)
    BY <1>1, ClaimShape
  <2>2. PICK t \in FreshTokens :
           /\ claim' = [i \in Id |-> IF i \in S THEN t ELSE claim[i]]
           /\ token' = [token EXCEPT ![w] = t]
           /\ stage' = [stage EXCEPT ![w] = "held"] /\ batch' = [batch EXCEPT ![w] = S]
    BY <2>1 DEF ClaimRows
  <2>3. /\ \A i \in Id : claim[i] # t
        /\ \A v \in Workers : stage[v] # "idle" => token[v] # t
    BY <2>2 DEF FreshTokens, ActiveTokens
  <2> QED
    BY <2>2, <2>3 DEF HeldInBatch, StoreInv, TypeOK
<1>2. ASSUME NEW w \in Workers, WorkerStep(w)
      PROVE  HeldInBatch'
  <2>1. \A i \in Id : claim'[i] \in {claim[i], NoToken}
    BY <1>2, WorkerShape DEF DeliverNotice, rowVars, DeleteBatch, Unclaim
  <2>2. \A v \in Workers : stage'[v] # "idle" =>
           stage[v] # "idle" /\ batch'[v] = batch[v] /\ token'[v] = token[v]
    BY <1>2, WorkerShape DEF DeliverNotice, WorkerDone, StoreInv, TypeOK
  <2> QED
    BY <2>1, <2>2 DEF HeldInBatch, StoreInv, TypeOK
<1>3. CASE Crash
  BY <1>3 DEF Crash, HeldInBatch
<1>4. CASE ~ (\E w \in Workers : ClaimStep(w) \/ WorkerStep(w)) /\ ~ Crash
  <2>1. UNCHANGED workerVars /\ \A i \in Id : claim'[i] \in {claim[i], NoToken}
    BY <1>4, OtherShape DEF StoreInv, TypeOK
  <2> QED
    BY <2>1 DEF workerVars, HeldInBatch, StoreInv, TypeOK
<1> QED
  BY <1>1, <1>2, <1>3, <1>4

LEMMA HeldInBatchAlways == Spec => [](StoreInv /\ HeldInBatch)
<1>1. Init => HeldInBatch
  BY DEF Init, HeldInBatch
<1> QED
  BY <1>1, StoreInvInit, StoreInvNext, HeldInBatchNext, PTL DEF Spec

\* However claims, edits, crashes and sweeps interleave, a claimed row is held by
\* a dispatch that is running, or its claim is open to the sweep of stale claims:
\* no claim is kept for ever by a server that forgot it.
THEOREM ClaimsAreAccountedFor == Spec => []ClaimsHaveOwners
<1>1. StoreInv /\ HeldInBatch => ClaimsHaveOwners
  BY DEF StoreInv, TypeOK, HeldInBatch, ClaimsHaveOwners, OrphanTokens, ActiveTokens, Queued
<1> QED
  BY <1>1, HeldInBatchAlways, PTL

\* A dispatch that sends, requeues, releases or fails leaves none of its rows
\* claimed, even if the user deleted some of them meanwhile: only the death of the
\* server leaves rows for the sweep.
THEOREM OnlyCrashesLeaveClaims == Spec => OrphansOfCrashes
<1>1. ASSUME StoreInv, HeldInBatch, [Next]_storeVars, ~ Crash
      PROVE  OrphanTokens' \subseteq OrphanTokens
  <2>1. SUFFICES ASSUME NEW i \in Queued', claim'[i] # NoToken, claim'[i] \notin ActiveTokens'
                 PROVE  claim[i] \in OrphanTokens /\ claim'[i] = claim[i]
    BY DEF OrphanTokens
  <2>2. i \in Id
    BY DEF Queued
  <2>3. ASSUME claim'[i] = claim[i], claim[i] \notin ActiveTokens
        PROVE  claim[i] \in OrphanTokens /\ claim'[i] = claim[i]
    BY <1>1, <2>1, <2>2, <2>3 DEF OrphanTokens, StoreInv, TypeOK, Queued
  <2>4. ASSUME NEW w \in Workers, ClaimStep(w)
        PROVE  claim'[i] = claim[i] /\ claim[i] \notin ActiveTokens
    <3>1. PICK S \in SUBSET Live : ClaimRows(w, S)
      BY <2>4, ClaimShape
    <3>2. PICK t \in FreshTokens :
             /\ claim' = [j \in Id |-> IF j \in S THEN t ELSE claim[j]]
             /\ token' = [token EXCEPT ![w] = t]
             /\ stage[w] = "idle" /\ stage' = [stage EXCEPT ![w] = "held"]
      BY <3>1 DEF ClaimRows
    <3>3. t \in ActiveTokens'
      BY <1>1, <3>2 DEF ActiveTokens, StoreInv, TypeOK
    <3>4. ActiveTokens \subseteq ActiveTokens'
      BY <1>1, <3>2 DEF ActiveTokens, StoreInv, TypeOK
    <3> QED
      BY <2>1, <2>2, <3>2, <3>3, <3>4
  <2>5. ASSUME NEW w \in Workers, WorkerStep(w)
        PROVE  claim'[i] = claim[i] /\ claim[i] \notin ActiveTokens
    <3>1. stage[w] # "idle"
      BY <2>5 DEF WorkerStep, Consume, DeliverNotice, ConsumeNotice, Release, Requeue,
                  ReleaseFailed
    <3>2. CASE DeliverNotice(w)
      <4>1. ActiveTokens \subseteq ActiveTokens' /\ claim' = claim
        BY <1>1, <3>2 DEF DeliverNotice, rowVars, ActiveTokens, StoreInv, TypeOK
      <4> QED
        BY <2>1, <4>1
    <3>3. CASE WorkerDone(w) /\ (DeleteBatch(w) \/ (Unclaim(w) /\ phase' = phase))
      <4>1. /\ claim'[i] = claim[i]
            /\ ~ (i \in batch[w] /\ phase[i] = "queued" /\ claim[i] = token[w])
        <5>1. CASE DeleteBatch(w)
          BY <2>1, <2>2, <5>1 DEF DeleteBatch
        <5>2. CASE Unclaim(w)
          BY <2>1, <2>2, <5>2 DEF Unclaim, StillHeld
        <5> QED
          BY <3>3, <5>1, <5>2
      <4>2. claim[i] # token[w]
        BY <1>1, <2>1, <2>2, <3>1, <4>1 DEF HeldInBatch, StoreInv, TypeOK
      <4>3. \A v \in Workers : stage[v] # "idle" /\ v # w => token[v] \in ActiveTokens'
        BY <1>1, <3>3 DEF WorkerDone, ActiveTokens, StoreInv, TypeOK
      <4> QED
        BY <2>1, <4>1, <4>2, <4>3 DEF ActiveTokens
    <3> QED
      BY <2>5, <3>2, <3>3, WorkerShape
  <2>6. CASE ~ (\E w \in Workers : ClaimStep(w) \/ WorkerStep(w))
    <3>1. UNCHANGED workerVars /\ claim'[i] \in {claim[i], NoToken}
      BY <1>1, <2>2, <2>6, OtherShape DEF StoreInv, TypeOK
    <3>2. ActiveTokens' = ActiveTokens
      BY <3>1 DEF workerVars, ActiveTokens
    <3> QED
      BY <2>1, <2>3, <3>1, <3>2
  <2> QED
    BY <2>3, <2>4, <2>5, <2>6
<1>2. Spec => [][OrphanTokens' \subseteq OrphanTokens \/ Crash]_storeVars
  BY <1>1, HeldInBatchAlways, PTL DEF Spec
<1> QED
  BY <1>2 DEF OrphansOfCrashes

-----------------------------------------------------------------------------
(* QueueStore implements Outbox, provided that no notice of the server is  *)
(* ever grouped with another message.  The proviso is needed: the code     *)
(* claims a notice with its group, delivers the lead, deletes them all.    *)


NoticesAlone ==
    \A n \in Notices : \A i \in Id : Envelope[i] = Envelope[n] => i = n

\* A row that was never queued has no copy; a worker about to delete a notice
\* has handed it over.
NoticesHanded ==
    /\ \A i \in Id : phase[i] = "new" => copies[i] = "none"
    /\ \A w \in Workers : stage[w] = "noticed" => copies[lead[w]] # "none"
    /\ \A w \in Workers : stage[w] = "noticed" => lead[w] \in Notices

FateInv == StoreInv /\ NoticesHanded /\ NothingLost

\* A notice that is the lead of a batch is all of it.
LEMMA NoticeBatch ==
    ASSUME NoticesAlone, StoreInv, NEW w \in Workers, stage[w] # "idle"
    PROVE  /\ lead[w] \in Notices => batch[w] = {lead[w]}
           /\ lead[w] \notin Notices => batch[w] \intersect Notices = {}
BY DEF NoticesAlone, StoreInv, TypeOK, OneEnvelope

LEMMA HandedInit == Init => NoticesHanded /\ NothingLost
BY DEF Init, NoticesHanded, NothingLost

LEMMA HandedNext ==
    ASSUME NoticesAlone, FateInv, [Next]_storeVars
    PROVE  NoticesHanded' /\ NothingLost'
<1>1. ASSUME NEW w \in Workers, ClaimStep(w)
      PROVE  NoticesHanded' /\ NothingLost'
  <2>1. PICK S \in SUBSET Live : ClaimRows(w, S)
    BY <1>1, ClaimShape
  <2> QED
    BY <2>1 DEF ClaimRows, FateInv, StoreInv, TypeOK, NoticesHanded, NothingLost
<1>2. ASSUME NEW w \in Workers, WorkerStep(w)
      PROVE  NoticesHanded' /\ NothingLost'
  <2>0. stage[w] # "idle"
    BY <1>2 DEF WorkerStep, Consume, DeliverNotice, ConsumeNotice, Release, Requeue,
                ReleaseFailed
  <2>1. CASE DeliverNotice(w)
    BY <2>1, StoreAssumption
       DEF DeliverNotice, rowVars, FateInv, StoreInv, TypeOK, HeldRows, NoticesHanded,
           NothingLost, Bump
  <2>2. CASE Consume(w)
    BY <2>2 DEF Consume, DeleteBatch, StillHeld, WorkerDone, FateInv, StoreInv, TypeOK,
                HeldRows, NoticesHanded, NothingLost, Bump
  <2>3. CASE ConsumeNotice(w)
    <3>1. batch[w] = {lead[w]} /\ copies[lead[w]] # "none"
      BY <2>3, <2>0, NoticeBatch DEF ConsumeNotice, FateInv, NoticesHanded
    <3> QED
      BY <2>3, <3>1 DEF ConsumeNotice, DeleteBatch, WorkerDone, FateInv, StoreInv, TypeOK,
                        NoticesHanded, NothingLost
  <2>4. CASE WorkerDone(w) /\ UNCHANGED <<phase, copies>>
    BY <2>4 DEF WorkerDone, FateInv, StoreInv, TypeOK, NoticesHanded, NothingLost
  <2> QED
    BY <1>2, <2>1, <2>2, <2>3, <2>4, WorkerShape
<1>3. CASE Crash
  BY <1>3 DEF Crash, rowVars, FateInv, NoticesHanded, NothingLost
<1>4. CASE ~ (\E w \in Workers : ClaimStep(w) \/ WorkerStep(w)) /\ ~ Crash
  BY <1>4, OtherShape
     DEF workerVars, FateInv, StoreInv, TypeOK, NoticesHanded, NothingLost
<1> QED
  BY <1>1, <1>2, <1>3, <1>4

\* Every step of the queue is a step of the outbox, or none.
LEMMA FateStep ==
    ASSUME NoticesAlone, FateInv, [Next]_storeVars
    PROVE  [Promise!Next]_Fate
<1>1. ASSUME UNCHANGED <<phase, copies>>
      PROVE  Fate' = Fate
  BY <1>1 DEF Fate
<1>2. ASSUME NEW w \in Workers, ClaimStep(w)
      PROVE  Fate' = Fate
  BY <1>1, <1>2, ClaimShape DEF ClaimRows
<1>3. ASSUME NEW w \in Workers, WorkerStep(w)
      PROVE  [Promise!Next]_Fate
  <2>0. stage[w] # "idle"
    BY <1>3 DEF WorkerStep, Consume, DeliverNotice, ConsumeNotice, Release, Requeue,
                ReleaseFailed
  <2>1. CASE DeliverNotice(w)
    <3>1. lead[w] \in Id /\ lead[w] \in Notices /\ phase[lead[w]] # "new"
      BY <2>0, <2>1 DEF DeliverNotice, FateInv, StoreInv, TypeOK, HeldRows
    <3>2. Promise!Deliver({lead[w]})
      BY <2>1, <3>1
         DEF Promise!Deliver, Fate, DeliverNotice, rowVars, Bump, FateInv, StoreInv, TypeOK,
             NothingLost
    <3> QED
      BY <3>1, <3>2 DEF Promise!Next
  <2>2. CASE Consume(w)
    <3>1. batch[w] \subseteq Id /\ batch[w] # {} /\ batch[w] \intersect Notices = {}
      BY <2>0, <2>2, NoticeBatch DEF Consume, FateInv, StoreInv, TypeOK
    <3>2. \A i \in batch[w] : phase[i] = "queued" /\ copies[i] = "none"
      BY <2>2, <3>1 DEF Consume, DeleteBatch, StillHeld, FateInv, StoreInv, AtMostOnce
    <3>3. Promise!Deliver(batch[w])
      BY <2>2, <3>1, <3>2
         DEF Promise!Deliver, Fate, Consume, DeleteBatch, Bump, FateInv, StoreInv, TypeOK
    <3> QED
      BY <3>1, <3>3 DEF Promise!Next
  <2>3. CASE ConsumeNotice(w)
    <3>1. batch[w] = {lead[w]} /\ copies[lead[w]] # "none" /\ lead[w] \in Id
      BY <2>3, <2>0, NoticeBatch
         DEF ConsumeNotice, FateInv, StoreInv, TypeOK, NoticesHanded
    <3>2. Fate' = Fate
      BY <2>3, <3>1 DEF Fate, ConsumeNotice, DeleteBatch, FateInv, StoreInv, TypeOK
    <3> QED
      BY <3>2
  <2>4. CASE UNCHANGED <<phase, copies>>
    BY <1>1, <2>4
  <2> QED
    BY <1>3, <2>1, <2>2, <2>3, <2>4, WorkerShape
<1>4. CASE Crash
  BY <1>1, <1>4 DEF Crash, rowVars
<1>5. CASE ~ (\E w \in Workers : ClaimStep(w) \/ WorkerStep(w)) /\ ~ Crash
  <2>1. copies' = copies
    BY <1>5, OtherShape
  <2>2. ASSUME NEW i \in Id, phase[i] = "new", phase' = [phase EXCEPT ![i] = "queued"]
        PROVE  Promise!Queue(i)
    BY <2>1, <2>2
       DEF Promise!Queue, Fate, FateInv, NoticesHanded, StoreInv, TypeOK
  <2>3. ASSUME NEW i \in Id, phase[i] = "queued", phase' = [phase EXCEPT ![i] = "removed"]
        PROVE  Promise!Withdraw(i) \/ Fate' = Fate
    BY <2>1, <2>3
       DEF Promise!Withdraw, Fate, FateInv, StoreInv, TypeOK
  <2> QED
    BY <1>1, <1>5, <2>1, <2>2, <2>3, OtherShape DEF Promise!Next
<1> QED
  BY <1>2, <1>3, <1>4, <1>5

LEMMA FateInvAlways ==
    ASSUME NoticesAlone
    PROVE  Spec => []FateInv
<1>1. Init => FateInv
  BY StoreInvInit, HandedInit DEF FateInv
<1>2. FateInv /\ [Next]_storeVars => FateInv'
  BY StoreInvNext, HandedNext DEF FateInv
<1> QED
  BY <1>1, <1>2, PTL DEF Spec

\* With notices that travel alone the queue is an outbox: every message of a
\* user is delivered at most once, all of a prompt or none of it, and one that
\* left the queue was delivered or removed.  No crash and no race breaks this.
THEOREM QueueKeepsPromise ==
    ASSUME NoticesAlone
    PROVE  Spec => KeepsPromise
<1>1. Init => Promise!Init
  BY DEF Init, Promise!Init, Fate
<1>2. FateInv /\ [Next]_storeVars => [Promise!Next]_Fate
  BY FateStep
<1> QED
  BY <1>1, <1>2, FateInvAlways, PTL DEF Spec, KeepsPromise, Promise!Spec
=============================================================================
