------------------------- MODULE EventDeliveryProofs -------------------------
(***************************************************************************)
(* What EventDelivery guarantees for every number of events and of lost    *)
(* requests, and whichever of the two sides dies: the log has no gaps, the *)
(* daemon forgets nothing the server has not seen to, and no late or       *)
(* repeated batch revives a finished run.                                  *)
(*                                                                         *)
(* The first two are not inductive: while a batch is posted, the sink      *)
(* forgets its events later than the server has them, and a request given  *)
(* up may be handled long after its successors.  The invariant adds what   *)
(* the cursor, the answer and each stray request say of the events before  *)
(* them.                                                                   *)
(* The status of the thread plays no part in it.  It is computed by a      *)
(* recursive function over the batch; that this function exists, and stays *)
(* among the states of a thread, is proved from the least place where it   *)
(* would not; so is why it ends in active, which the third rests on.       *)
(***************************************************************************)
EXTENDS EventDelivery, WellFoundedInduction, TLAPS

\* All events up to a place are seen to.
SeenUpTo(k) == \A n \in 1..k : SeenTo(n)

DeliveryInv ==
    /\ Shape
    /\ SeenUpTo(sent)
    /\ answer # "none" => SeenUpTo(done)
    /\ answer = "stored" => \A e \in cuts : NextCut(e) => SeenUpTo(e)
    /\ \A r \in strays : SeenUpTo(r[1])
    /\ Gapless

\* A step that only adds: events behind the old ones, places to the log, to the
\* applied, to the dropped and to the lost.
Grows ==
    /\ Len(emitted) <= Len(emitted')
    /\ \A n \in Emitted : emitted'[n] = emitted[n]
    /\ stored \subseteq stored' /\ applied \subseteq applied'
    /\ dropped \subseteq dropped' /\ lost \subseteq lost'

\* An event the server has seen to stays seen to.
LEMMA SeenStays ==
    ASSUME Shape, Grows, Len(emitted') \in Nat, NEW n \in Emitted, SeenTo(n)
    PROVE  SeenTo(n)'
<1>0. Len(emitted) \in Nat
  BY DEF Shape
<1>1. n \in Emitted' /\ emitted'[n] = emitted[n]
  BY <1>0 DEF Grows, Emitted
<1>2. CASE n \in dropped \union lost
  BY <1>2 DEF Grows, SeenTo
<1>3. CASE n \notin dropped \union lost
  <2>1. n \in stored' /\ (n \in Ends' => n \in applied')
    BY <1>1, <1>3 DEF Grows, SeenTo, Ends
  <2>2. ASSUME n \in Starts', n \notin applied'
        PROVE  \E m \in Ends' : emitted'[m].turn = n /\ m \in stored'
    <3>1. PICK m \in Ends : emitted[m].turn = n /\ m \in stored
      BY <1>1, <1>3, <2>2 DEF Grows, SeenTo, Starts
    <3>2. m \in Emitted /\ m \in Emitted' /\ emitted'[m] = emitted[m]
      BY <1>0, <3>1 DEF Ends, Grows, Emitted
    <3> QED  BY <3>1, <3>2 DEF Ends, Grows
  <2> QED  BY <2>1, <2>2 DEF SeenTo
<1> QED  BY <1>2, <1>3

\* ... and so do all the events up to a place.
LEMMA SeenUpToStays ==
    ASSUME Shape, Grows, Len(emitted') \in Nat,
           NEW k \in 0..Len(emitted), SeenUpTo(k)
    PROVE  SeenUpTo(k)'
<1> SUFFICES ASSUME NEW n \in 1..k PROVE SeenTo(n)'
  BY DEF SeenUpTo
<1>1. n \in Emitted
  BY DEF Shape, Emitted
<1> QED  BY <1>1, SeenStays DEF SeenUpTo

\* A batch that is stored after everything before it was seen to leaves no gap.
LEMMA StoringLeavesNoGap ==
    ASSUME Shape, Gapless, NEW from \in 0..Len(emitted), NEW upto \in Emitted,
           from < upto, SeenUpTo(from), StoreBatch(from, upto), UNCHANGED lost
    PROVE  /\ Gapless'
           /\ stored \subseteq stored' /\ dropped \subseteq dropped'
           /\ {stored', dropped'} \subseteq SUBSET Emitted
           /\ \A n \in from + 1 .. upto : n \in stored' \union dropped'
<1> DEFINE S == from + 1 .. upto
<1>0. Len(emitted) \in Nat /\ S \subseteq Emitted
  BY DEF Shape, Emitted
<1>1. /\ stored' = stored \union (S \ Skipped(S))
      /\ dropped' = dropped \union Skipped(S)
      /\ Skipped(S) \subseteq S
  BY DEF StoreBatch, StoredWith, Skipped
<1> HIDE DEF S
<1>2. S \subseteq stored' \union dropped'
  BY <1>1
<1>3. \A m \in 1..from : m \in stored \union dropped \union lost
  BY DEF SeenUpTo, SeenTo
<1>4. ASSUME NEW n \in stored', NEW m \in 1 .. n - 1
      PROVE  m \in stored' \union dropped' \union lost'
  <2>1. CASE n \in stored
    BY <1>1, <2>1 DEF Gapless
  <2>2. CASE n \in S
    <3>1. m \in 1..from \/ m \in S
      BY <2>2, <1>0 DEF S, Emitted
    <3> QED  BY <3>1, <1>1, <1>2, <1>3
  <2> QED  BY <1>1, <2>1, <2>2
<1>5. {stored', dropped'} \subseteq SUBSET Emitted
  BY <1>0, <1>1 DEF Shape
<1> QED  BY <1>1, <1>2, <1>4, <1>5 DEF Gapless, S

\* A batch that is handled whole is seen to.
LEMMA HandledIsSeen ==
    ASSUME Shape, Gapless, NEW from \in 0..Len(emitted), NEW upto \in Emitted,
           from < upto, SeenUpTo(from), Handle(from, upto), UNCHANGED <<emitted, lost>>
    PROVE  /\ Gapless' /\ Grows /\ SeenUpTo(upto)'
           /\ {stored', applied', dropped'} \subseteq SUBSET Emitted
<1> DEFINE S == from + 1 .. upto
<1>0. Len(emitted) \in Nat /\ S \subseteq Emitted
  BY DEF Shape, Emitted
<1>1. /\ Gapless'
      /\ stored \subseteq stored' /\ dropped \subseteq dropped'
      /\ {stored', dropped'} \subseteq SUBSET Emitted
      /\ \A n \in S : n \in stored' \union dropped'
  BY StoringLeavesNoGap DEF Handle, HandleUpTo
<1>2. applied' = applied \union {n \in S : Effect(n, S) # "none"}
  BY DEF Handle, HandleUpTo
<1>3. Grows /\ applied' \subseteq Emitted
  BY <1>0, <1>1, <1>2 DEF Grows, Shape, Emitted
<1>4. Emitted' = Emitted /\ Ends' = Ends /\ Starts' = Starts
  BY DEF Emitted, Ends, Starts
<1>5. ASSUME NEW n \in S PROVE SeenTo(n)'
  <2>1. n \in Ends => n \in applied'
    BY <1>2, <1>5 DEF Ends, Effect
  <2>2. ASSUME n \in Starts, n \notin applied'
        PROVE  \E m \in Ends : emitted[m].turn = n /\ m \in stored'
    <3>1. StaleStart(n, S)
      BY <1>2, <2>2 DEF Starts, Effect
    <3> QED  BY <3>1, <1>1 DEF StaleStart
  <2> QED  BY <1>1, <1>4, <2>1, <2>2 DEF SeenTo
<1>6. ASSUME NEW n \in 1..from PROVE SeenTo(n)'
  <2>1. n \in Emitted /\ SeenTo(n)
    BY <1>0 DEF SeenUpTo, Emitted
  <2> QED  BY <2>1, <1>0, <1>3, SeenStays
<1>7. SeenUpTo(upto)'
  <2> SUFFICES ASSUME NEW n \in 1..upto PROVE SeenTo(n)'
    BY DEF SeenUpTo
  <2>1. n \in S \/ n \in 1..from
    BY DEF Emitted
  <2> QED  BY <2>1, <1>5, <1>6
<1> QED  BY <1>1, <1>3, <1>7

-----------------------------------------------------------------------------
\* The sink moves, the server does not: every promise about the log stays, and
\* the invariant holds if the new cursor only passes events that are seen to.
LEMMA SinkMoves ==
    ASSUME DeliveryInv, Shape', UNCHANGED <<emitted, stored, applied>>,
           dropped \subseteq dropped', lost \subseteq lost',
           SeenUpTo(sent)',
           answer' # "none" => SeenUpTo(done)',
           answer' # "stored",
           \A r \in strays' : r \in strays \/ SeenUpTo(r[1])
    PROVE  DeliveryInv'
<1>1. Grows /\ Len(emitted) \in Nat /\ Emitted' = Emitted
  BY DEF Grows, DeliveryInv, Shape, Emitted
<1>2. Gapless'
  BY DEF DeliveryInv, Gapless
<1>3. ASSUME NEW r \in strays' PROVE SeenUpTo(r[1])'
  <2>1. SeenUpTo(r[1]) /\ r[1] \in 0..Len(emitted)
    BY <1>3 DEF DeliveryInv, Shape
  <2> QED  BY <2>1, <1>1, SeenUpToStays DEF DeliveryInv
<1> QED  BY <1>1, <1>2, <1>3 DEF DeliveryInv

\* The end of a request whose events are seen to: the cursor passes them, and
\* the batch leaves the buffer after its last request.
LEMMA AdvanceIsSafe ==
    ASSUME Shape, Grows, Len(emitted') = Len(emitted), Emitted' = Emitted,
           SeenUpTo(sent), answer # "none",
           NEW e \in cuts, NextCut(e), SeenUpTo(e)', Advance(e)
    PROVE  /\ {sent', done'} \subseteq 0..Len(emitted) /\ cuts' \subseteq Emitted
           /\ answer' \in {"none", "pending"}
           /\ answer' = "none" <=> cuts' = {}
           /\ answer' # "none" => sent' <= done' /\ \A c \in cuts' : done' < c
           /\ SeenUpTo(sent)' /\ SeenUpTo(done)'
<1>0. Len(emitted) \in Nat /\ e \in 1..Len(emitted) /\ sent \in 0..Len(emitted)
  BY DEF Shape, Emitted
<1>1. SeenUpTo(sent)' /\ SeenUpTo(done)'
  <2>1. \A n \in 1..sent : SeenTo(n)'
    BY <1>0, SeenUpToStays DEF SeenUpTo
  <2>2. \A n \in 1..e : SeenTo(n)'
    BY DEF SeenUpTo
  <2>3. done' = e /\ (sent' = sent \/ sent' = e)
    BY DEF Advance
  <2> QED  BY <2>1, <2>2, <2>3 DEF SeenUpTo
<1>2. CASE cuts # {e}
  <2>1. done' = e /\ cuts' = cuts \ {e} /\ answer' = "pending" /\ sent' = sent
    BY <1>2 DEF Advance
  <2>2. sent <= done /\ done < e /\ \A c \in cuts : c \in Nat /\ e <= c
    BY <1>0 DEF Shape, NextCut, Emitted
  <2> QED  BY <1>0, <1>1, <1>2, <2>1, <2>2 DEF Shape, Emitted
<1>3. CASE cuts = {e}
  <2>1. done' = e /\ sent' = e
        /\ \/ open /\ e < Len(emitted) /\ cuts' = {Len(emitted)} /\ answer' = "pending"
           \/ cuts' = {} /\ answer' = "none"
    BY <1>3 DEF Advance
  <2> QED  BY <1>0, <1>1, <2>1 DEF Emitted
<1> QED  BY <1>2, <1>3

\* Nothing was emitted yet.
LEMMA DeliveryInit == Init => DeliveryInv
<1> SUFFICES ASSUME Init PROVE DeliveryInv
  OBVIOUS
<1>1. emitted = <<>> /\ Len(emitted) = 0 /\ sent = 0
  BY DEF Init
<1>2. Shape
  <2>1. \A E : <<>> \in Seq(E)
    OBVIOUS
  <2>2. emitted \in Seq([kind : {"started", "completed", "failed"} \union Extras, turn : Nat])
    BY <1>1, <2>1
  <2>3. {sent, done} \subseteq 0..Len(emitted) /\ cuts \subseteq Emitted
        /\ {stored, applied, dropped, lost} \subseteq SUBSET Emitted
    BY <1>1 DEF Init
  <2> QED  BY <2>2, <2>3 DEF Init, Shape
<1>3. SeenUpTo(sent) /\ Gapless
  BY <1>1 DEF Init, SeenUpTo, Gapless
<1> QED  BY <1>2, <1>3 DEF Init, DeliveryInv

\* The run: what is emitted comes behind everything else.
LEMMA EmitStep ==
    ASSUME DeliveryInv, NEW kind \in {"started", "completed", "failed"} \union Extras,
           NEW turn \in Nat, Emit(kind, turn),
           running' \in Nat, work' \in BOOLEAN
    PROVE  DeliveryInv'
<1> DEFINE E == [kind : {"started", "completed", "failed"} \union Extras, turn : Nat]
<1> DEFINE new == [kind |-> kind, turn |-> turn]
<1>1. emitted \in Seq(E) /\ new \in E /\ Len(emitted) \in Nat
  BY DEF DeliveryInv, Shape
<1>2. emitted' = Append(emitted, new)
      /\ UNCHANGED <<open, sent, done, cuts, answer, strays,
                     stored, applied, status, dropped, lost, died>>
  BY DEF Emit, sink, server
<1> HIDE DEF E, new
<1>3. emitted' \in Seq(E) /\ Len(emitted') = Len(emitted) + 1
      /\ \A n \in 1..Len(emitted) : emitted'[n] = emitted[n]
  BY <1>1, <1>2
<1>4. Emitted \subseteq Emitted' /\ Grows
  BY <1>1, <1>2, <1>3 DEF Grows, Emitted
<1>5. Shape'
  BY <1>1, <1>2, <1>3, <1>4 DEF DeliveryInv, Shape, Emitted, E
<1>6. \A k \in 0..Len(emitted) : SeenUpTo(k) => SeenUpTo(k)'
  BY <1>1, <1>3, <1>4, SeenUpToStays DEF DeliveryInv
<1>7. \A e \in cuts : e \in 0..Len(emitted) /\ (NextCut(e)' <=> NextCut(e))
  BY <1>1, <1>2 DEF DeliveryInv, Shape, Emitted, NextCut
<1>8. \A k : SeenUpTo(k)' <=> \A n \in 1..k : SeenTo(n)'
  BY DEF SeenUpTo
<1>9. Gapless'
  BY <1>2 DEF DeliveryInv, Gapless
<1>10. SeenUpTo(sent)' /\ (answer' # "none" => SeenUpTo(done)')
  BY <1>2, <1>6, <1>8 DEF DeliveryInv, Shape
<1>11. answer' = "stored" => \A e \in cuts' : NextCut(e)' => SeenUpTo(e)'
  BY <1>2, <1>6, <1>7, <1>8 DEF DeliveryInv
<1>12. \A r \in strays' : SeenUpTo(r[1])'
  BY <1>2, <1>6, <1>8 DEF DeliveryInv, Shape
<1> QED  BY <1>5, <1>9, <1>10, <1>11, <1>12 DEF DeliveryInv

\* The server stores a batch, perhaps only that: the log and what follows from it.
LEMMA ServerKeepsInv ==
    ASSUME DeliveryInv, Grows, Gapless', UNCHANGED <<emitted, lost>>,
           {stored', applied', dropped'} \subseteq SUBSET Emitted,
           UNCHANGED <<running, work, open, died>>,
           strays' \subseteq strays, sent' = sent \/ (sent' = done /\ answer # "none"), done' = done,
           \/ answer' = "none" /\ cuts' = {}
           \/ UNCHANGED <<sent, cuts>> /\ (answer' = answer \/ (answer = "pending" /\ answer' = "stored")),
           answer' = "stored" /\ answer # "stored" =>
               \A e \in cuts : NextCut(e) => SeenUpTo(e)'
    PROVE  DeliveryInv'
<1>1. Emitted' = Emitted /\ Len(emitted') = Len(emitted) /\ Len(emitted) \in Nat
  BY DEF Emitted, DeliveryInv, Shape
<1>2. \A k \in 0..Len(emitted) : SeenUpTo(k) => \A n \in 1..k : SeenTo(n)'
  BY <1>1, SeenUpToStays DEF DeliveryInv, SeenUpTo
<1>3. \A k : SeenUpTo(k)' <=> \A n \in 1..k : SeenTo(n)'
  BY DEF SeenUpTo
<1>4. Shape'
  BY <1>1 DEF DeliveryInv, Shape
<1>5. SeenUpTo(sent)'
  BY <1>2 DEF DeliveryInv, Shape, SeenUpTo
<1>6. answer' # "none" => SeenUpTo(done)'
  BY <1>2 DEF DeliveryInv, Shape, SeenUpTo
<1>7. answer' = "stored" => \A e \in cuts' : NextCut(e)' => SeenUpTo(e)'
  <2> SUFFICES ASSUME answer' = "stored", NEW e \in cuts', NextCut(e)' PROVE SeenUpTo(e)'
    OBVIOUS
  <2>1. cuts' = cuts
    OBVIOUS
  <2>2. NextCut(e) /\ e \in 0..Len(emitted)
    BY <1>1, <2>1 DEF NextCut, DeliveryInv, Shape, Emitted
  <2> QED  BY <2>1, <2>2, <1>2, <1>3 DEF DeliveryInv
<1>8. \A r \in strays' : SeenUpTo(r[1])'
  BY <1>2, <1>3 DEF DeliveryInv, Shape
<1> QED  BY <1>4, <1>5, <1>6, <1>7, <1>8 DEF DeliveryInv

\* Nothing an event's fate depends on has changed.
LEMMA FatesStay ==
    ASSUME UNCHANGED <<emitted, stored, applied, dropped, lost>>
    PROVE  \A k : SeenUpTo(k)' <=> SeenUpTo(k)
BY DEF SeenUpTo, SeenTo, Ends, Starts, Emitted

-----------------------------------------------------------------------------
\* Every action of the run, the sink, the server and the network keeps the
\* invariant.
LEMMA DeliveryStep == DeliveryInv /\ [Next]_vars => DeliveryInv'
<1> SUFFICES ASSUME DeliveryInv, [Next]_vars PROVE DeliveryInv'
  OBVIOUS
<1> USE DEF DeliveryInv
<1>0. Len(emitted) \in Nat /\ sent \in 0..Len(emitted) /\ done \in 0..Len(emitted)
      /\ running \in Nat
  BY DEF Shape
<1>1. CASE Request
  <2>1. UNCHANGED <<emitted, stored, applied, dropped, lost, sent, done, cuts, answer,
                    strays, running, open, died>> /\ work' = TRUE
    BY <1>1 DEF Request, sink
  <2>2. Shape'
    BY <2>1 DEF Shape, Emitted
  <2>3. \A e : NextCut(e)' <=> NextCut(e)
    BY <2>1 DEF NextCut
  <2> QED  BY <2>1, <2>2, <2>3, FatesStay DEF Gapless
<1>2. CASE StartTurn
  <2>1. Emit("started", Len(emitted) + 1) /\ running' = Len(emitted) + 1 /\ work' = FALSE
    BY <1>2 DEF StartTurn
  <2>2. running' \in Nat /\ Len(emitted) + 1 \in Nat
    BY <1>0, <2>1
  <2>3. work' \in BOOLEAN
    BY <2>1, Zenon
  <2> QED  BY <2>1, <2>2, <2>3, EmitStep
<1>3. CASE Progress
  <2>1. PICK kind \in Extras : Emit(kind, running)
    BY <1>3 DEF Progress
  <2>2. running' \in Nat /\ work' \in BOOLEAN
    BY <1>0, <1>3 DEF Progress, Shape
  <2> QED  BY <1>0, <2>1, <2>2, EmitStep
<1>4. CASE EndTurn
  <2>1. PICK kind \in {"completed", "failed"} : Emit(kind, running)
    BY <1>4 DEF EndTurn
  <2>2. running' \in Nat /\ work' \in BOOLEAN
    BY <1>0, <1>4 DEF EndTurn, Shape
  <2> QED  BY <1>0, <2>1, <2>2, EmitStep
<1>5. CASE StartDrain
  <2>1. UNCHANGED <<emitted, stored, applied, dropped, lost, work, running, open, died,
                    strays, sent>>
        /\ done' = sent /\ cuts' = {Len(emitted)} /\ answer' = "pending"
        /\ sent < Len(emitted)
    BY <1>5 DEF StartDrain, provider, server
  <2>2. Shape'
    BY <1>0, <2>1 DEF Shape, Emitted
  <2> QED  BY <2>1, <2>2, FatesStay, SinkMoves
<1>6. CASE Accept
  <2>1. PICK e \in cuts : NextCut(e) /\ Handle(done, e)
    BY <1>6 DEF Accept
  <2>2. answer = "pending" /\ answer' = "stored"
        /\ UNCHANGED <<emitted, work, running, open, sent, done, cuts, strays, lost, died>>
    BY <1>6 DEF Accept, provider
  <2>3. e \in Emitted /\ done < e /\ SeenUpTo(done)
    BY <2>2 DEF Shape
  <2>4. /\ Gapless' /\ Grows /\ SeenUpTo(e)'
        /\ {stored', applied', dropped'} \subseteq SUBSET Emitted
    BY <1>0, <2>1, <2>2, <2>3, HandledIsSeen
  <2>5. \A c \in cuts : NextCut(c) => c = e
    BY <2>1, <2>3 DEF NextCut, Shape, Emitted
  <2> QED  BY <2>2, <2>4, <2>5, ServerKeepsInv
<1>7. CASE Refuse
  <2>1. UNCHANGED <<emitted, stored, applied, dropped, lost, work, running, open, died,
                    strays, sent, done, cuts>>
        /\ answer = "pending" /\ answer' = "refused"
    BY <1>7 DEF Refuse, provider, server
  <2>2. Shape'
    BY <2>1 DEF Shape, Emitted
  <2> QED  BY <2>1, <2>2, FatesStay, SinkMoves
<1>8. CASE Delivered
  <2>1. PICK e \in cuts : NextCut(e) /\ Advance(e)
    BY <1>8 DEF Delivered
  <2>2. answer = "stored"
        /\ UNCHANGED <<emitted, stored, applied, dropped, lost, work, running, open, died, strays>>
    BY <1>8 DEF Delivered, provider, server
  <2>3. Emitted' = Emitted /\ Grows /\ SeenUpTo(e)'
    BY <1>0, <2>1, <2>2, FatesStay DEF Emitted, Grows
  <2>4. /\ {sent', done'} \subseteq 0..Len(emitted) /\ cuts' \subseteq Emitted
        /\ answer' \in {"none", "pending"}
        /\ answer' = "none" <=> cuts' = {}
        /\ answer' # "none" => sent' <= done' /\ \A c \in cuts' : done' < c
        /\ SeenUpTo(sent)' /\ SeenUpTo(done)'
    BY <2>1, <2>2, <2>3, AdvanceIsSafe
  <2>5. Shape'
    BY <2>2, <2>3, <2>4 DEF Shape
  <2> QED  BY <2>2, <2>4, <2>5, SinkMoves
<1>9. CASE Drop
  <2>1. PICK e \in cuts : NextCut(e) /\ e = done + 1 /\ dropped' = dropped \union {e} /\ Advance(e)
    BY <1>9 DEF Drop
  <2>2. answer = "refused"
        /\ UNCHANGED <<emitted, stored, applied, lost, work, running, open, died, strays>>
    BY <1>9 DEF Drop, provider, server
  <2>3. Emitted' = Emitted /\ Grows /\ e \in Emitted
    BY <1>0, <2>1, <2>2 DEF Emitted, Grows, Shape
  <2>4. SeenUpTo(e)'
    <3> SUFFICES ASSUME NEW n \in 1..e PROVE SeenTo(n)'
      BY DEF SeenUpTo
    <3>1. CASE n = e
      BY <2>1, <3>1 DEF SeenTo
    <3>2. CASE n # e
      <4>1. n \in 1..done
        BY <1>0, <2>1, <3>2
      <4>2. n \in Emitted /\ SeenTo(n)
        BY <1>0, <2>2, <4>1 DEF SeenUpTo, Emitted
      <4> QED  BY <1>0, <2>2, <2>3, <4>2, SeenStays
    <3> QED  BY <3>1, <3>2
  <2>5. /\ {sent', done'} \subseteq 0..Len(emitted) /\ cuts' \subseteq Emitted
        /\ answer' \in {"none", "pending"}
        /\ answer' = "none" <=> cuts' = {}
        /\ answer' # "none" => sent' <= done' /\ \A c \in cuts' : done' < c
        /\ SeenUpTo(sent)' /\ SeenUpTo(done)'
    BY <2>1, <2>2, <2>3, <2>4, AdvanceIsSafe
  <2>6. Shape'
    BY <2>1, <2>2, <2>3, <2>5 DEF Shape
  <2> QED  BY <2>1, <2>2, <2>5, <2>6, SinkMoves
<1>10. CASE Bisect
  <2>1. PICK e \in cuts : /\ NextCut(e) /\ e > done + 1
                          /\ cuts' = cuts \union {done + (e - done) \div 2}
    BY <1>10 DEF Bisect
  <2>2. answer = "refused" /\ answer' = "pending"
        /\ UNCHANGED <<emitted, stored, applied, dropped, lost, work, running, open, died,
                       strays, sent, done>>
    BY <1>10 DEF Bisect, provider, server
  <2>3. e \in 1..Len(emitted)
    BY <2>1 DEF Shape, Emitted
  <2>4. done + (e - done) \div 2 \in done + 1 .. Len(emitted)
    BY <1>0, <2>1, <2>3
  <2>5. Shape'
    BY <1>0, <2>1, <2>2, <2>4 DEF Shape, Emitted
  <2> QED  BY <2>2, <2>5, FatesStay, SinkMoves
<1>11. CASE GiveUp
  <2>1. UNCHANGED <<emitted, stored, applied, dropped, lost, work, running, open, died, done>>
        /\ answer # "none" /\ sent' = done /\ cuts' = {} /\ answer' = "none"
    BY <1>11 DEF GiveUp, EndDrain, provider, server
  <2>2. \A r \in strays' : r \in strays \/ \E e \in cuts : r = <<done, e>>
    BY <1>11 DEF GiveUp, Stray
  <2>3. \A r \in strays' : r \in strays \/ (r[1] = done /\ r[2] \in cuts)
    BY <2>2
  <2>4. Shape'
    BY <1>0, <2>1, <2>3 DEF Shape, Emitted
  <2>5. \A r \in strays' : r \in strays \/ SeenUpTo(r[1])
    BY <2>1, <2>3
  <2>6. SeenUpTo(sent)'
    BY <2>1, FatesStay DEF SeenUpTo
  <2> QED  BY <2>1, <2>4, <2>5, <2>6, SinkMoves
<1>12. CASE StrayHandled
  <2>1. PICK r \in strays : /\ strays' = strays \ {r}
                            /\ \/ Handle(r[1], r[2])
                               \/ UNCHANGED <<server, dropped>>
    BY <1>12 DEF StrayHandled
  <2>2. UNCHANGED <<emitted, work, running, open, sent, done, cuts, answer, lost, died>>
    BY <1>12 DEF StrayHandled, provider, sink
  <2>3. r[1] \in 0..Len(emitted) /\ r[2] \in Emitted /\ r[1] < r[2] /\ SeenUpTo(r[1])
    BY <2>1 DEF Shape
  <2>4. CASE Handle(r[1], r[2])
    <3>1. /\ Gapless' /\ Grows
          /\ {stored', applied', dropped'} \subseteq SUBSET Emitted
      BY <2>2, <2>3, <2>4, HandledIsSeen
    <3> QED  BY <2>1, <2>2, <3>1, ServerKeepsInv
  <2>5. CASE UNCHANGED <<server, dropped>>
    <3>1. Gapless' /\ Grows /\ {stored', applied', dropped'} \subseteq SUBSET Emitted
      BY <1>0, <2>2, <2>5 DEF server, Gapless, Grows, Shape
    <3> QED  BY <2>1, <2>2, <3>1, ServerKeepsInv
  <2> QED  BY <2>1, <2>4, <2>5
<1>13. CASE SessionChanges
  <2>1. UNCHANGED <<emitted, stored, applied, dropped, lost, work, running, sent, done, cuts,
                    answer, strays, died>> /\ open' = ~ open
    BY <1>13 DEF SessionChanges, provider, sink, server
  <2>2. open' \in BOOLEAN
    BY <2>1 DEF Shape
  <2>3. Shape'
    BY <2>1, <2>2 DEF Shape, Emitted
  <2>4. \A e : NextCut(e)' <=> NextCut(e)
    BY <2>1 DEF NextCut
  <2> QED  BY <2>1, <2>3, <2>4, FatesStay DEF Gapless
<1>14. CASE ServerDies
  <2>1. UNCHANGED <<emitted, work, running, open, lost, died>> /\ strays' = {}
    BY <1>14 DEF ServerDies, provider
  <2>2. done' = done
        /\ \/ answer = "none" /\ UNCHANGED <<sent, cuts, answer>>
           \/ answer # "none" /\ sent' = done /\ cuts' = {} /\ answer' = "none"
    BY <1>14 DEF ServerDies, EndDrain, sink
  <2>3. /\ Gapless' /\ Grows
        /\ {stored', applied', dropped'} \subseteq SUBSET Emitted
    <3>1. CASE UNCHANGED <<server, dropped>>
      BY <1>0, <2>1, <3>1 DEF server, Gapless, Grows, Shape
    <3>2. ASSUME answer = "pending", NEW e \in cuts, NextCut(e),
                 NEW m \in done .. e - 1, HandleUpTo(m, done, e)
          PROVE  /\ Gapless' /\ Grows
                 /\ {stored', applied', dropped'} \subseteq SUBSET Emitted
      <4>1. e \in Emitted /\ done < e /\ SeenUpTo(done)
        BY <3>2 DEF Shape
      <4>2. /\ Gapless' /\ stored \subseteq stored' /\ dropped \subseteq dropped'
            /\ {stored', dropped'} \subseteq SUBSET Emitted
        BY <1>0, <2>1, <3>2, <4>1, StoringLeavesNoGap DEF HandleUpTo
      <4>3. applied \subseteq applied' /\ applied' \subseteq applied \union (done + 1 .. m)
        BY <3>2 DEF HandleUpTo
      <4>4. applied' \subseteq Emitted
        BY <1>0, <4>1, <4>3 DEF Shape, Emitted
      <4> QED  BY <1>0, <2>1, <4>2, <4>3, <4>4 DEF Grows, Shape
    <3> QED  BY <1>14, <3>1, <3>2 DEF ServerDies
  <2> QED  BY <2>1, <2>2, <2>3, ServerKeepsInv
<1>15. CASE DaemonDies
  <2>1. UNCHANGED <<emitted, stored, applied, open, dropped, done>>
        /\ lost' = lost \union (sent + 1 .. Len(emitted))
        /\ sent' = Len(emitted) /\ cuts' = {} /\ answer' = "none"
        /\ work' = FALSE /\ running' = 0 /\ died' = TRUE
    BY <1>15 DEF DaemonDies, EndDrain, server
  <2>2. \A r \in strays' : r \in strays
                           \/ (answer = "pending" /\ \E e \in cuts : r = <<done, e>>)
    BY <1>15 DEF DaemonDies, Stray
  <2>3. \A r \in strays' : r \in strays
                           \/ (answer = "pending" /\ r[1] = done /\ r[2] \in cuts)
    BY <2>2
  <2>4. Shape'
    <3>1. {work', open', died'} \subseteq BOOLEAN
      BY <2>1 DEF Shape
    <3>2. lost' \subseteq Emitted /\ Emitted' = Emitted
      BY <1>0, <2>1 DEF Shape, Emitted
    <3>3. \A r \in strays' : r[1] \in 0..Len(emitted) /\ r[2] \in Emitted /\ r[1] < r[2]
      BY <1>0, <2>3 DEF Shape
    <3> QED  BY <1>0, <2>1, <3>1, <3>2, <3>3 DEF Shape
  <2>5. \A r \in strays' : r \in strays \/ SeenUpTo(r[1])
    BY <2>3
  <2>6. SeenUpTo(sent)'
    <3> SUFFICES ASSUME NEW n \in 1..Len(emitted) PROVE SeenTo(n)'
      BY <2>1 DEF SeenUpTo
    <3>1. CASE n <= sent
      <4>1. n \in Emitted /\ SeenTo(n)
        BY <1>0, <3>1 DEF SeenUpTo, Emitted
      <4>2. Grows /\ Len(emitted') \in Nat
        BY <1>0, <2>1 DEF Grows
      <4> QED  BY <4>1, <4>2, SeenStays
    <3>2. CASE n > sent
      BY <1>0, <2>1, <3>2 DEF SeenTo
    <3> QED  BY <1>0, <3>1, <3>2
  <2> QED  BY <2>1, <2>4, <2>5, <2>6, SinkMoves
<1>16. CASE UNCHANGED vars
  <2>1. UNCHANGED <<emitted, stored, applied, dropped, lost, work, running, open, sent, done,
                    cuts, answer, strays, died>>
    BY <1>16 DEF vars, provider, sink, server
  <2>2. Shape' /\ Gapless'
    BY <2>1 DEF Shape, Emitted, Gapless
  <2>3. \A e : NextCut(e)' <=> NextCut(e)
    BY <2>1 DEF NextCut
  <2> QED  BY <2>1, <2>2, <2>3, FatesStay
<1> QED
  BY <1>1, <1>2, <1>3, <1>4, <1>5, <1>6, <1>7, <1>8, <1>9, <1>10, <1>11, <1>12, <1>13,
     <1>14, <1>15, <1>16 DEF Next

\* What the sink and the server keep up together.
LEMMA DeliveryInvHolds == Spec => []DeliveryInv
BY DeliveryInit, DeliveryStep, PTL DEF Spec

\* No event overtakes another on its way into the log, however requests are
\* bisected, retried and delayed.
THEOREM LogHasNoGaps == Spec => []Gapless
<1>1. DeliveryInv => Gapless
  BY DEF DeliveryInv
<1> QED  BY <1>1, DeliveryInvHolds, PTL

\* The sink forgets only what the server has stored and applied, will never
\* accept, or what died with the daemon.
THEOREM SinkForgetsNothing == Spec => []NothingForgotten
<1>1. DeliveryInv => NothingForgotten
  BY DEF DeliveryInv, SeenUpTo, NothingForgotten
<1> QED  BY <1>1, DeliveryInvHolds, PTL

-----------------------------------------------------------------------------
(* The status.                                                             *)

LEMMA LeastPlace ==
    ASSUME NEW T, T \subseteq Nat, T # {}
    PROVE  \E x \in T : \A y \in T : x <= y
<1>1. PICK x \in T : \A y \in T : ~ (<<y, x>> \in OpToRel(<, Nat))
  BY NatLessThanWellFounded, WFMin
<1>2. \A y \in T : ~ (y < x)
  BY <1>1 DEF OpToRel
<1> QED  BY <1>2

\* An event leads from a state of a thread to a state of a thread.
LEMMA AfterIsStatus ==
    ASSUME NEW st \in ThreadStatus, NEW event
    PROVE  After(st, event) \in ThreadStatus
<1>1. \A t \in Lifecycle : t[3] \in ThreadStatus
  BY DEF Lifecycle, ThreadStatus
<1>2. CASE Applies(st, event)
  <2>1. \E t \in Lifecycle : t[1] = st /\ t[2] = event
    BY <1>2 DEF Applies
  <2>2. DEFINE t == CHOOSE u \in Lifecycle : u[1] = st /\ u[2] = event
  <2>3. t \in Lifecycle
    BY <2>1
  <2> QED  BY <1>1, <1>2, <2>3 DEF After
<1>3. CASE ~ Applies(st, event)
  BY <1>3 DEF After
<1> QED  BY <1>2, <1>3

\* The status after each event of a batch, as StatusAfter defines it.
Follows(f, from, upto, m) ==
    /\ f \in [from .. upto -> ThreadStatus]
    /\ f[from] = status
    /\ \A n \in from + 1 .. m : f[n] = After(f[n - 1], Effect(n, from + 1 .. upto))

\* There is such a function up to every event of the batch.
LEMMA StatusExists ==
    ASSUME status \in ThreadStatus, NEW from \in Nat, NEW upto \in Nat, from <= upto
    PROVE  \E f : Follows(f, from, upto, upto)
<1> DEFINE T == {m \in from .. upto : ~ \E f : Follows(f, from, upto, m)}
<1> SUFFICES ASSUME T # {} PROVE FALSE
  OBVIOUS
<1>1. PICK m \in T : \A y \in T : m <= y
  <2>1. T \subseteq Nat
    OBVIOUS
  <2> HIDE DEF T
  <2> QED  BY <2>1, LeastPlace
<1>2. CASE m = from
  <2> DEFINE f == [n \in from .. upto |-> status]
  <2>1. Follows(f, from, upto, m)
    BY <1>2 DEF Follows
  <2> QED  BY <2>1
<1>3. CASE m # from
  <2>1. m - 1 \in from .. upto /\ m \in from + 1 .. upto /\ m - 1 \notin T
    BY <1>1, <1>3
  <2>2. PICK f : Follows(f, from, upto, m - 1)
    BY <2>1
  <2> DEFINE v == After(f[m - 1], Effect(m, from + 1 .. upto))
             g == [f EXCEPT ![m] = v]
  <2>3. v \in ThreadStatus
    BY <2>1, <2>2, AfterIsStatus DEF Follows
  <2> HIDE DEF v
  <2>4. g \in [from .. upto -> ThreadStatus] /\ g[m] = v
    BY <2>1, <2>2, <2>3 DEF Follows
  <2>5. \A n \in from .. upto : n # m => g[n] = f[n]
    BY <2>2 DEF Follows
  <2>6. g[from] = status /\ g[m - 1] = f[m - 1]
    BY <1>3, <2>1, <2>2, <2>5 DEF Follows
  <2>7. \A n \in from + 1 .. m : g[n] = After(g[n - 1], Effect(n, from + 1 .. upto))
    <3> SUFFICES ASSUME NEW n \in from + 1 .. m
                 PROVE  g[n] = After(g[n - 1], Effect(n, from + 1 .. upto))
      OBVIOUS
    <3>1. CASE n = m
      BY <2>4, <2>6, <3>1 DEF v
    <3>2. CASE n # m
      <4>1. n \in from + 1 .. m - 1 /\ n - 1 \in from .. upto /\ n - 1 # m /\ n \in from .. upto
        BY <2>1, <3>2
      <4>2. g[n] = f[n] /\ g[n - 1] = f[n - 1]
        BY <2>5, <3>2, <4>1
      <4> QED  BY <2>2, <4>1, <4>2 DEF Follows
    <3> QED  BY <3>1, <3>2
  <2>8. Follows(g, from, upto, m)
    BY <2>4, <2>6, <2>7 DEF Follows
  <2> QED  BY <1>1, <2>8
<1> QED  BY <1>2, <1>3

\* StatusAfter, one event at a time.
LEMMA StatusAfterUnfolds ==
    ASSUME status \in ThreadStatus, NEW from \in Nat, NEW upto \in Nat, from <= upto
    PROVE  /\ StatusAfter(from, upto)[from] = status
           /\ \A n \in from + 1 .. upto :
                 StatusAfter(from, upto)[n]
                 = After(StatusAfter(from, upto)[n - 1], Effect(n, from + 1 .. upto))
<1> DEFINE Def(f) == f = [n \in from .. upto |->
                            IF n = from THEN status
                            ELSE After(f[n - 1], Effect(n, from + 1 .. upto))]
           after == CHOOSE f : Def(f)
<1>1. StatusAfter(from, upto) = after
  BY DEF StatusAfter
<1>2. Def(after)
  <2>1. PICK f : Follows(f, from, upto, upto)
    BY StatusExists
  <2>2. Def(f)
    BY <2>1 DEF Follows
  <2> QED  BY <2>2
<1> HIDE DEF after
<1> QED  BY <1>1, <1>2

\* The status after each event of a batch is a state of a thread.
LEMMA StatusAfterIsStatus ==
    ASSUME status \in ThreadStatus, NEW from \in Nat, NEW upto \in Nat, NEW m \in from .. upto
    PROVE  StatusAfter(from, upto)[m] \in ThreadStatus
<1> DEFINE after == StatusAfter(from, upto)
           T == {n \in from .. upto : after[n] \notin ThreadStatus}
<1>1. /\ after[from] = status
      /\ \A n \in from + 1 .. upto : after[n] = After(after[n - 1], Effect(n, from + 1 .. upto))
  BY StatusAfterUnfolds
<1> HIDE DEF after
<1> SUFFICES ASSUME T # {} PROVE FALSE
  BY DEF after
<1>2. PICK n \in T : \A y \in T : n <= y
  <2>1. T \subseteq Nat
    OBVIOUS
  <2> HIDE DEF T
  <2> QED  BY <2>1, LeastPlace
<1>3. CASE n = from
  BY <1>1, <1>2, <1>3
<1>4. CASE n # from
  <2>1. n - 1 \in from .. upto /\ n - 1 \notin T /\ n \in from + 1 .. upto
    BY <1>2, <1>4
  <2>2. after[n - 1] \in ThreadStatus
    BY <2>1
  <2>3. after[n] = After(after[n - 1], Effect(n, from + 1 .. upto))
    BY <1>1, <2>1
  <2> QED  BY <1>2, <2>2, <2>3, AfterIsStatus
<1> QED  BY <1>3, <1>4

LEMMA StatusStep ==
    ASSUME Shape, status \in ThreadStatus, [Next]_vars
    PROVE  status' \in ThreadStatus
<1>0. Len(emitted) \in Nat
  BY DEF Shape
<1>1. ASSUME NEW from \in 0 .. Len(emitted), NEW upto \in Emitted, from < upto,
             NEW m \in from .. upto, HandleUpTo(m, from, upto)
      PROVE  status' \in ThreadStatus
  BY <1>0, <1>1, StatusAfterIsStatus DEF HandleUpTo, Emitted
<1>2. CASE Request
  BY <1>2, AfterIsStatus DEF Request
<1>3. CASE Accept
  <2>1. PICK e \in cuts : Handle(done, e)
    BY <1>3 DEF Accept
  <2>2. e \in Emitted /\ done \in 0 .. Len(emitted) /\ done < e
    BY <1>3 DEF Accept, Shape
  <2> QED  BY <1>0, <1>1, <2>1, <2>2 DEF Handle, Emitted
<1>4. CASE StrayHandled
  <2>1. PICK r \in strays : Handle(r[1], r[2]) \/ UNCHANGED <<server, dropped>>
    BY <1>4 DEF StrayHandled
  <2>2. r[1] \in 0 .. Len(emitted) /\ r[2] \in Emitted /\ r[1] < r[2]
    BY DEF Shape
  <2>3. CASE Handle(r[1], r[2])
    BY <1>0, <1>1, <2>2, <2>3 DEF Handle, Emitted
  <2> QED  BY <2>1, <2>3 DEF server
<1>5. CASE ServerDies
  <2>1. CASE UNCHANGED <<server, dropped>>
    BY <2>1 DEF server
  <2>2. ASSUME answer = "pending", NEW e \in cuts, NEW m \in done .. e - 1, HandleUpTo(m, done, e)
        PROVE  status' \in ThreadStatus
    <3>1. e \in Emitted /\ done \in 0 .. Len(emitted) /\ done < e
      BY <2>2 DEF Shape
    <3>2. m \in done .. e
      BY <1>0, <3>1 DEF Emitted
    <3> QED  BY <1>1, <2>2, <3>1, <3>2
  <2> QED  BY <1>5, <2>1, <2>2 DEF ServerDies
<1>6. CASE StartTurn \/ Progress \/ EndTurn
  BY <1>6 DEF StartTurn, Progress, EndTurn, Emit, server
<1>7. CASE StartDrain \/ Refuse \/ Delivered \/ Drop \/ Bisect \/ GiveUp \/ SessionChanges \/ DaemonDies
  BY <1>7 DEF StartDrain, Refuse, Delivered, Drop, Bisect, GiveUp, SessionChanges, DaemonDies, server
<1>8. CASE UNCHANGED vars
  BY <1>8 DEF vars, server
<1> QED  BY <1>2, <1>3, <1>4, <1>5, <1>6, <1>7, <1>8 DEF Next

\* The cursors and the log stay within what was emitted, and the thread in the
\* states of the table, whatever the batches were cut into.
THEOREM DeliveryTypeCorrect == Spec => []TypeOK
<1>1. Init => status \in ThreadStatus
  BY DEF Init, ThreadStatus
<1>2. DeliveryInv => Shape
  BY DEF DeliveryInv
<1>3. Shape /\ status \in ThreadStatus /\ [Next]_vars => (status \in ThreadStatus)'
  BY StatusStep
<1>4. Shape /\ status \in ThreadStatus => TypeOK
  BY DEF TypeOK
<1> QED  BY <1>1, <1>2, <1>3, <1>4, DeliveryInvHolds, PTL DEF Spec

-----------------------------------------------------------------------------
(* A thread with nothing to do is not active.                              *)

LEMMA AfterActive ==
    ASSUME NEW st \in ThreadStatus
    PROVE  /\ After(st, "run.succeeded") # "active"
           /\ After(st, "run.failed") # "active"
           /\ After(st, "none") = st
<1>1. ASSUME NEW event, Applies(st, event)
      PROVE  \E t \in Lifecycle : t[1] = st /\ t[2] = event /\ After(st, event) = t[3]
  <2>1. \E t \in Lifecycle : t[1] = st /\ t[2] = event
    BY <1>1 DEF Applies
  <2>2. DEFINE t == CHOOSE u \in Lifecycle : u[1] = st /\ u[2] = event
  <2>3. t \in Lifecycle /\ t[1] = st /\ t[2] = event
    BY <2>1
  <2>4. After(st, event) = t[3]
    BY <1>1 DEF After
  <2> QED  BY <2>3, <2>4
<1>2. \A event : ~ Applies(st, event) => After(st, event) = st
  BY DEF After
<1>3. \A t \in Lifecycle : /\ t[2] = "run.succeeded" => t[3] = "idle"
                           /\ t[2] = "run.failed" => t[3] = "error"
                           /\ t[2] # "none"
  BY DEF Lifecycle
<1>4. Applies("active", "run.succeeded") /\ Applies("active", "run.failed")
  <2>1. /\ <<"active", "run.succeeded", "idle">> \in Lifecycle
        /\ <<"active", "run.failed", "error">> \in Lifecycle
    BY DEF Lifecycle
  <2> QED  BY <2>1 DEF Applies
<1>5. ~ Applies(st, "none")
  BY <1>3 DEF Applies
<1>6. After(st, "run.succeeded") # "active"
  BY <1>1, <1>2, <1>3, <1>4
<1>7. After(st, "run.failed") # "active"
  BY <1>1, <1>2, <1>3, <1>4
<1> QED  BY <1>2, <1>5, <1>6, <1>7

\* Why a batch leaves the thread active after its event m: it was active and no turn
\* has ended, or a turn has started that has not ended since.
Because(from, upto, m) ==
    \/ status = "active" /\ \A k \in from + 1 .. m : k \notin Ends
    \/ \E n \in from + 1 .. m : /\ n \in Starts /\ ~ StaleStart(n, from + 1 .. upto)
                                /\ \A k \in n + 1 .. m : k \notin Ends

LEMMA ActiveBecause ==
    ASSUME status \in ThreadStatus, NEW from \in Nat, NEW upto \in Nat, NEW m \in from .. upto,
           from + 1 .. upto \subseteq Emitted, StatusAfter(from, upto)[m] = "active"
    PROVE  Because(from, upto, m)
<1> DEFINE after == StatusAfter(from, upto)
           S == from + 1 .. upto
           T == {n \in from .. upto : after[n] = "active" /\ ~ Because(from, upto, n)}
<1>1. after[from] = status /\ \A n \in S : after[n] = After(after[n - 1], Effect(n, S))
  BY StatusAfterUnfolds
<1>2. \A n \in from .. upto : after[n] \in ThreadStatus
  BY StatusAfterIsStatus
<1> HIDE DEF after
<1> SUFFICES ASSUME T # {} PROVE FALSE
  BY DEF after
<1>3. PICK n \in T : \A y \in T : n <= y
  <2>1. T \subseteq Nat
    OBVIOUS
  <2> HIDE DEF T
  <2> QED  BY <2>1, LeastPlace
<1>4. CASE n = from
  BY <1>1, <1>3, <1>4 DEF Because
<1>5. CASE n # from
  <2>1. /\ n - 1 \in from .. upto /\ n - 1 \notin T /\ n \in S /\ n \in Emitted
        /\ after[n] = After(after[n - 1], Effect(n, S)) /\ after[n - 1] \in ThreadStatus
    BY <1>1, <1>2, <1>3, <1>5
  <2>2. CASE n \in Starts /\ ~ StaleStart(n, S)
    BY <1>3, <2>1, <2>2 DEF Because
  <2>3. CASE n \in Ends
    <3>1. Effect(n, S) \in {"run.succeeded", "run.failed"}
      BY <2>3 DEF Effect, Ends
    <3> QED  BY <1>3, <2>1, <3>1, AfterActive
  <2>4. CASE n \notin Ends /\ ~ (n \in Starts /\ ~ StaleStart(n, S))
    <3>1. Effect(n, S) = "none"
      BY <2>1, <2>4 DEF Effect, Ends, Starts
    <3>2. after[n - 1] = "active"
      BY <1>3, <2>1, <3>1, AfterActive
    <3>3. Because(from, upto, n - 1)
      BY <2>1, <3>2
    <3>4. CASE status = "active" /\ \A k \in from + 1 .. n - 1 : k \notin Ends
      <4>1. \A k \in from + 1 .. n : k \notin Ends
        BY <2>1, <2>4, <3>4
      <4> QED  BY <1>3, <3>4, <4>1 DEF Because
    <3>5. ASSUME NEW q \in from + 1 .. n - 1, q \in Starts, ~ StaleStart(q, S),
                 \A k \in q + 1 .. n - 1 : k \notin Ends
          PROVE  FALSE
      <4>1. q \in from + 1 .. n /\ \A k \in q + 1 .. n : k \notin Ends
        BY <2>1, <2>4, <3>5
      <4> QED  BY <1>3, <3>5, <4>1 DEF Because
    <3> QED  BY <3>3, <3>4, <3>5 DEF Because
  <2> QED  BY <2>2, <2>3, <2>4
<1> QED  BY <1>4, <1>5

\* The request at hand, or the next one, has yet to bring event n.
Ahead(n) ==
    IF answer = "none" THEN n > sent
    ELSE IF answer = "stored" THEN \A e \in cuts : NextCut(e) => n > e
    ELSE n > done

\* A turn ends once, after its start, unless it runs.
TurnsClose ==
    /\ running \in Starts \union {0}
    /\ \A n \in Starts : /\ emitted[n].turn = n
                         /\ running = n \/ \E m \in Ends : m > n /\ emitted[m].turn = n
    /\ \A n \in Ends : emitted[n].turn \in Starts /\ emitted[n].turn < n

\* No start and no end of a turn is ever given up.
TurnsKept ==
    /\ lost = {}
    /\ dropped \intersect (Starts \union Ends) = {}
    /\ answer = "refused" =>
          \A e \in cuts : NextCut(e) /\ e = done + 1 => e \notin Starts \union Ends

\* An active thread waits for a turn, runs it, or has yet to hear of an end.
ActiveHasCause ==
    status = "active" => work \/ running # 0 \/ \E n \in Ends : Ahead(n)

QuietInv == ~ died => TurnsClose /\ TurnsKept /\ ActiveHasCause

\* What is not ahead and belongs to a turn is in the log.
LEMMA TurnIsStored ==
    ASSUME DeliveryInv, TurnsKept, NEW n \in Starts \union Ends, ~ Ahead(n)
    PROVE  n \in stored
<1>1. n \in Emitted /\ Len(emitted) \in Nat
  BY DEF Starts, Ends, DeliveryInv, Shape
<1>2. SeenTo(n) => n \in stored
  BY DEF SeenTo, TurnsKept
<1>3. CASE answer = "none"
  BY <1>1, <1>2, <1>3 DEF Ahead, DeliveryInv, SeenUpTo, Shape, Emitted
<1>4. CASE answer = "stored"
  <2>1. PICK e \in cuts : NextCut(e) /\ ~ (n > e)
    BY <1>4 DEF Ahead
  <2>2. n \in 1 .. e /\ SeenUpTo(e)
    BY <1>1, <1>4, <2>1 DEF DeliveryInv, Shape, Emitted
  <2> QED  BY <1>2, <2>2 DEF SeenUpTo
<1>5. CASE answer \notin {"none", "stored"}
  BY <1>1, <1>2, <1>5 DEF Ahead, DeliveryInv, SeenUpTo, Shape, Emitted
<1> QED  BY <1>3, <1>4, <1>5

\* What is ahead is behind the delivered events.
LEMMA AheadOfDone ==
    ASSUME Shape, answer # "none", NEW n \in Ends, Ahead(n), NEW e \in cuts, NextCut(e)
    PROVE  n > done
<1>1. n \in Nat /\ e \in Nat /\ done \in Nat /\ done < e
  BY DEF Shape, Emitted, Ends
<1> QED  BY <1>1 DEF Ahead

\* A request that is posted has a first cut.
LEMMA FirstCut ==
    ASSUME Shape, answer # "none"
    PROVE  \E e \in cuts : NextCut(e)
<1>1. cuts \subseteq Nat /\ cuts # {}
  BY DEF Shape, Emitted
<1> QED  BY <1>1, LeastPlace DEF NextCut

\* The turns the server is told of stay acceptable.
LEMMA SkipsNoTurn ==
    ASSUME TurnsKept, Shape, NEW from \in Nat, NEW upto \in Emitted,
           StoreBatch(from, upto), UNCHANGED <<emitted, lost>>
    PROVE  /\ dropped' \intersect (Starts \union Ends) = {}
           /\ Starts' = Starts /\ Ends' = Ends /\ Emitted' = Emitted
<1> DEFINE S == from + 1 .. upto
<1>1. \A n \in Skipped(S) : emitted[n].kind = "snapshot"
  BY DEF Skipped, StoreBatch, Unacceptable
<1>2. \A n \in Skipped(S) : n \notin Starts \union Ends
  BY <1>1 DEF Starts, Ends
<1>3. dropped' = dropped \union Skipped(S)
  BY DEF StoreBatch
<1> HIDE DEF S
<1> QED  BY <1>2, <1>3 DEF TurnsKept, Starts, Ends, Emitted

\* Everything QuietInv speaks of but the cursor and the status stays.
Unmoved == UNCHANGED <<emitted, work, running, lost, died>>

\* The sink moves: what was ahead stays ahead.
LEMMA SinkStepIsQuiet ==
    ASSUME QuietInv, DeliveryInv, Unmoved, UNCHANGED status,
           dropped' \intersect (Starts \union Ends) = {},
           answer' = "refused" =>
               \A e \in cuts' : NextCut(e)' /\ e = done' + 1 => e \notin Starts \union Ends,
           \A n \in Ends : Ahead(n) => Ahead(n)'
    PROVE  QuietInv'
<1>1. Starts' = Starts /\ Ends' = Ends
  BY DEF Unmoved, Starts, Ends, Emitted
<1> SUFFICES ASSUME ~ died PROVE TurnsClose' /\ TurnsKept' /\ ActiveHasCause'
  BY DEF QuietInv, Unmoved
<1>2. TurnsClose'
  BY <1>1 DEF QuietInv, TurnsClose, Unmoved
<1>3. TurnsKept'
  BY <1>1 DEF QuietInv, TurnsKept, Unmoved
<1>4. ActiveHasCause'
  BY <1>1 DEF QuietInv, ActiveHasCause, Unmoved
<1> QED  BY <1>2, <1>3, <1>4

\* The server handles a batch up to event m: if the thread is active then, a turn
\* runs, or its end is after m, where it is ahead.
LEMMA HandlingIsQuiet ==
    ASSUME QuietInv, DeliveryInv, status \in ThreadStatus, Unmoved,
           NEW from \in 0 .. Len(emitted), NEW upto \in Emitted, from < upto,
           NEW m \in from .. upto, HandleUpTo(m, from, upto),
           answer' # "refused" \/ UNCHANGED <<done, cuts, answer>>,
           \A n \in Ends : n \in m + 1 .. upto => Ahead(n),
           \A n \in Ends : Ahead(n) /\ n \notin from + 1 .. m => Ahead(n)'
    PROVE  QuietInv'
<1> SUFFICES ASSUME ~ died PROVE TurnsClose' /\ TurnsKept' /\ ActiveHasCause'
  BY DEF QuietInv, Unmoved
<1> DEFINE S == from + 1 .. upto
<1>0. /\ TurnsClose /\ TurnsKept /\ ActiveHasCause /\ Shape
      /\ Len(emitted) \in Nat /\ from \in Nat /\ upto \in Nat /\ S \subseteq Emitted
      /\ m \in Nat /\ from <= m /\ m <= upto
  BY DEF QuietInv, DeliveryInv, Shape, Emitted
<1>1. /\ dropped' \intersect (Starts \union Ends) = {}
      /\ Starts' = Starts /\ Ends' = Ends /\ Emitted' = Emitted
  BY <1>0, SkipsNoTurn DEF HandleUpTo, Unmoved
<1>2. TurnsClose'
  BY <1>0, <1>1 DEF TurnsClose, Unmoved
<1>3. TurnsKept'
  BY <1>0, <1>1 DEF TurnsKept, Unmoved, NextCut
<1>4. ActiveHasCause'
  <2> SUFFICES ASSUME status' = "active", running = 0, ~ work
               PROVE  \E k \in Ends : Ahead(k)'
    BY <1>1 DEF ActiveHasCause, Unmoved
  <2>1. StatusAfter(from, upto)[m] = "active"
    BY DEF HandleUpTo
  <2>2. Because(from, upto, m)
    BY <1>0, <2>1, ActiveBecause
  <2>3. CASE status = "active" /\ \A k \in from + 1 .. m : k \notin Ends
    <3>1. PICK k \in Ends : Ahead(k)
      BY <1>0, <2>3 DEF ActiveHasCause
    <3> QED  BY <2>3, <3>1
  <2>4. ASSUME NEW n \in from + 1 .. m, n \in Starts, ~ StaleStart(n, S),
               \A k \in n + 1 .. m : k \notin Ends
        PROVE  \E k \in Ends : Ahead(k)'
    <3>1. PICK k \in Ends : k > n /\ emitted[k].turn = n
      BY <1>0, <2>4 DEF TurnsClose
    <3>2. k \in Nat /\ k > m
      BY <1>0, <2>4, <3>1 DEF Ends, Emitted
    <3>3. k \in S \/ k \notin stored
      BY <2>4, <3>1 DEF StaleStart
    <3>4. Ahead(k)
      BY <1>0, <3>2, <3>3, TurnIsStored
    <3>5. k \notin from + 1 .. m
      BY <1>0, <3>2
    <3> QED  BY <3>4, <3>5
  <2> QED  BY <2>2, <2>3, <2>4 DEF Because
<1> QED  BY <1>2, <1>3, <1>4

\* An event comes behind all others.
LEMMA EmittingIsQuiet ==
    ASSUME QuietInv, DeliveryInv, NEW kind, NEW turn, Emit(kind, turn)
    PROVE  /\ Emitted' = Emitted \union {Len(emitted) + 1}
           /\ emitted'[Len(emitted) + 1] = [kind |-> kind, turn |-> turn]
           /\ \A n \in Emitted : emitted'[n] = emitted[n]
           /\ Starts' = Starts \union {n \in {Len(emitted) + 1} : kind = "started"}
           /\ Ends' = Ends \union {n \in {Len(emitted) + 1} : kind \in {"completed", "failed"}}
           /\ \A n : Ahead(n)' <=> Ahead(n)
           /\ Ahead(Len(emitted) + 1)
           /\ ~ died => TurnsKept'
<1> DEFINE new == Len(emitted) + 1
<1>0. Len(emitted) \in Nat /\ Shape
  BY DEF DeliveryInv, Shape
<1>1. emitted' = Append(emitted, [kind |-> kind, turn |-> turn])
      /\ UNCHANGED <<sent, done, cuts, answer, status, dropped, lost, died>>
  BY DEF Emit, sink, server
<1>2. /\ Len(emitted') = new /\ emitted'[new] = [kind |-> kind, turn |-> turn]
      /\ \A n \in Emitted : emitted'[n] = emitted[n]
  BY <1>0, <1>1 DEF Emitted, Shape
<1>3. Emitted' = Emitted \union {new} /\ new \notin Emitted
  BY <1>0, <1>2 DEF Emitted
<1>4. /\ Starts' = Starts \union {n \in {new} : kind = "started"}
      /\ Ends' = Ends \union {n \in {new} : kind \in {"completed", "failed"}}
  BY <1>2, <1>3 DEF Starts, Ends
<1>5. \A e : NextCut(e)' <=> NextCut(e)
  BY <1>1 DEF NextCut
<1>6. \A n : Ahead(n)' <=> Ahead(n)
  BY <1>1, <1>5 DEF Ahead
<1>7. Ahead(new)
  <2>1. sent < new /\ done < new /\ \A e \in cuts : e < new
    BY <1>0 DEF Shape, Emitted
  <2> QED  BY <2>1 DEF Ahead
<1>8. ASSUME ~ died PROVE TurnsKept'
  <2>1. TurnsKept
    BY <1>8 DEF QuietInv
  <2>2. new \notin dropped /\ \A e \in cuts : e # new
    BY <1>0, <1>3 DEF Shape
  <2> QED  BY <1>1, <1>4, <1>5, <2>1, <2>2 DEF TurnsKept
<1> QED  BY <1>2, <1>3, <1>4, <1>6, <1>7, <1>8

\* Every action keeps it.
LEMMA QuietStep ==
    ASSUME QuietInv, DeliveryInv, status \in ThreadStatus, [Next]_vars
    PROVE  QuietInv'
<1>0. /\ Len(emitted) \in Nat /\ Shape /\ sent \in 0 .. Len(emitted) /\ done \in 0 .. Len(emitted)
      /\ cuts \subseteq Emitted /\ Emitted = 1 .. Len(emitted)
  BY DEF DeliveryInv, Shape, Emitted
<1>a. ~ died => TurnsClose /\ TurnsKept /\ ActiveHasCause
  BY DEF QuietInv
<1>b. \A n \in Ends \union Starts : n \in Nat \ {0} /\ n <= Len(emitted)
  BY <1>0 DEF Ends, Starts
<1>c. \A e, d \in cuts : NextCut(e) /\ NextCut(d) => e = d
  BY <1>0 DEF NextCut
<1>1. CASE Request
  <2>1. UNCHANGED <<emitted, running, lost, died, dropped, done, cuts, answer>> /\ work' = TRUE
    BY <1>1 DEF Request, sink
  <2>2. Starts' = Starts /\ Ends' = Ends
    BY <2>1 DEF Starts, Ends, Emitted
  <2> QED  BY <2>1, <2>2 DEF QuietInv, TurnsClose, TurnsKept, ActiveHasCause, NextCut
<1>2. CASE StartTurn
  <2>1. /\ Emit("started", Len(emitted) + 1) /\ running = 0
        /\ running' = Len(emitted) + 1 /\ work' = FALSE /\ died' = died
    BY <1>2 DEF StartTurn, Emit
  <2>2. /\ emitted'[Len(emitted) + 1].turn = Len(emitted) + 1
        /\ \A n \in Emitted : emitted'[n] = emitted[n]
        /\ Starts' = Starts \union {Len(emitted) + 1} /\ Ends' = Ends
        /\ ~ died => TurnsKept'
    <3> DEFINE new == Len(emitted) + 1
    <3>1. Emit("started", new)
      BY <2>1
    <3>2. /\ emitted'[new] = [kind |-> "started", turn |-> new]
          /\ \A n \in Emitted : emitted'[n] = emitted[n]
          /\ Starts' = Starts \union {n \in {new} : "started" = "started"}
          /\ Ends' = Ends \union {n \in {new} : "started" \in {"completed", "failed"}}
          /\ ~ died => TurnsKept'
      BY <3>1, EmittingIsQuiet
    <3> HIDE DEF new
    <3>3. emitted'[new].turn = new /\ Starts' = Starts \union {new} /\ Ends' = Ends
      BY <3>2
    <3> QED  BY <3>2, <3>3 DEF new
  <2>3. ASSUME ~ died PROVE TurnsClose'
    <3>1. \A n \in Starts : /\ emitted'[n].turn = n
                             /\ \E m \in Ends : m > n /\ emitted'[m].turn = n
      BY <1>a, <1>b, <2>1, <2>2, <2>3 DEF TurnsClose, Starts, Ends
    <3>2. \A n \in Ends : emitted'[n].turn \in Starts /\ emitted'[n].turn < n
      BY <1>a, <2>2, <2>3 DEF TurnsClose, Ends
    <3> QED  BY <2>1, <2>2, <3>1, <3>2 DEF TurnsClose
  <2>4. ActiveHasCause'
    BY <1>0, <2>1 DEF ActiveHasCause
  <2> QED  BY <2>1, <2>2, <2>3, <2>4 DEF QuietInv
<1>3. CASE Progress
  <2>1. PICK kind \in Extras : Emit(kind, running)
    BY <1>3 DEF Progress
  <2>2. kind \notin {"started", "completed", "failed"}
    BY DeliveryAssumption
  <2>3. UNCHANGED <<work, running, status, died>>
    BY <1>3, <2>1 DEF Progress, Emit, server
  <2>4. /\ \A n \in Emitted : emitted'[n] = emitted[n]
        /\ Starts' = Starts /\ Ends' = Ends
        /\ \A n : Ahead(n)' <=> Ahead(n)
        /\ ~ died => TurnsKept'
    BY <2>1, <2>2, EmittingIsQuiet
  <2>5. ~ died => TurnsClose'
    BY <1>a, <2>3, <2>4 DEF TurnsClose, Starts, Ends
  <2>6. ~ died => ActiveHasCause'
    BY <1>a, <2>3, <2>4 DEF ActiveHasCause
  <2> QED  BY <2>3, <2>4, <2>5, <2>6 DEF QuietInv
<1>4. CASE EndTurn
  <2>1. PICK kind \in {"completed", "failed"} : Emit(kind, running)
    BY <1>4 DEF EndTurn
  <2>2. running # 0 /\ running' = 0 /\ died' = died
    BY <1>4, <2>1 DEF EndTurn, Emit
  <2> DEFINE new == Len(emitted) + 1
  <2>3. /\ emitted'[new].turn = running
        /\ \A n \in Emitted : emitted'[n] = emitted[n]
        /\ Starts' = Starts /\ Ends' = Ends \union {new}
        /\ \A n : Ahead(n)' <=> Ahead(n)
        /\ Ahead(new) /\ new \in Nat
        /\ ~ died => TurnsKept'
    BY <1>0, <2>1, EmittingIsQuiet
  <2> HIDE DEF new
  <2>4. ASSUME ~ died PROVE TurnsClose'
    <3>1. TurnsClose /\ running \in Starts /\ \A n \in Starts \union Ends : n < new
      BY <1>a, <1>b, <1>0, <2>2, <2>4 DEF TurnsClose, new
    <3>2. \A n \in Starts : /\ emitted'[n].turn = n
                             /\ \E m \in Ends' : m > n /\ emitted'[m].turn = n
      <4> SUFFICES ASSUME NEW n \in Starts
                   PROVE  emitted'[n].turn = n /\ \E m \in Ends' : m > n /\ emitted'[m].turn = n
        OBVIOUS
      <4>1. emitted'[n].turn = n /\ n < new /\ n \in Nat
        BY <1>b, <2>3, <3>1 DEF TurnsClose, Starts
      <4>2. CASE running = n
        BY <2>3, <4>1, <4>2
      <4>3. CASE running # n
        <5>1. PICK m \in Ends : m > n /\ emitted[m].turn = n
          BY <3>1, <4>3 DEF TurnsClose
        <5> QED  BY <2>3, <4>1, <5>1 DEF Ends
      <4> QED  BY <4>1, <4>2, <4>3
    <3>3. \A n \in Ends' : emitted'[n].turn \in Starts /\ emitted'[n].turn < n
      BY <2>3, <3>1 DEF TurnsClose, Ends
    <3> QED  BY <2>2, <2>3, <3>2, <3>3 DEF TurnsClose
  <2>5. ActiveHasCause'
    BY <2>3 DEF ActiveHasCause
  <2> QED  BY <2>2, <2>3, <2>4, <2>5 DEF QuietInv
<1>5. CASE StartDrain
  <2>1. /\ Unmoved /\ UNCHANGED <<status, dropped>> /\ answer = "none"
        /\ done' = sent /\ answer' = "pending"
    BY <1>5 DEF StartDrain, Unmoved, provider, server
  <2>2. \A n \in Ends : Ahead(n) => Ahead(n)'
    BY <2>1 DEF Ahead
  <2>3. ~ died => dropped' \intersect (Starts \union Ends) = {}
    BY <1>a, <2>1 DEF TurnsKept
  <2> QED  BY <2>1, <2>2, <2>3, SinkStepIsQuiet DEF QuietInv, Unmoved
<1>6. CASE Accept
  <2>1. PICK e \in cuts : NextCut(e) /\ Handle(done, e)
    BY <1>6 DEF Accept
  <2>2. Unmoved /\ UNCHANGED <<sent, done, cuts>> /\ answer = "pending" /\ answer' = "stored"
    BY <1>6 DEF Accept, Unmoved, provider
  <2>3. e \in Emitted /\ done < e
    BY <1>0, <2>1, <2>2 DEF Shape
  <2>4. \A n \in Ends : Ahead(n) /\ n \notin done + 1 .. e => Ahead(n)'
    <3>1. \A d \in cuts : NextCut(d)' => d = e
      BY <1>c, <2>1, <2>2 DEF NextCut
    <3> QED  BY <1>0, <1>b, <2>2, <2>3, <3>1 DEF Ahead
  <2>5. HandleUpTo(e, done, e) /\ e \in done .. e /\ \A n : n \notin e + 1 .. e
    BY <1>0, <2>1, <2>3 DEF Handle
  <2> QED  BY <1>0, <2>2, <2>3, <2>4, <2>5, HandlingIsQuiet
<1>7. CASE Refuse
  <2>1. PICK e \in cuts : NextCut(e) /\ Unacceptable(done + 1 .. e)
    BY <1>7 DEF Refuse
  <2>2. /\ Unmoved /\ UNCHANGED <<sent, done, cuts, status, dropped>>
        /\ answer = "pending" /\ answer' = "refused"
    BY <1>7 DEF Refuse, Unmoved, provider, server
  <2>3. \A n \in Ends : Ahead(n) => Ahead(n)'
    BY <2>2 DEF Ahead
  <2>4. ASSUME ~ died, NEW d \in cuts, NextCut(d)', d = done' + 1
        PROVE  d \notin Starts \union Ends
    <3>1. d = e /\ e = done + 1 /\ done + 1 .. e = {e} /\ e \in Emitted
      BY <1>0, <1>c, <2>1, <2>2, <2>4 DEF NextCut
    <3>2. \/ emitted[e].kind = "malformed"
          \/ emitted[e].kind \notin {"started", "snapshot"} /\ emitted[e].turn \notin stored \union {e}
      BY <2>1, <3>1 DEF Unacceptable, Missing
    <3>3. ASSUME e \in Ends PROVE FALSE
      <4>1. emitted[e].turn \in Starts /\ emitted[e].turn < e /\ TurnsKept
        BY <1>a, <2>4, <3>3 DEF TurnsClose
      <4>2. emitted[e].turn \in Nat /\ emitted[e].turn <= done
        BY <1>0, <1>b, <3>1, <4>1
      <4>3. ~ Ahead(emitted[e].turn)
        BY <1>0, <2>2, <4>2 DEF Ahead
      <4>4. emitted[e].turn \in stored
        BY <4>1, <4>3, TurnIsStored
      <4> QED  BY <3>2, <3>3, <4>4 DEF Ends
    <3> QED  BY <3>1, <3>2, <3>3 DEF Starts
  <2>5. ~ died => dropped' \intersect (Starts \union Ends) = {}
    BY <1>a, <2>2 DEF TurnsKept
  <2> QED  BY <2>2, <2>3, <2>4, <2>5, SinkStepIsQuiet DEF QuietInv, Unmoved
<1>8. CASE Delivered
  <2>1. PICK e \in cuts : NextCut(e) /\ Advance(e)
    BY <1>8 DEF Delivered
  <2>2. Unmoved /\ UNCHANGED <<status, dropped>> /\ answer = "stored"
    BY <1>8 DEF Delivered, Unmoved, provider, server
  <2>3. /\ done' = e
        /\ answer' = "pending" \/ (answer' = "none" /\ sent' = e)
    BY <2>1 DEF Advance
  <2>4. \A n \in Ends : Ahead(n) => Ahead(n)'
    BY <2>1, <2>2, <2>3 DEF Ahead
  <2>5. ~ died => dropped' \intersect (Starts \union Ends) = {}
    BY <1>a, <2>2 DEF TurnsKept
  <2> QED  BY <2>2, <2>3, <2>4, <2>5, SinkStepIsQuiet DEF QuietInv, Unmoved
<1>9. CASE Drop
  <2>1. PICK e \in cuts : NextCut(e) /\ e = done + 1 /\ dropped' = dropped \union {e} /\ Advance(e)
    BY <1>9 DEF Drop
  <2>2. Unmoved /\ UNCHANGED status /\ answer = "refused"
    BY <1>9 DEF Drop, Unmoved, provider, server
  <2>3. /\ done' = e
        /\ answer' = "pending" \/ (answer' = "none" /\ sent' = e)
    BY <2>1 DEF Advance
  <2>4. ~ died => e \notin Starts \union Ends
    BY <1>a, <2>1, <2>2 DEF TurnsKept
  <2>5. ASSUME ~ died, NEW n \in Ends, Ahead(n) PROVE Ahead(n)'
    <3>1. n > e
      BY <1>0, <1>b, <2>1, <2>2, <2>4, <2>5 DEF Ahead
    <3> QED  BY <2>3, <3>1 DEF Ahead
  <2>6. ~ died => dropped' \intersect (Starts \union Ends) = {}
    BY <1>a, <2>1, <2>4 DEF TurnsKept
  <2> QED  BY <2>2, <2>3, <2>5, <2>6, SinkStepIsQuiet DEF QuietInv, Unmoved
<1>10. CASE Bisect
  <2>1. /\ Unmoved /\ UNCHANGED <<status, dropped, done>>
        /\ answer = "refused" /\ answer' = "pending"
    BY <1>10 DEF Bisect, Unmoved, provider, server
  <2>2. \A n \in Ends : Ahead(n) => Ahead(n)'
    BY <2>1 DEF Ahead
  <2>3. ~ died => dropped' \intersect (Starts \union Ends) = {}
    BY <1>a, <2>1 DEF TurnsKept
  <2> QED  BY <2>1, <2>2, <2>3, SinkStepIsQuiet DEF QuietInv, Unmoved
<1>c1. PICK first : answer # "none" => first \in cuts /\ NextCut(first)
  BY <1>0, FirstCut
<1>11. CASE GiveUp
  <2>1. /\ Unmoved /\ UNCHANGED <<status, dropped>>
        /\ answer # "none" /\ answer' = "none" /\ sent' = done
    BY <1>11 DEF GiveUp, EndDrain, Unmoved, provider, server
  <2>2. \A n \in Ends : Ahead(n) => Ahead(n)'
    BY <1>0, <1>c1, <2>1, AheadOfDone DEF Ahead
  <2>3. ~ died => dropped' \intersect (Starts \union Ends) = {}
    BY <1>a, <2>1 DEF TurnsKept
  <2> QED  BY <2>1, <2>2, <2>3, SinkStepIsQuiet DEF QuietInv, Unmoved
<1>12. CASE StrayHandled
  <2>1. PICK r \in strays : Handle(r[1], r[2]) \/ UNCHANGED <<server, dropped>>
    BY <1>12 DEF StrayHandled
  <2>2. Unmoved /\ UNCHANGED <<sent, done, cuts, answer>>
    BY <1>12 DEF StrayHandled, Unmoved, provider, sink
  <2>3. \A n \in Ends : Ahead(n) => Ahead(n)'
    BY <2>2 DEF Ahead, NextCut
  <2>4. CASE Handle(r[1], r[2])
    <3>1. r[1] \in 0 .. Len(emitted) /\ r[2] \in Emitted /\ r[1] < r[2]
      BY <1>0 DEF Shape
    <3>2. HandleUpTo(r[2], r[1], r[2]) /\ r[2] \in r[1] .. r[2] /\ \A n : n \notin r[2] + 1 .. r[2]
      BY <1>0, <2>4, <3>1 DEF Handle
    <3> QED  BY <2>2, <2>3, <3>1, <3>2, HandlingIsQuiet
  <2>5. CASE UNCHANGED <<server, dropped>>
    <3>1. UNCHANGED <<status, dropped>>
      BY <2>5 DEF server
    <3>2. ~ died => /\ dropped' \intersect (Starts \union Ends) = {}
                    /\ answer' = "refused" =>
                          \A e \in cuts' : NextCut(e)' /\ e = done' + 1 => e \notin Starts \union Ends
      BY <1>a, <2>2, <3>1 DEF TurnsKept, NextCut
    <3> QED  BY <2>2, <2>3, <3>1, <3>2, SinkStepIsQuiet DEF QuietInv, Unmoved
  <2> QED  BY <2>1, <2>4, <2>5
<1>13. CASE SessionChanges \/ UNCHANGED vars
  <2>1. Unmoved /\ UNCHANGED <<status, dropped, sent, done, cuts, answer>>
    BY <1>13 DEF SessionChanges, vars, Unmoved, provider, sink, server
  <2>2. \A n \in Ends : Ahead(n) => Ahead(n)'
    BY <2>1 DEF Ahead, NextCut
  <2>3. ~ died => /\ dropped' \intersect (Starts \union Ends) = {}
                  /\ answer' = "refused" =>
                        \A e \in cuts' : NextCut(e)' /\ e = done' + 1 => e \notin Starts \union Ends
    BY <1>a, <2>1 DEF TurnsKept, NextCut
  <2> QED  BY <2>1, <2>2, <2>3, SinkStepIsQuiet DEF QuietInv, Unmoved
<1>14. CASE ServerDies
  <2>1. Unmoved /\ (answer = "none" => UNCHANGED <<sent, done, cuts, answer>>)
        /\ (answer # "none" => sent' = done /\ answer' = "none")
    BY <1>14 DEF ServerDies, EndDrain, Unmoved, provider, sink
  <2>2. \A n \in Ends : Ahead(n) => Ahead(n)'
    <3>1. CASE answer = "none"
      BY <2>1, <3>1 DEF Ahead
    <3>2. CASE answer # "none"
      BY <1>0, <1>c1, <2>1, <3>2, AheadOfDone DEF Ahead
    <3> QED  BY <3>1, <3>2
  <2>3. CASE UNCHANGED <<server, dropped>>
    <3>1. UNCHANGED <<status, dropped>> /\ answer' = "none"
      BY <2>1, <2>3 DEF server
    <3>2. ~ died => dropped' \intersect (Starts \union Ends) = {}
      BY <1>a, <3>1 DEF TurnsKept
    <3> QED  BY <2>1, <2>2, <3>1, <3>2, SinkStepIsQuiet DEF QuietInv, Unmoved
  <2>4. ASSUME answer = "pending", NEW e \in cuts, NextCut(e), NEW m \in done .. e - 1,
               HandleUpTo(m, done, e)
        PROVE  QuietInv'
    <3>1. e \in Emitted /\ done < e /\ m \in done .. e
      BY <1>0, <2>4 DEF Shape
    <3>2. \A n \in Ends : n \in m + 1 .. e => Ahead(n)
      BY <1>0, <2>4 DEF Ahead
    <3> QED  BY <1>0, <2>1, <2>2, <2>4, <3>1, <3>2, HandlingIsQuiet
  <2> QED  BY <1>14, <2>3, <2>4 DEF ServerDies
<1>15. CASE DaemonDies
  BY <1>15 DEF DaemonDies, QuietInv
<1> QED
  BY <1>1, <1>2, <1>3, <1>4, <1>5, <1>6, <1>7, <1>8, <1>9, <1>10, <1>11, <1>12, <1>13,
     <1>14, <1>15 DEF Next

\* No late or repeated start brings a finished run back to life: a thread whose
\* daemon has nothing to do and nothing to tell is not active.
THEOREM FinishedRunsStayFinished == Spec => []QuietWhenDone
<1>1. Init => QuietInv
  BY DEF Init, QuietInv, TurnsClose, TurnsKept, ActiveHasCause, Starts, Ends, Emitted
<1>2. QuietInv /\ DeliveryInv /\ TypeOK /\ [Next]_vars => QuietInv'
  BY QuietStep DEF TypeOK
<1>3. QuietInv /\ DeliveryInv => QuietWhenDone
  <2> SUFFICES ASSUME QuietInv, DeliveryInv, answer = "none", sent = Len(emitted), ~ work,
                      running = 0, ~ died, status = "active"
               PROVE  FALSE
    BY DEF QuietWhenDone
  <2>1. PICK n \in Ends : n > sent
    BY DEF QuietInv, ActiveHasCause, Ahead
  <2> QED  BY <2>1 DEF Ends, Emitted, DeliveryInv, Shape
<1> QED  BY <1>1, <1>2, <1>3, DeliveryInvHolds, DeliveryTypeCorrect, PTL DEF Spec
=============================================================================
