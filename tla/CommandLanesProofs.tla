------------------------- MODULE CommandLanesProofs -------------------------
(***************************************************************************)
(* What CommandRouter guarantees for every set of commands, threads and    *)
(* environments: who writes an environment is alone in it, the bodies of a *)
(* thread do not run together, its turns begin in the order in which they  *)
(* came, no lane outlives its commands, and no order of arrival blocks.    *)
(*                                                                         *)
(* None of it is inductive, since a promise names only its predecessors.   *)
(* The invariant says that the commands in a lane stand in a line (a rank  *)
(* f, and n behind them all): whoever stands behind another that must not  *)
(* share the lane with it waits for it, or for one between the two, and    *)
(* so does the promise the lane keeps for those that come next.  For the   *)
(* order, the line also respects who was ahead of whom on arrival, and a   *)
(* turn at the barrier reaches all unarchives ahead of it through the one  *)
(* it waits for.  That no order blocks needs a rank of its own: waiting    *)
(* goes to later lanes, or to who has been longer in the same one.         *)
(***************************************************************************)
EXTENDS CommandLanes, WellFoundedInduction, TLAPS

\* The unarchives of a thread that are sent name one environment: the barrier of a
\* thread is its last unarchive alone, and only the lane of an environment makes
\* that one wait for those before it.
UnarchivesStay ==
    \A c, d \in Unarchives : ThreadOf[c] = ThreadOf[d] => EnvOf[c] = EnvOf[d]

InEnv(c) == OnEnv(c) /\ (stage[c] = "env" \/ HoldsEnv(c))
EnvLine(e) == {c \in Cmd : EnvOf[c] = e /\ InEnv(c)}
ThreadLine(k) == {c \in Cmd : OnThread(c) /\ Key(c) = k /\ stage[c] \in {"thread", "runs"}}
TurnLine(t) ==
    {c \in Turns : ThreadOf[c] = t /\ stage[c] \in {"turn", "env", "thread", "runs"}}

Line(L, f, n) ==
    /\ \A c \in L : f[c] < n
    /\ \A c, d \in L : c # d => f[c] # f[d]

\* S waits for c, or for a write of the line behind c.
Covers(S, c, L, f) == c \in S \/ \E z \in S \intersect L : Writes(z) /\ f[c] < f[z]

EnvOrder(L, lane, stg, wts, f, n) ==
    /\ Line(L, f, n)
    /\ \A c, d \in L : f[c] < f[d] /\ (Writes(c) \/ Writes(d)) =>
          stg[d] = "env" /\ Covers(wts[d], c, L, f)
    /\ \A c \in L : Covers(lane.tail, c, L, f)
    /\ \A c \in L : Writes(c) => Covers(lane.writeTail, c, L, f)

\* The same for a lane of one after the other, with its last command.
SerialOrder(L, last, lane, stg, wts, f, n) ==
    /\ Line(L, f, n)
    /\ \A c, d \in L : f[c] < f[d] =>
          /\ stg[d] = lane
          /\ c \in wts[d] \/ \E z \in wts[d] \intersect L : f[c] < f[z]
    /\ \A c \in L : c = last \/ (last \in L /\ f[c] < f[last])

\* The line keeps the order of arrival among the commands of K.
Respects(L, K, ahd, f) ==
    UnarchivesStay => \A c, d \in L \intersect K : c \in ahd[d] => f[c] < f[d]

EnvOrdered == \A e \in Env : \E f \in [Cmd -> Nat], n \in Nat :
    /\ EnvOrder(EnvLine(e), envLane[e], stage, waits, f, n)
    /\ Respects(EnvLine(e), Unarchives, ahead, f)
ThreadOrdered == \A k \in Env \X Thread : \E f \in [Cmd -> Nat], n \in Nat :
    SerialOrder(ThreadLine(k), threadTail[k], "thread", stage, waits, f, n)
TurnOrdered == \A t \in Thread : \E f \in [Cmd -> Nat], n \in Nat :
    /\ SerialOrder(TurnLine(t), turnTail[t], "turn", stage, waits, f, n)
    /\ Respects(TurnLine(t), Turns, ahead, f)

\* Who is ahead of a command is another one of its thread.  A turn past the barrier
\* has only turns ahead that are past it too.  A turn at the barrier waits for
\* unarchives of its thread, and through them for all that are ahead of it; so do
\* the turns at the barrier ahead of it.  The barrier of a thread is the last
\* of its unarchives, with the others ahead of it.
InTurnLane(c) == c \in Turns /\ stage[c] \in {"turn", "env", "thread", "runs"}

BarrierInv ==
    /\ \A c \in Cmd : \A d \in ahead[c] : d # c /\ ThreadOf[d] = ThreadOf[c]
    /\ \A c \in Cmd : InTurnLane(c) => \A d \in ahead[c] : InTurnLane(d)
    /\ \A c \in Cmd : stage[c] = "barrier" =>
          /\ \A b \in waits[c] : b \in Unarchives /\ ThreadOf[b] = ThreadOf[c]
          /\ \A u \in ahead[c] \intersect Unarchives : \E b \in waits[c] : b = u \/ u \in ahead[b]
          /\ \A d \in ahead[c] : stage[d] = "barrier" => waits[d] \subseteq ahead[c]
    /\ \A u \in InFlight \intersect Unarchives :
          LET b == barrier[ThreadOf[u]] IN b \in Unarchives /\ (b = u \/ u \in ahead[b])

\* What a lane or a barrier names has arrived and belongs there; a command is queued
\* in no lane of another kind.
Placed ==
    /\ \A e \in Env : envLane[e].tail \union envLane[e].writeTail \subseteq
                         {c \in Cmd : EnvOf[c] = e /\ stage[c] # "new"}
    /\ \A t \in Thread : \A c \in Cmd : c \in {barrier[t], turnTail[t]} => ThreadOf[c] = t
    /\ \A k \in Env \X Thread : \A c \in Cmd : c = threadTail[k] => Key(c) = k
    /\ \A c \in Cmd :
          /\ stage[c] \in {"barrier", "turn"} => c \in Turns
          /\ stage[c] = "env" => OnEnv(c)
          /\ stage[c] = "thread" => OnThread(c)

LanesInv ==
    /\ TypeOK /\ NoLaneLeft /\ Placed
    /\ EnvOrdered /\ ThreadOrdered /\ TurnOrdered
    /\ UnarchivesStay => BarrierInv

-----------------------------------------------------------------------------
(* Lines.  x is the command that moves: stages and waits of the others     *)
(* stay, or the others stop waiting for x.                                 *)

\* A command that waits for nobody moves on inside a serial lane.
LEMMA SerialKept ==
    ASSUME NEW x \in Cmd, NEW L \in SUBSET Cmd, NEW last, NEW lane, NEW stg, NEW wts,
           NEW stg2, NEW wts2, NEW f \in [Cmd -> Nat], NEW n \in Nat,
           SerialOrder(L, last, lane, stg, wts, f, n),
           \A d \in Cmd \ {x} : stg2[d] = stg[d] /\ wts2[d] = wts[d],
           x \in L /\ stg[x] = lane => wts[x] = {}
    PROVE  SerialOrder(L, last, lane, stg2, wts2, f, n)
<1>1. \A c \in L : x \in L => ~ (f[c] < f[x])
  BY DEF SerialOrder
<1> QED  BY <1>1 DEF SerialOrder

\* x queues last, behind the line L: M is the new line, with the ranks g.
Grown(x, L, f, n, M, g, m) ==
    /\ x \in Cmd /\ L \in SUBSET Cmd /\ f \in [Cmd -> Nat] /\ n \in Nat
    /\ x \notin L /\ M = L \union {x} /\ g = [f EXCEPT ![x] = n] /\ m = n + 1

SerialJoin(x, L, last, lane, stg, wts, stg2, wts2, f, n, M, g, m) ==
    /\ Grown(x, L, f, n, M, g, m)
    /\ SerialOrder(L, last, lane, stg, wts, f, n)
    /\ \A d \in Cmd \ {x} : stg2[d] = stg[d] /\ wts2[d] = wts[d]
    /\ stg2[x] = lane /\ (last \in L => last \in wts2[x])

LEMMA SerialJoined ==
    ASSUME NEW x, NEW L, NEW last, NEW lane, NEW stg, NEW wts, NEW stg2, NEW wts2,
           NEW f, NEW n, NEW M, NEW g, NEW m,
           SerialJoin(x, L, last, lane, stg, wts, stg2, wts2, f, n, M, g, m)
    PROVE  SerialOrder(M, x, lane, stg2, wts2, g, m)
<1> USE DEF SerialJoin, Grown
<1>1. g \in [Cmd -> Nat] /\ m \in Nat /\ n < m /\ g[x] = n /\ \A c \in Cmd \ {x} : g[c] = f[c]
  OBVIOUS
<1>2. \A c \in L : g[c] = f[c] /\ g[c] < n
  BY <1>1 DEF SerialOrder, Line
<1>3. Line(M, g, m)
  BY <1>1, <1>2 DEF SerialOrder, Line
<1>4. ASSUME NEW c \in M, NEW d \in M, g[c] < g[d]
      PROVE  /\ stg2[d] = lane
             /\ c \in wts2[d] \/ \E z \in wts2[d] \intersect M : g[c] < g[z]
  <2>1. c \in L
    BY <1>1, <1>2, <1>4
  <2>2. CASE d = x
    BY <1>2, <2>1, <2>2 DEF SerialOrder
  <2>3. CASE d # x
    <3>1. d \in L /\ f[c] < f[d]
      BY <1>2, <1>4, <2>1, <2>3
    <3>2. stg[d] = lane /\ (c \in wts[d] \/ \E z \in wts[d] \intersect L : f[c] < f[z])
      BY <2>1, <3>1 DEF SerialOrder
    <3> QED  BY <1>2, <2>1, <2>3, <3>1, <3>2
  <2> QED  BY <2>2, <2>3
<1>5. \A c \in M : c = x \/ (x \in M /\ g[c] < g[x])
  BY <1>1, <1>2
<1> QED  BY <1>3, <1>4, <1>5 DEF SerialOrder

\* x ends, in the lane or outside.
LEMMA SerialLeft ==
    ASSUME NEW x \in Cmd, NEW L \in SUBSET Cmd, NEW last, NEW last2, NEW lane, NEW stg, NEW wts,
           NEW stg2, NEW wts2, NEW f \in [Cmd -> Nat], NEW n \in Nat,
           SerialOrder(L, last, lane, stg, wts, f, n), x \in L => stg[x] # lane,
           \A d \in Cmd \ {x} : stg2[d] = stg[d] /\ wts2[d] = wts[d] \ {x},
           last2 = IF last = x THEN None ELSE last
    PROVE  SerialOrder(L \ {x}, last2, lane, stg2, wts2, f, n)
<1>1. \A c \in L : x \in L => ~ (f[c] < f[x])
  BY DEF SerialOrder
<1>2. Line(L \ {x}, f, n)
  BY DEF SerialOrder, Line
<1>3. ASSUME NEW c \in L \ {x}, NEW d \in L \ {x}, f[c] < f[d]
      PROVE  /\ stg2[d] = lane
             /\ c \in wts2[d] \/ \E z \in wts2[d] \intersect (L \ {x}) : f[c] < f[z]
  BY <1>1, <1>3 DEF SerialOrder
<1>4. \A c \in L \ {x} : last # x /\ (c = last \/ (last \in L \ {x} /\ f[c] < f[last]))
  BY <1>1 DEF SerialOrder
<1> QED  BY <1>2, <1>3, <1>4 DEF SerialOrder

\* A command that waits for nobody moves on inside an environment lane.
LEMMA EnvKept ==
    ASSUME NEW x \in Cmd, NEW L \in SUBSET Cmd, NEW lane, NEW stg, NEW wts,
           NEW stg2, NEW wts2, NEW f \in [Cmd -> Nat], NEW n \in Nat,
           EnvOrder(L, lane, stg, wts, f, n),
           \A d \in Cmd \ {x} : stg2[d] = stg[d] /\ wts2[d] = wts[d],
           x \in L /\ stg[x] = "env" => wts[x] = {}
    PROVE  EnvOrder(L, lane, stg2, wts2, f, n)
<1>1. \A c \in L : x \in L /\ (Writes(c) \/ Writes(x)) => ~ (f[c] < f[x])
  BY DEF EnvOrder, Covers
<1> QED  BY <1>1 DEF EnvOrder

EnvJoin(x, L, lane, stg, wts, stg2, wts2, f, n, M, g, m) ==
    /\ Grown(x, L, f, n, M, g, m)
    /\ lane \in [tail : SUBSET Cmd, writeTail : SUBSET Cmd]
    /\ EnvOrder(L, lane, stg, wts, f, n)
    /\ \A d \in Cmd \ {x} : stg2[d] = stg[d] /\ wts2[d] = wts[d]
    /\ stg2[x] = "env"
    /\ L \intersect (IF Writes(x) THEN lane.tail ELSE lane.writeTail) \subseteq wts2[x]

LEMMA EnvJoined ==
    ASSUME NEW x, NEW L, NEW lane, NEW stg, NEW wts, NEW stg2, NEW wts2,
           NEW f, NEW n, NEW M, NEW g, NEW m,
           EnvJoin(x, L, lane, stg, wts, stg2, wts2, f, n, M, g, m)
    PROVE  EnvOrder(M, LaneWith(lane, x), stg2, wts2, g, m)
<1> USE DEF EnvJoin, Grown
<1> DEFINE lane2 == LaneWith(lane, x)
<1>1. g \in [Cmd -> Nat] /\ m \in Nat /\ n < m /\ g[x] = n /\ \A c \in Cmd \ {x} : g[c] = f[c]
  OBVIOUS
<1>2. \A c \in L : g[c] = f[c] /\ g[c] < n
  BY <1>1 DEF EnvOrder, Line
<1>3. Line(M, g, m)
  BY <1>1, <1>2 DEF EnvOrder, Line
<1>4. \A S \in SUBSET Cmd : \A c \in L : Covers(S, c, L, f) => Covers(S, c, M, g)
  BY <1>2 DEF Covers
<1>5. ASSUME NEW c \in M, NEW d \in M, g[c] < g[d], Writes(c) \/ Writes(d)
      PROVE  stg2[d] = "env" /\ Covers(wts2[d], c, M, g)
  <2>1. c \in L
    BY <1>1, <1>2, <1>5
  <2>2. CASE d = x
    <3>1. Covers(IF Writes(x) THEN lane.tail ELSE lane.writeTail, c, L, f)
      BY <1>5, <2>1, <2>2 DEF EnvOrder
    <3> QED  BY <1>2, <2>1, <2>2, <3>1 DEF Covers
  <2>3. CASE d # x
    <3>1. d \in L /\ f[c] < f[d]
      BY <1>2, <1>5, <2>1, <2>3
    <3>2. stg[d] = "env" /\ Covers(wts[d], c, L, f)
      BY <1>5, <2>1, <3>1 DEF EnvOrder
    <3> QED  BY <1>2, <2>1, <2>3, <3>1, <3>2 DEF Covers
  <2> QED  BY <2>2, <2>3
<1>6. ASSUME NEW c \in M
      PROVE  /\ Covers(lane2.tail, c, M, g)
             /\ Writes(c) => Covers(lane2.writeTail, c, M, g)
  <2>1. CASE c = x
    BY <2>1 DEF LaneWith, Covers
  <2>2. CASE c # x /\ Writes(x)
    BY <1>1, <1>2, <2>2 DEF LaneWith, Covers
  <2>3. CASE c # x /\ ~ Writes(x)
    <3>1. lane2.tail = lane.tail \union {x} /\ lane2.writeTail = lane.writeTail
      BY <2>3 DEF LaneWith
    <3>2. Covers(lane.tail, c, L, f) /\ (Writes(c) => Covers(lane.writeTail, c, L, f))
      BY <2>3 DEF EnvOrder
    <3> QED  BY <1>2, <2>3, <3>1, <3>2 DEF Covers
  <2> QED  BY <2>1, <2>2, <2>3
<1> QED  BY <1>3, <1>5, <1>6 DEF EnvOrder

LEMMA EnvLeft ==
    ASSUME NEW x \in Cmd, NEW L \in SUBSET Cmd, NEW lane, NEW lane2, NEW stg, NEW wts,
           NEW stg2, NEW wts2, NEW f \in [Cmd -> Nat], NEW n \in Nat,
           EnvOrder(L, lane, stg, wts, f, n), x \in L => stg[x] # "env",
           \A d \in Cmd \ {x} : stg2[d] = stg[d] /\ wts2[d] = wts[d] \ {x},
           lane2 = lane \/ L \ {x} = {}
    PROVE  EnvOrder(L \ {x}, lane2, stg2, wts2, f, n)
<1>1. \A c \in L : x \in L /\ (Writes(c) \/ Writes(x)) => ~ (f[c] < f[x])
  BY DEF EnvOrder
<1>2. \A S : \A c \in L \ {x} : Covers(S, c, L, f) => Covers(S \ {x}, c, L \ {x}, f)
  BY <1>1 DEF Covers
<1>3. Line(L \ {x}, f, n)
  BY DEF EnvOrder, Line
<1>4. ASSUME NEW c \in L \ {x}, NEW d \in L \ {x}, f[c] < f[d], Writes(c) \/ Writes(d)
      PROVE  stg2[d] = "env" /\ Covers(wts2[d], c, L \ {x}, f)
  <2>1. c \in L /\ d \in L /\ c # x /\ d \in Cmd \ {x}
    OBVIOUS
  <2>2. stg[d] = "env" /\ Covers(wts[d], c, L, f)
    BY <1>4, <2>1 DEF EnvOrder
  <2>3. Covers(wts[d] \ {x}, c, L \ {x}, f)
    BY <1>2, <2>2
  <2>4. stg2[d] = stg[d] /\ wts2[d] = wts[d] \ {x}
    BY <2>1
  <2> QED  BY <2>2, <2>3, <2>4
<1>5. ASSUME NEW c \in L \ {x}
      PROVE  /\ Covers(lane2.tail, c, L \ {x}, f)
             /\ Writes(c) => Covers(lane2.writeTail, c, L \ {x}, f)
  <2>1. /\ Covers(lane2.tail \ {x}, c, L \ {x}, f)
        /\ Writes(c) => Covers(lane2.writeTail \ {x}, c, L \ {x}, f)
    BY <1>2, <1>5 DEF EnvOrder
  <2> QED  BY <2>1 DEF Covers
<1> QED  BY <1>3, <1>4, <1>5 DEF EnvOrder

LEMMA RespectsKept ==
    ASSUME NEW L \in SUBSET Cmd, NEW M \in SUBSET L, NEW K, NEW ahd, NEW ahd2,
           NEW f \in [Cmd -> Nat], Respects(L, K, ahd, f),
           \A d \in M : ahd2[d] \subseteq ahd[d]
    PROVE  Respects(M, K, ahd2, f)
BY DEF Respects

\* Whoever joins comes after those that are ahead of it, and is ahead of none.
LEMMA RespectsJoined ==
    ASSUME NEW x, NEW L, NEW f, NEW n, NEW M, NEW g, NEW m, NEW K, NEW ahd, NEW ahd2,
           Grown(x, L, f, n, M, g, m), Line(L, f, n), Respects(L, K, ahd, f),
           \A d \in L : ahd2[d] \subseteq ahd[d],
           UnarchivesStay => \A d \in M : x \in K => x \notin ahd2[d]
    PROVE  Respects(M, K, ahd2, g)
<1> SUFFICES ASSUME UnarchivesStay, NEW c \in M \intersect K, NEW d \in M \intersect K, c \in ahd2[d]
             PROVE  g[c] < g[d]
  BY DEF Respects
<1>1. c # x /\ c \in L /\ g[c] = f[c] /\ f[c] < n
  BY DEF Grown, Line
<1>2. CASE d = x
  BY <1>1, <1>2 DEF Grown
<1>3. CASE d # x
  BY <1>1, <1>3 DEF Grown, Respects
<1> QED  BY <1>2, <1>3

-----------------------------------------------------------------------------
(* The properties follow from the lines.                                   *)

LEMMA LinesExclude ==
    ASSUME LanesInv
    PROVE  WritesAlone /\ OneAtATime
<1>1. WritesAlone
  <2> SUFFICES ASSUME NEW c \in Cmd, NEW d \in Cmd, c # d, EnvOf[c] = EnvOf[d],
                      Writes(c), HoldsEnv(c), HoldsEnv(d)
               PROVE  FALSE
    BY DEF WritesAlone
  <2>1. EnvOf[c] \in Env
    BY LanesAssumption
  <2>2. PICK f \in [Cmd -> Nat], n \in Nat :
           EnvOrder(EnvLine(EnvOf[c]), envLane[EnvOf[c]], stage, waits, f, n)
    BY <2>1 DEF LanesInv, EnvOrdered
  <2>3. c \in EnvLine(EnvOf[c]) /\ d \in EnvLine(EnvOf[c])
    BY DEF EnvLine, InEnv, HoldsEnv
  <2>4. stage[c] # "env" /\ stage[d] # "env"
    BY DEF HoldsEnv
  <2>5. f[c] # f[d] /\ ~ (f[c] < f[d]) /\ ~ (f[d] < f[c])
    BY <2>2, <2>3, <2>4 DEF EnvOrder, Line
  <2> QED  BY <2>5
<1>2. ASSUME NEW c \in Cmd, NEW d \in Cmd, c # d, HoldsThread(c), HoldsThread(d),
             Key(c) = Key(d)
      PROVE  FALSE
  <2>1. Key(c) \in Env \X Thread
    BY LanesAssumption DEF Key
  <2>2. PICK f \in [Cmd -> Nat], n \in Nat :
           SerialOrder(ThreadLine(Key(c)), threadTail[Key(c)], "thread", stage, waits, f, n)
    BY <2>1 DEF LanesInv, ThreadOrdered
  <2>3. c \in ThreadLine(Key(c)) /\ d \in ThreadLine(Key(c))
    BY <1>2 DEF ThreadLine, HoldsThread
  <2>4. f[c] # f[d] /\ ~ (f[c] < f[d]) /\ ~ (f[d] < f[c])
    BY <1>2, <2>2, <2>3 DEF SerialOrder, Line, HoldsThread
  <2> QED  BY <2>4
<1>3. ASSUME NEW c \in Cmd, NEW d \in Cmd, c # d, HoldsTurn(c), HoldsTurn(d),
             ThreadOf[c] = ThreadOf[d]
      PROVE  FALSE
  <2>1. ThreadOf[c] \in Thread
    BY LanesAssumption
  <2>2. PICK f \in [Cmd -> Nat], n \in Nat :
           SerialOrder(TurnLine(ThreadOf[c]), turnTail[ThreadOf[c]], "turn", stage, waits, f, n)
    BY <2>1 DEF LanesInv, TurnOrdered
  <2>3. c \in TurnLine(ThreadOf[c]) /\ d \in TurnLine(ThreadOf[c])
    BY <1>3 DEF TurnLine, HoldsTurn, Turns
  <2>4. f[c] # f[d] /\ ~ (f[c] < f[d]) /\ ~ (f[d] < f[c])
    BY <1>3, <2>2, <2>3 DEF SerialOrder, Line, HoldsTurn
  <2> QED  BY <2>4
<1> QED  BY <1>1, <1>2, <1>3 DEF OneAtATime

-----------------------------------------------------------------------------
LEMMA LanesInit == Init => LanesInv
<1> SUFFICES ASSUME Init PROVE LanesInv
  OBVIOUS
<1> DEFINE f == [c \in Cmd |-> 0]
<1>1. TypeOK /\ NoLaneLeft
  BY LanesAssumption
     DEF Init, TypeOK, NoLaneLeft, EmptyLane, Promise, InFlight, Turns, Unarchives
<1>2. Placed
  BY LanesAssumption DEF Init, Placed, EmptyLane
<1>3. f \in [Cmd -> Nat] /\ 0 \in Nat
  OBVIOUS
<1>4. /\ \A e \in Env : EnvLine(e) = {}
      /\ \A k \in Env \X Thread : ThreadLine(k) = {}
      /\ \A t \in Thread : TurnLine(t) = {}
  BY DEF Init, EnvLine, ThreadLine, TurnLine, InEnv, HoldsEnv, Turns
<1>5. EnvOrdered /\ ThreadOrdered /\ TurnOrdered
  BY <1>3, <1>4
     DEF EnvOrdered, ThreadOrdered, TurnOrdered, EnvOrder, SerialOrder, Line, Respects
<1>6. BarrierInv
  BY DEF Init, BarrierInv, InTurnLane, InFlight
<1> QED  BY <1>1, <1>2, <1>5, <1>6 DEF LanesInv
-----------------------------------------------------------------------------
(* The lines of the three kinds of lane under the steps of a command x.    *)

\* Nobody but x moves.
OnlyMoves(x) ==
    /\ \A d \in Cmd \ {x} : stage'[d] = stage[d] /\ waits'[d] = waits[d]
    /\ stage[x] \notin {"new", "runs"} => waits[x] = {}
    /\ \A d \in Cmd : d # x \/ stage[x] # "new" => ahead'[d] = ahead[d]
    /\ \A d \in Cmd : ahead'[d] \subseteq InFlight

LEMMA EnvStays ==
    ASSUME LanesInv, NEW x \in Cmd, OnlyMoves(x), UNCHANGED envLane, InEnv(x)' <=> InEnv(x)
    PROVE  EnvOrdered'
<1> SUFFICES ASSUME NEW e \in Env
             PROVE  \E f \in [Cmd -> Nat], n \in Nat :
                       /\ EnvOrder(EnvLine(e)', envLane'[e], stage', waits', f, n)
                       /\ Respects(EnvLine(e)', Unarchives, ahead', f)
  BY DEF EnvOrdered
<1>1. PICK f \in [Cmd -> Nat], n \in Nat :
         /\ EnvOrder(EnvLine(e), envLane[e], stage, waits, f, n)
         /\ Respects(EnvLine(e), Unarchives, ahead, f)
  BY DEF LanesInv, EnvOrdered
<1>2. EnvLine(e)' = EnvLine(e)
  BY DEF EnvLine, InEnv, HoldsEnv, OnlyMoves
<1>3. EnvLine(e) \in SUBSET Cmd /\ (stage[x] = "env" => waits[x] = {})
  BY DEF EnvLine, OnlyMoves
<1>4. \A d \in Cmd \ {x} : stage'[d] = stage[d] /\ waits'[d] = waits[d]
  BY DEF OnlyMoves
<1>5. EnvOrder(EnvLine(e), envLane[e], stage', waits', f, n)
  BY <1>1, <1>3, <1>4, EnvKept
<1>6. \A d \in EnvLine(e) : ahead'[d] \subseteq ahead[d]
  BY DEF OnlyMoves, EnvLine, InEnv, HoldsEnv
<1>7. Respects(EnvLine(e), Unarchives, ahead', f)
  BY <1>1, <1>3, <1>6, RespectsKept
<1> QED  BY <1>2, <1>5, <1>7

LEMMA ThreadStays ==
    ASSUME LanesInv, NEW x \in Cmd, OnlyMoves(x), UNCHANGED threadTail,
           OnThread(x) => (stage'[x] \in {"thread", "runs"} <=> stage[x] \in {"thread", "runs"})
    PROVE  ThreadOrdered'
<1> SUFFICES ASSUME NEW k \in Env \X Thread
             PROVE  \E f \in [Cmd -> Nat], n \in Nat :
                       SerialOrder(ThreadLine(k)', threadTail'[k], "thread", stage', waits', f, n)
  BY DEF ThreadOrdered
<1>1. PICK f \in [Cmd -> Nat], n \in Nat :
         SerialOrder(ThreadLine(k), threadTail[k], "thread", stage, waits, f, n)
  BY DEF LanesInv, ThreadOrdered
<1>2. ThreadLine(k)' = ThreadLine(k)
  BY DEF ThreadLine, OnlyMoves
<1>3. ThreadLine(k) \in SUBSET Cmd /\ (stage[x] = "thread" => waits[x] = {})
  BY DEF ThreadLine, OnlyMoves
<1>4. \A d \in Cmd \ {x} : stage'[d] = stage[d] /\ waits'[d] = waits[d]
  BY DEF OnlyMoves
<1>5. SerialOrder(ThreadLine(k), threadTail[k], "thread", stage', waits', f, n)
  BY <1>1, <1>3, <1>4, SerialKept
<1> QED  BY <1>2, <1>5

LEMMA TurnStays ==
    ASSUME LanesInv, NEW x \in Cmd, OnlyMoves(x), UNCHANGED turnTail,
           x \in Turns => (stage'[x] \in {"turn", "env", "thread", "runs"}
                             <=> stage[x] \in {"turn", "env", "thread", "runs"})
    PROVE  TurnOrdered'
<1> SUFFICES ASSUME NEW t \in Thread
             PROVE  \E f \in [Cmd -> Nat], n \in Nat :
                       /\ SerialOrder(TurnLine(t)', turnTail'[t], "turn", stage', waits', f, n)
                       /\ Respects(TurnLine(t)', Turns, ahead', f)
  BY DEF TurnOrdered
<1>1. PICK f \in [Cmd -> Nat], n \in Nat :
         /\ SerialOrder(TurnLine(t), turnTail[t], "turn", stage, waits, f, n)
         /\ Respects(TurnLine(t), Turns, ahead, f)
  BY DEF LanesInv, TurnOrdered
<1>2. TurnLine(t)' = TurnLine(t)
  BY DEF TurnLine, OnlyMoves, Turns
<1>3. TurnLine(t) \in SUBSET Cmd /\ (stage[x] = "turn" => waits[x] = {})
  BY DEF TurnLine, OnlyMoves, Turns
<1>4. \A d \in Cmd \ {x} : stage'[d] = stage[d] /\ waits'[d] = waits[d]
  BY DEF OnlyMoves
<1>5. SerialOrder(TurnLine(t), turnTail[t], "turn", stage', waits', f, n)
  BY <1>1, <1>3, <1>4, SerialKept
<1>6. \A d \in TurnLine(t) : ahead'[d] \subseteq ahead[d]
  BY DEF OnlyMoves, TurnLine, Turns
<1>7. Respects(TurnLine(t), Turns, ahead', f)
  BY <1>1, <1>3, <1>6, RespectsKept
<1> QED  BY <1>2, <1>5, <1>7

LEMMA EnvJoins ==
    ASSUME LanesInv, NEW x \in Cmd, OnlyMoves(x), JoinEnvLane(x), OnEnv(x),
           stage[x] \in {"new", "turn"}
    PROVE  EnvOrdered'
<1> DEFINE S == Pending(IF Writes(x) THEN envLane[EnvOf[x]].tail ELSE envLane[EnvOf[x]].writeTail)
<1>0. /\ stage' = [stage EXCEPT ![x] = "env"] /\ waits' = [waits EXCEPT ![x] = S]
      /\ envLane' = [envLane EXCEPT ![EnvOf[x]] = LaneWith(envLane[EnvOf[x]], x)]
  BY DEF JoinEnvLane, Queue
<1> HIDE DEF S
<1>1. stage'[x] = "env" /\ waits'[x] = S
  BY <1>0 DEF LanesInv, TypeOK
<1> SUFFICES ASSUME NEW e \in Env
             PROVE  \E f \in [Cmd -> Nat], n \in Nat :
                       /\ EnvOrder(EnvLine(e)', envLane'[e], stage', waits', f, n)
                       /\ Respects(EnvLine(e)', Unarchives, ahead', f)
  BY DEF EnvOrdered
<1>2. PICK f \in [Cmd -> Nat], n \in Nat :
         /\ EnvOrder(EnvLine(e), envLane[e], stage, waits, f, n)
         /\ Respects(EnvLine(e), Unarchives, ahead, f)
  BY DEF LanesInv, EnvOrdered
<1>3. EnvLine(e) \in SUBSET Cmd /\ x \notin EnvLine(e)
  BY DEF EnvLine, InEnv, HoldsEnv
<1>4. \A d \in Cmd \ {x} : stage'[d] = stage[d] /\ waits'[d] = waits[d]
  BY DEF OnlyMoves
<1>7. \A d \in EnvLine(e) : ahead'[d] \subseteq ahead[d]
  BY <1>3 DEF OnlyMoves
<1>5. CASE e # EnvOf[x]
  <2>1. EnvLine(e)' = EnvLine(e)
    BY <1>4, <1>5 DEF EnvLine, InEnv, HoldsEnv
  <2>2. envLane'[e] = envLane[e]
    BY <1>0, <1>5 DEF LanesInv, TypeOK
  <2>3. EnvOrder(EnvLine(e), envLane[e], stage', waits', f, n)
    BY <1>2, <1>3, <1>4, EnvKept
  <2>4. Respects(EnvLine(e), Unarchives, ahead', f)
    BY <1>2, <1>3, <1>7, RespectsKept
  <2> QED  BY <2>1, <2>2, <2>3, <2>4
<1>6. CASE e = EnvOf[x]
  <2>1. EnvLine(e)' = EnvLine(e) \union {x}
    BY <1>1, <1>4, <1>6 DEF EnvLine, InEnv, HoldsEnv
  <2>2. /\ envLane[e] \in [tail : SUBSET Cmd, writeTail : SUBSET Cmd]
        /\ envLane'[e] = LaneWith(envLane[e], x)
    BY <1>0, <1>6 DEF LanesInv, TypeOK
  <2>3. EnvLine(e) \intersect (IF Writes(x) THEN envLane[e].tail ELSE envLane[e].writeTail)
          \subseteq waits'[x]
    BY <1>1, <1>6 DEF EnvLine, InEnv, HoldsEnv, Pending, S
  <2>4. PICK g, m : g = [f EXCEPT ![x] = n] /\ m = n + 1
    OBVIOUS
  <2>5. EnvJoin(x, EnvLine(e), envLane[e], stage, waits, stage', waits', f, n,
           EnvLine(e)', g, m)
    BY <1>1, <1>2, <1>3, <1>4, <2>1, <2>2, <2>3, <2>4 DEF EnvJoin, Grown
  <2>6. EnvOrder(EnvLine(e)', LaneWith(envLane[e], x), stage', waits', g, m)
    BY <2>5, EnvJoined
  <2>7. g \in [Cmd -> Nat] /\ m \in Nat
    BY <2>4
  <2>8. x \in Unarchives => \A d \in EnvLine(e)' : x \notin ahead'[d]
    <3>1. x \in Unarchives => x \notin InFlight
      BY DEF LanesInv, Placed, Turns, Unarchives, InFlight
    <3> QED  BY <3>1 DEF OnlyMoves, EnvLine
  <2>9. Line(EnvLine(e), f, n)
    BY <1>2 DEF EnvOrder
  <2>10. Respects(EnvLine(e)', Unarchives, ahead', g)
    BY <1>2, <1>7, <2>5, <2>8, <2>9, RespectsJoined DEF EnvJoin
  <2> QED  BY <2>2, <2>6, <2>7, <2>10
<1> QED  BY <1>5, <1>6

LEMMA ThreadJoins ==
    ASSUME LanesInv, NEW x \in Cmd, OnlyMoves(x), JoinThreadLane(x), OnThread(x),
           stage[x] \in {"new", "env"}
    PROVE  ThreadOrdered'
<1>0. /\ stage' = [stage EXCEPT ![x] = "thread"]
      /\ waits' = [waits EXCEPT ![x] = Promise(threadTail[Key(x)])]
      /\ threadTail' = [threadTail EXCEPT ![Key(x)] = x]
  BY DEF JoinThreadLane, Queue
<1>1. stage'[x] = "thread" /\ waits'[x] = Promise(threadTail[Key(x)])
  BY <1>0 DEF LanesInv, TypeOK
<1> SUFFICES ASSUME NEW k \in Env \X Thread
             PROVE  \E f \in [Cmd -> Nat], n \in Nat :
                       SerialOrder(ThreadLine(k)', threadTail'[k], "thread", stage', waits', f, n)
  BY DEF ThreadOrdered
<1>2. PICK f \in [Cmd -> Nat], n \in Nat :
         SerialOrder(ThreadLine(k), threadTail[k], "thread", stage, waits, f, n)
  BY DEF LanesInv, ThreadOrdered
<1>3. ThreadLine(k) \in SUBSET Cmd /\ x \notin ThreadLine(k)
  BY DEF ThreadLine
<1>4. \A d \in Cmd \ {x} : stage'[d] = stage[d] /\ waits'[d] = waits[d]
  BY DEF OnlyMoves
<1>5. CASE k # Key(x)
  <2>1. ThreadLine(k)' = ThreadLine(k)
    BY <1>4, <1>5 DEF ThreadLine
  <2>2. threadTail'[k] = threadTail[k]
    BY <1>0, <1>5 DEF LanesInv, TypeOK
  <2>3. SerialOrder(ThreadLine(k), threadTail[k], "thread", stage', waits', f, n)
    BY <1>2, <1>3, <1>4, SerialKept
  <2> QED  BY <2>1, <2>2, <2>3
<1>6. CASE k = Key(x)
  <2>1. ThreadLine(k)' = ThreadLine(k) \union {x}
    BY <1>1, <1>4, <1>6 DEF ThreadLine
  <2>2. threadTail'[k] = x
    BY <1>0, <1>6 DEF LanesInv, TypeOK
  <2>3. threadTail[k] \in ThreadLine(k) => threadTail[k] \in waits'[x]
    BY <1>1, <1>3, <1>6, LanesAssumption DEF Promise
  <2>4. PICK g, m : g = [f EXCEPT ![x] = n] /\ m = n + 1
    OBVIOUS
  <2>5. SerialJoin(x, ThreadLine(k), threadTail[k], "thread", stage, waits, stage', waits',
           f, n, ThreadLine(k)', g, m)
    BY <1>1, <1>2, <1>3, <1>4, <2>1, <2>3, <2>4 DEF SerialJoin, Grown
  <2>6. SerialOrder(ThreadLine(k)', x, "thread", stage', waits', g, m)
    BY <2>5, SerialJoined
  <2>7. g \in [Cmd -> Nat] /\ m \in Nat
    BY <2>4
  <2> QED  BY <2>2, <2>6, <2>7
<1> QED  BY <1>5, <1>6

LEMMA TurnJoins ==
    ASSUME LanesInv, NEW x \in Cmd, OnlyMoves(x), JoinTurnLane(x), x \in Turns,
           stage[x] \in {"new", "barrier"},
           UnarchivesStay => \A d \in TurnLine(ThreadOf[x]) \union {x} : x \notin ahead'[d]
    PROVE  TurnOrdered'
<1>0. /\ stage' = [stage EXCEPT ![x] = "turn"]
      /\ waits' = [waits EXCEPT ![x] = Promise(turnTail[ThreadOf[x]])]
      /\ turnTail' = [turnTail EXCEPT ![ThreadOf[x]] = x]
  BY DEF JoinTurnLane, Queue
<1>1. stage'[x] = "turn" /\ waits'[x] = Promise(turnTail[ThreadOf[x]])
  BY <1>0 DEF LanesInv, TypeOK
<1> SUFFICES ASSUME NEW t \in Thread
             PROVE  \E f \in [Cmd -> Nat], n \in Nat :
                       /\ SerialOrder(TurnLine(t)', turnTail'[t], "turn", stage', waits', f, n)
                       /\ Respects(TurnLine(t)', Turns, ahead', f)
  BY DEF TurnOrdered
<1>2. PICK f \in [Cmd -> Nat], n \in Nat :
         /\ SerialOrder(TurnLine(t), turnTail[t], "turn", stage, waits, f, n)
         /\ Respects(TurnLine(t), Turns, ahead, f)
  BY DEF LanesInv, TurnOrdered
<1>3. TurnLine(t) \in SUBSET Cmd /\ x \notin TurnLine(t)
  BY DEF TurnLine, Turns
<1>4. \A d \in Cmd \ {x} : stage'[d] = stage[d] /\ waits'[d] = waits[d]
  BY DEF OnlyMoves
<1>7. \A d \in TurnLine(t) : ahead'[d] \subseteq ahead[d]
  BY <1>3 DEF OnlyMoves
<1>5. CASE t # ThreadOf[x]
  <2>1. TurnLine(t)' = TurnLine(t)
    BY <1>4, <1>5 DEF TurnLine, Turns
  <2>2. turnTail'[t] = turnTail[t]
    BY <1>0, <1>5 DEF LanesInv, TypeOK
  <2>3. SerialOrder(TurnLine(t), turnTail[t], "turn", stage', waits', f, n)
    BY <1>2, <1>3, <1>4, SerialKept
  <2>4. Respects(TurnLine(t), Turns, ahead', f)
    BY <1>2, <1>3, <1>7, RespectsKept
  <2> QED  BY <2>1, <2>2, <2>3, <2>4
<1>6. CASE t = ThreadOf[x]
  <2>1. TurnLine(t)' = TurnLine(t) \union {x}
    BY <1>1, <1>4, <1>6 DEF TurnLine, Turns
  <2>2. turnTail'[t] = x
    BY <1>0, <1>6 DEF LanesInv, TypeOK
  <2>3. turnTail[t] \in TurnLine(t) => turnTail[t] \in waits'[x]
    BY <1>1, <1>3, <1>6, LanesAssumption DEF Promise
  <2>4. PICK g, m : g = [f EXCEPT ![x] = n] /\ m = n + 1
    OBVIOUS
  <2>5. SerialJoin(x, TurnLine(t), turnTail[t], "turn", stage, waits, stage', waits',
           f, n, TurnLine(t)', g, m)
    BY <1>1, <1>2, <1>3, <1>4, <2>1, <2>3, <2>4 DEF SerialJoin, Grown
  <2>6. SerialOrder(TurnLine(t)', x, "turn", stage', waits', g, m)
    BY <2>5, SerialJoined
  <2>7. g \in [Cmd -> Nat] /\ m \in Nat
    BY <2>4
  <2>8. UnarchivesStay => \A d \in TurnLine(t)' : x \in Turns => x \notin ahead'[d]
    BY <1>6, <2>1
  <2>9. Line(TurnLine(t), f, n)
    BY <1>2 DEF SerialOrder
  <2>10. Respects(TurnLine(t)', Turns, ahead', g)
    BY <1>2, <1>7, <2>5, <2>8, <2>9, RespectsJoined DEF SerialJoin
  <2> QED  BY <2>2, <2>6, <2>7, <2>10
<1> QED  BY <1>5, <1>6

\* x ends: it leaves every line it was in, and nobody waits for it any more.
LEMMA EndLeaves ==
    ASSUME LanesInv, NEW x \in Cmd, End(x)
    PROVE  EnvOrdered' /\ ThreadOrdered' /\ TurnOrdered'
<1>1. /\ stage[x] = "runs" /\ stage' = [stage EXCEPT ![x] = "done"]
      /\ waits' = [d \in Cmd |-> waits[d] \ {x}]
  BY DEF End
<1>2. \A d \in Cmd \ {x} : stage'[d] = stage[d] /\ waits'[d] = waits[d] \ {x}
  BY <1>1 DEF LanesInv, TypeOK
<1>3. stage'[x] = "done"
  BY <1>1 DEF LanesInv, TypeOK
<1>7. \A d \in Cmd : ahead'[d] \subseteq ahead[d]
  BY DEF End
<1>4. ASSUME NEW e \in Env
      PROVE  \E f \in [Cmd -> Nat], n \in Nat :
                /\ EnvOrder(EnvLine(e)', envLane'[e], stage', waits', f, n)
                /\ Respects(EnvLine(e)', Unarchives, ahead', f)
  <2>1. PICK f \in [Cmd -> Nat], n \in Nat :
           /\ EnvOrder(EnvLine(e), envLane[e], stage, waits, f, n)
           /\ Respects(EnvLine(e), Unarchives, ahead, f)
    BY DEF LanesInv, EnvOrdered
  <2>2. EnvLine(e)' = EnvLine(e) \ {x}
    BY <1>2, <1>3 DEF EnvLine, InEnv, HoldsEnv
  <2>3. EnvLine(e) \in SUBSET Cmd /\ (x \in EnvLine(e) => stage[x] # "env")
    BY <1>1 DEF EnvLine
  <2>4. envLane'[e] = envLane[e] \/ EnvLine(e) \ {x} = {}
    <3>1. CASE e # EnvOf[x]
      BY <3>1 DEF End, EnvLaneCleared, LanesInv, TypeOK
    <3>2. CASE e = EnvOf[x] /\ ~ (Pending(envLane[e].tail) \subseteq {x})
      BY <3>2 DEF End, EnvLaneCleared
    <3>3. CASE e = EnvOf[x] /\ Pending(envLane[e].tail) \subseteq {x}
      <4>1. ASSUME NEW c \in EnvLine(e), c # x PROVE FALSE
        <5>1. \A z \in envLane[e].tail \intersect EnvLine(e) : z = x
          BY <3>3 DEF Pending, EnvLine, InEnv, HoldsEnv
        <5>2. x \in EnvLine(e) /\ Writes(x) /\ f[c] < f[x]
          BY <2>1, <4>1, <5>1 DEF EnvOrder, Covers
        <5> QED  BY <1>1, <2>1, <4>1, <5>2 DEF EnvOrder
      <4> QED  BY <4>1
    <3> QED  BY <3>1, <3>2, <3>3
  <2>5. EnvOrder(EnvLine(e) \ {x}, envLane'[e], stage', waits', f, n)
    BY <1>2, <2>1, <2>3, <2>4, EnvLeft
  <2>6. Respects(EnvLine(e) \ {x}, Unarchives, ahead', f)
    BY <1>7, <2>1, <2>3, RespectsKept
  <2> QED  BY <2>2, <2>5, <2>6
<1>5. ASSUME NEW k \in Env \X Thread
      PROVE  \E f \in [Cmd -> Nat], n \in Nat :
                SerialOrder(ThreadLine(k)', threadTail'[k], "thread", stage', waits', f, n)
  <2>1. PICK f \in [Cmd -> Nat], n \in Nat :
           SerialOrder(ThreadLine(k), threadTail[k], "thread", stage, waits, f, n)
    BY DEF LanesInv, ThreadOrdered
  <2>2. ThreadLine(k)' = ThreadLine(k) \ {x}
    BY <1>2, <1>3 DEF ThreadLine
  <2>3. ThreadLine(k) \in SUBSET Cmd /\ (x \in ThreadLine(k) => stage[x] # "thread")
    BY <1>1 DEF ThreadLine
  <2>0. PICK last : last = IF threadTail[k] = x THEN None ELSE threadTail[k]
    OBVIOUS
  <2>4. SerialOrder(ThreadLine(k) \ {x}, last, "thread", stage', waits', f, n)
    BY <1>2, <2>0, <2>1, <2>3, SerialLeft
  <2>5. \/ threadTail'[k] = IF threadTail[k] = x THEN None ELSE threadTail[k]
        \/ k # Key(x) /\ threadTail'[k] = threadTail[k]
    BY DEF End, Cleared, LanesInv, TypeOK
  <2>6. CASE k # Key(x) /\ threadTail'[k] = threadTail[k]
    <3>1. x \notin ThreadLine(k) /\ ThreadLine(k) \ {x} = ThreadLine(k)
      BY <2>6 DEF ThreadLine
    <3>2. ThreadLine(k) = {} \/ last = threadTail[k]
      BY <2>0, <2>1, <3>1 DEF SerialOrder
    <3>3. SerialOrder(ThreadLine(k), threadTail[k], "thread", stage', waits', f, n)
      BY <2>4, <3>1, <3>2 DEF SerialOrder, Line
    <3> QED  BY <2>2, <2>6, <3>1, <3>3
  <2> QED  BY <2>0, <2>2, <2>4, <2>5, <2>6
<1>6. ASSUME NEW t \in Thread
      PROVE  \E f \in [Cmd -> Nat], n \in Nat :
                /\ SerialOrder(TurnLine(t)', turnTail'[t], "turn", stage', waits', f, n)
                /\ Respects(TurnLine(t)', Turns, ahead', f)
  <2>1. PICK f \in [Cmd -> Nat], n \in Nat :
           /\ SerialOrder(TurnLine(t), turnTail[t], "turn", stage, waits, f, n)
           /\ Respects(TurnLine(t), Turns, ahead, f)
    BY DEF LanesInv, TurnOrdered
  <2>2. TurnLine(t)' = TurnLine(t) \ {x}
    BY <1>2, <1>3 DEF TurnLine, Turns
  <2>3. TurnLine(t) \in SUBSET Cmd /\ (x \in TurnLine(t) => stage[x] # "turn")
    BY <1>1 DEF TurnLine, Turns
  <2>0. PICK last : last = IF turnTail[t] = x THEN None ELSE turnTail[t]
    OBVIOUS
  <2>4. SerialOrder(TurnLine(t) \ {x}, last, "turn", stage', waits', f, n)
    BY <1>2, <2>0, <2>1, <2>3, SerialLeft
  <2>7. Respects(TurnLine(t) \ {x}, Turns, ahead', f)
    BY <1>7, <2>1, <2>3, RespectsKept
  <2>5. \/ turnTail'[t] = IF turnTail[t] = x THEN None ELSE turnTail[t]
        \/ t # ThreadOf[x] /\ turnTail'[t] = turnTail[t]
    BY DEF End, Cleared, LanesInv, TypeOK
  <2>6. CASE t # ThreadOf[x] /\ turnTail'[t] = turnTail[t]
    <3>1. x \notin TurnLine(t) /\ TurnLine(t) \ {x} = TurnLine(t)
      BY <2>6 DEF TurnLine
    <3>2. TurnLine(t) = {} \/ last = turnTail[t]
      BY <2>0, <2>1, <3>1 DEF SerialOrder
    <3>3. SerialOrder(TurnLine(t), turnTail[t], "turn", stage', waits', f, n)
      BY <2>4, <3>1, <3>2 DEF SerialOrder, Line
    <3> QED  BY <2>2, <2>6, <2>7, <3>1, <3>3
  <2> QED  BY <2>0, <2>2, <2>4, <2>5, <2>6, <2>7
<1> QED  BY <1>4, <1>5, <1>6 DEF EnvOrdered, ThreadOrdered, TurnOrdered

-----------------------------------------------------------------------------
(* Types, and lanes that name only what is in flight.                      *)

\* What a serial lane or a barrier names is in flight and may be waited for.
LEMMA TailsInFlight ==
    ASSUME LanesInv, NEW x \in Cmd
    PROVE  /\ Promise(barrier[ThreadOf[x]]) \in SUBSET InFlight
           /\ Promise(turnTail[ThreadOf[x]]) \in SUBSET InFlight
           /\ Promise(threadTail[Key(x)]) \in SUBSET InFlight
           /\ Pending(envLane[EnvOf[x]].tail) \in SUBSET InFlight
           /\ Pending(envLane[EnvOf[x]].writeTail) \in SUBSET InFlight
           /\ envLane[EnvOf[x]] \in [tail : SUBSET Cmd, writeTail : SUBSET Cmd]
<1>1. ThreadOf[x] \in Thread /\ EnvOf[x] \in Env /\ Key(x) \in Env \X Thread
  BY LanesAssumption DEF Key
<1>2. envLane[EnvOf[x]] \in [tail : SUBSET Cmd, writeTail : SUBSET Cmd]
  BY <1>1 DEF LanesInv, TypeOK
<1>3. /\ Promise(barrier[ThreadOf[x]]) \in SUBSET InFlight
      /\ Promise(turnTail[ThreadOf[x]]) \in SUBSET InFlight
      /\ Promise(threadTail[Key(x)]) \in SUBSET InFlight
  BY <1>1 DEF LanesInv, NoLaneLeft
<1>4. /\ Pending(envLane[EnvOf[x]].tail) \in SUBSET InFlight
      /\ Pending(envLane[EnvOf[x]].writeTail) \in SUBSET InFlight
  BY <1>1, <1>2 DEF LanesInv, Placed, Pending, InFlight
<1> QED  BY <1>2, <1>3, <1>4

\* x is queued in a lane, or runs: it is in flight then, and so is all it waits for.
Enters(x) ==
    \E lane \in {"barrier", "turn", "env", "thread", "runs"}, S \in SUBSET InFlight :
       /\ Queue(x, lane, S)
       /\ lane \in {"barrier", "turn"} => x \in Turns
       /\ lane = "env" => OnEnv(x)
       /\ lane = "thread" => OnThread(x)

LEMMA EnteringIsTyped ==
    ASSUME LanesInv, NEW x \in Cmd, Enters(x), stage[x] \notin {"runs", "done"},
           barrier' = BarrierWith(x) \/ UNCHANGED barrier,
           ahead' \in [Cmd -> SUBSET (Turns \union Unarchives)],
           \A c \in Cmd : ahead'[c] \subseteq InFlight,
           \/ UNCHANGED turnTail
           \/ x \in Turns /\ turnTail' = [turnTail EXCEPT ![ThreadOf[x]] = x],
           \/ UNCHANGED threadTail
           \/ threadTail' = [threadTail EXCEPT ![Key(x)] = x],
           \/ UNCHANGED envLane
           \/ envLane' = [envLane EXCEPT ![EnvOf[x]] = LaneWith(envLane[EnvOf[x]], x)]
    PROVE  TypeOK' /\ NoLaneLeft' /\ Placed'
<1>1. PICK lane \in {"barrier", "turn", "env", "thread", "runs"}, S \in SUBSET InFlight :
         /\ stage' = [stage EXCEPT ![x] = lane] /\ waits' = [waits EXCEPT ![x] = S]
         /\ lane \in {"barrier", "turn"} => x \in Turns
         /\ lane = "env" => OnEnv(x)
         /\ lane = "thread" => OnThread(x)
  BY DEF Enters, Queue
<1>2. /\ stage' \in [Cmd -> {"new", "barrier", "turn", "env", "thread", "runs", "done"}]
      /\ stage'[x] = lane /\ \A d \in Cmd \ {x} : stage'[d] = stage[d]
  BY <1>1 DEF LanesInv, TypeOK
<1>3. InFlight' = InFlight \union {x}
  BY <1>2 DEF InFlight
<1>4. waits' \in [Cmd -> SUBSET Cmd] /\ \A c \in Cmd : waits'[c] \subseteq InFlight'
  BY <1>1, <1>3 DEF LanesInv, TypeOK, InFlight
<1>5. /\ barrier' \in [Thread -> Unarchives \union {None}]
      /\ \A t \in Thread : barrier'[t] = barrier[t] \/ (barrier'[t] = x /\ t = ThreadOf[x])
  <2>1. barrier \in [Thread -> Unarchives \union {None}]
    BY DEF LanesInv, TypeOK
  <2>2. UNCHANGED barrier \/ (x \in Unarchives /\ barrier' = [barrier EXCEPT ![ThreadOf[x]] = x])
    BY DEF BarrierWith, Unarchives
  <2> QED  BY <2>1, <2>2
<1>6. /\ turnTail' \in [Thread -> Turns \union {None}]
      /\ \A t \in Thread : turnTail'[t] = turnTail[t] \/ (turnTail'[t] = x /\ t = ThreadOf[x])
  BY DEF LanesInv, TypeOK
<1>7. /\ threadTail' \in [Env \X Thread -> Cmd \union {None}]
      /\ \A k \in Env \X Thread :
            threadTail'[k] = threadTail[k] \/ (threadTail'[k] = x /\ k = Key(x))
  BY DEF LanesInv, TypeOK
<1>8. /\ envLane' \in [Env -> [tail : SUBSET Cmd, writeTail : SUBSET Cmd]]
      /\ \A e \in Env : \/ envLane'[e] = envLane[e]
                        \/ /\ e = EnvOf[x] /\ x \in envLane'[e].tail
                           /\ envLane'[e].tail \subseteq envLane[e].tail \union {x}
                           /\ envLane'[e].writeTail \subseteq envLane[e].writeTail \union {x}
  <2>1. CASE UNCHANGED envLane
    BY <2>1 DEF LanesInv, TypeOK
  <2>2. CASE envLane' = [envLane EXCEPT ![EnvOf[x]] = LaneWith(envLane[EnvOf[x]], x)]
    <3>1. EnvOf[x] \in Env /\ envLane[EnvOf[x]] \in [tail : SUBSET Cmd, writeTail : SUBSET Cmd]
      BY LanesAssumption, TailsInFlight
    <3>2. LaneWith(envLane[EnvOf[x]], x) \in [tail : SUBSET Cmd, writeTail : SUBSET Cmd]
      BY <3>1 DEF LaneWith
    <3>3. /\ x \in LaneWith(envLane[EnvOf[x]], x).tail
          /\ LaneWith(envLane[EnvOf[x]], x).tail \subseteq envLane[EnvOf[x]].tail \union {x}
          /\ LaneWith(envLane[EnvOf[x]], x).writeTail \subseteq envLane[EnvOf[x]].writeTail \union {x}
      BY <3>1 DEF LaneWith
    <3> QED  BY <2>2, <3>1, <3>2, <3>3 DEF LanesInv, TypeOK
  <2> QED  BY <2>1, <2>2
<1>9. TypeOK'
  BY <1>2, <1>3, <1>4, <1>5, <1>6, <1>7, <1>8 DEF TypeOK
<1>10. NoLaneLeft'
  <2>1. \A t \in Thread : Promise(barrier[t])' \union Promise(turnTail[t])' \subseteq InFlight'
    BY <1>3, <1>5, <1>6 DEF LanesInv, NoLaneLeft, Promise
  <2>2. \A k \in Env \X Thread : Promise(threadTail[k])' \subseteq InFlight'
    BY <1>3, <1>7 DEF LanesInv, NoLaneLeft, Promise
  <2>3. \A e \in Env : envLane'[e] = EmptyLane \/ Pending(envLane[e].tail)' # {}
    BY <1>2, <1>8 DEF LanesInv, NoLaneLeft, Pending
  <2> QED  BY <2>1, <2>2, <2>3 DEF NoLaneLeft
<1>11. Placed'
  <2>1. \A e \in Env : envLane'[e].tail \union envLane'[e].writeTail \subseteq
                          {c \in Cmd : EnvOf[c] = e /\ stage'[c] # "new"}
    <3> SUFFICES ASSUME NEW e \in Env, NEW c \in envLane'[e].tail \union envLane'[e].writeTail
                 PROVE  c \in Cmd /\ EnvOf[c] = e /\ stage'[c] # "new"
      OBVIOUS
    <3>1. stage'[x] # "new"
      BY <1>2
    <3>2. CASE c \in envLane[e].tail \union envLane[e].writeTail
      <4>1. c \in Cmd /\ EnvOf[c] = e /\ stage[c] # "new"
        BY <3>2 DEF LanesInv, Placed
      <4> QED  BY <1>2, <3>1, <4>1
    <3>3. CASE c \notin envLane[e].tail \union envLane[e].writeTail
      <4>1. c = x /\ e = EnvOf[x]
        BY <1>8, <3>3
      <4> QED  BY <3>1, <4>1
    <3> QED  BY <3>2, <3>3
  <2>2. \A t \in Thread : \A c \in Cmd : c \in {barrier'[t], turnTail'[t]} => ThreadOf[c] = t
    BY <1>5, <1>6 DEF LanesInv, Placed
  <2>3. \A k \in Env \X Thread : \A c \in Cmd : c = threadTail'[k] => Key(c) = k
    BY <1>7 DEF LanesInv, Placed
  <2>4. \A c \in Cmd : /\ stage'[c] \in {"barrier", "turn"} => c \in Turns
                       /\ stage'[c] = "env" => OnEnv(c)
                       /\ stage'[c] = "thread" => OnThread(c)
    BY <1>1, <1>2 DEF LanesInv, Placed
  <2> QED  BY <2>1, <2>2, <2>3, <2>4 DEF Placed
<1> QED  BY <1>9, <1>10, <1>11

LEMMA EndingIsTyped ==
    ASSUME LanesInv, NEW x \in Cmd, End(x)
    PROVE  TypeOK' /\ NoLaneLeft' /\ Placed'
<1>1. /\ stage[x] = "runs"
      /\ stage' \in [Cmd -> {"new", "barrier", "turn", "env", "thread", "runs", "done"}]
      /\ stage'[x] = "done" /\ \A d \in Cmd \ {x} : stage'[d] = stage[d]
  BY DEF End, LanesInv, TypeOK
<1>2. InFlight' = InFlight \ {x}
  BY <1>1 DEF InFlight
<1>3. /\ waits' \in [Cmd -> SUBSET Cmd] /\ ahead' \in [Cmd -> SUBSET (Turns \union Unarchives)]
      /\ \A c \in Cmd : waits'[c] \union ahead'[c] \subseteq InFlight'
  BY <1>2 DEF End, LanesInv, TypeOK
<1>4. /\ barrier' \in [Thread -> Unarchives \union {None}]
      /\ turnTail' \in [Thread -> Turns \union {None}]
      /\ threadTail' \in [Env \X Thread -> Cmd \union {None}]
  BY DEF End, Cleared, LanesInv, TypeOK
<1>5. envLane' \in [Env -> [tail : SUBSET Cmd, writeTail : SUBSET Cmd]]
  BY DEF End, EnvLaneCleared, EmptyLane, LanesInv, TypeOK
<1>6. TypeOK'
  BY <1>1, <1>3, <1>4, <1>5 DEF TypeOK
<1>7. ASSUME NEW t \in Thread
      PROVE  /\ barrier'[t] = None \/ (barrier'[t] = barrier[t] /\ barrier[t] # x)
             /\ turnTail'[t] = None \/ (turnTail'[t] = turnTail[t] /\ turnTail[t] # x)
  <2>1. x \in {barrier[t], turnTail[t]} => t = ThreadOf[x]
    BY DEF LanesInv, Placed
  <2> QED  BY <2>1 DEF End, Cleared, LanesInv, TypeOK
<1>8. ASSUME NEW k \in Env \X Thread
      PROVE  threadTail'[k] = None \/ (threadTail'[k] = threadTail[k] /\ threadTail[k] # x)
  <2>1. x = threadTail[k] => k = Key(x)
    BY DEF LanesInv, Placed
  <2> QED  BY <2>1 DEF End, Cleared, LanesInv, TypeOK
<1>9. ASSUME NEW e \in Env
      PROVE  \/ envLane'[e] = EmptyLane
             \/ envLane'[e] = envLane[e] /\ Pending(envLane[e].tail)' # {}
  <2>1. CASE e # EnvOf[x]
    <3>1. envLane'[e] = envLane[e] /\ x \notin envLane[e].tail
      BY <2>1 DEF End, EnvLaneCleared, LanesInv, TypeOK, Placed
    <3>2. envLane[e] = EmptyLane \/ Pending(envLane[e].tail) # {}
      BY DEF LanesInv, NoLaneLeft
    <3>3. envLane[e].tail \subseteq Cmd
      BY DEF LanesInv, TypeOK
    <3> QED  BY <1>1, <3>1, <3>2, <3>3 DEF Pending
  <2>2. CASE e = EnvOf[x] /\ Pending(envLane[e].tail) \subseteq {x}
    BY <2>2 DEF End, EnvLaneCleared, LanesInv, TypeOK
  <2>3. CASE e = EnvOf[x] /\ ~ (Pending(envLane[e].tail) \subseteq {x})
    <3>1. envLane'[e] = envLane[e]
      BY <2>3 DEF End, EnvLaneCleared
    <3>2. PICK c \in envLane[e].tail : c # x /\ stage[c] # "done"
      BY <2>3 DEF Pending
    <3>3. c \in Cmd
      BY DEF LanesInv, TypeOK
    <3> QED  BY <1>1, <3>1, <3>2, <3>3 DEF Pending
  <2> QED  BY <2>1, <2>2, <2>3
<1>10. NoLaneLeft'
  BY <1>2, <1>7, <1>8, <1>9 DEF LanesInv, NoLaneLeft, Promise
<1>11. Placed'
  <2>1. \A e \in Env : envLane'[e].tail \union envLane'[e].writeTail \subseteq
                          {c \in Cmd : EnvOf[c] = e /\ stage'[c] # "new"}
    BY <1>1, <1>9 DEF LanesInv, Placed, EmptyLane
  <2>2. \A t \in Thread : \A c \in Cmd : c \in {barrier'[t], turnTail'[t]} => ThreadOf[c] = t
    BY <1>7, LanesAssumption DEF LanesInv, Placed
  <2>3. \A k \in Env \X Thread : \A c \in Cmd : c = threadTail'[k] => Key(c) = k
    BY <1>8, LanesAssumption DEF LanesInv, Placed
  <2>4. \A c \in Cmd : /\ stage'[c] \in {"barrier", "turn"} => c \in Turns
                       /\ stage'[c] = "env" => OnEnv(c)
                       /\ stage'[c] = "thread" => OnThread(c)
    BY <1>1 DEF LanesInv, Placed
  <2> QED  BY <2>1, <2>2, <2>3, <2>4 DEF Placed
<1> QED  BY <1>6, <1>10, <1>11

-----------------------------------------------------------------------------
(* What waits at a barrier under the steps of a command x.                 *)

\* An unarchive that runs has none of its thread ahead of it: the lane of their
\* environment is for one write at a time, in the order of arrival.
LEMMA UnarchivesQueue ==
    ASSUME LanesInv, UnarchivesStay, NEW x \in Unarchives, stage[x] = "runs"
    PROVE  ahead[x] \intersect Unarchives = {}
<1> SUFFICES ASSUME NEW u \in ahead[x] \intersect Unarchives PROVE FALSE
  OBVIOUS
<1>1. x \in Cmd /\ u \in Cmd /\ EnvOf[u] = EnvOf[x] /\ u \in InFlight
  BY DEF LanesInv, BarrierInv, UnarchivesStay, TypeOK, Unarchives
<1>2. Kind[u] = "unarchive" /\ Kind[x] = "unarchive"
  BY DEF Unarchives
<1>3. stage[u] \in {"env", "runs"}
  BY <1>1, <1>2 DEF LanesInv, Placed, TypeOK, InFlight, Turns, OnThread
<1>4. u \in EnvLine(EnvOf[x]) /\ x \in EnvLine(EnvOf[x])
  BY <1>1, <1>2, <1>3 DEF EnvLine, InEnv, HoldsEnv, OnEnv
<1>5. PICK f \in [Cmd -> Nat], n \in Nat :
         /\ EnvOrder(EnvLine(EnvOf[x]), envLane[EnvOf[x]], stage, waits, f, n)
         /\ Respects(EnvLine(EnvOf[x]), Unarchives, ahead, f)
  BY <1>1, LanesAssumption DEF LanesInv, EnvOrdered
<1>6. f[u] < f[x] /\ Writes(u)
  BY <1>2, <1>4, <1>5 DEF Respects, Writes
<1> QED  BY <1>4, <1>5, <1>6 DEF EnvOrder

LEMMA BarrierContinues ==
    ASSUME LanesInv, NEW x \in Cmd, Continue(x), UnarchivesStay
    PROVE  BarrierInv'
<1>1. BarrierInv /\ UNCHANGED <<barrier, ahead>>
  BY DEF LanesInv, Continue
<1>0. PICK lane \in {"turn", "env", "thread", "runs"} : \E S : Queue(x, lane, S)
  BY DEF Continue, PassBarrier, PassTurnLane, PassEnvLane, PassThreadLane,
         JoinTurnLane, JoinEnvLane, JoinThreadLane, Run
<1>2. PICK S : Queue(x, lane, S)
  BY <1>0
<1>3. /\ stage[x] \in {"barrier", "turn", "env", "thread"} /\ stage'[x] = lane
      /\ \A d \in Cmd \ {x} : stage'[d] = stage[d] /\ waits'[d] = waits[d]
  BY <1>2 DEF Continue, PassBarrier, PassTurnLane, PassEnvLane, PassThreadLane, Ready,
              Queue, LanesInv, TypeOK
<1>4. InFlight' = InFlight /\ \A c \in Cmd : InTurnLane(c) => InTurnLane(c)'
  BY <1>3 DEF InFlight, InTurnLane, Turns
<1>5. ASSUME x \in Turns, NEW d \in ahead[x] PROVE InTurnLane(d)
  <2>1. CASE stage[x] # "barrier"
    BY <1>1, <1>3, <1>5, <2>1 DEF BarrierInv, InTurnLane
  <2>2. CASE stage[x] = "barrier"
    <3>1. Ready(x, "barrier") /\ \A c \in ahead[x] : ~ Ready(c, "barrier")
      BY <2>2 DEF Continue, PassBarrier, PassTurnLane, PassEnvLane, PassThreadLane, Ready
    <3>2. d \in Turns /\ d \in InFlight
      BY <1>1, <2>2, <3>1 DEF BarrierInv, Ready, LanesInv, TypeOK
    <3>3. stage[d] # "barrier"
      <4>1. SUFFICES ASSUME stage[d] = "barrier" PROVE FALSE
        OBVIOUS
      <4>2. \A u \in ahead[x] : u \notin Unarchives
        BY <1>1, <2>2, <3>1 DEF BarrierInv, Ready
      <4>3. waits[d] \subseteq Unarchives /\ waits[d] \subseteq ahead[x]
        BY <1>1, <2>2, <3>2, <4>1 DEF BarrierInv, Turns
      <4>4. waits[d] = {}
        BY <4>2, <4>3
      <4> QED  BY <3>1, <4>1, <4>4 DEF Ready
    <3> QED  BY <3>2, <3>3 DEF InTurnLane, InFlight, LanesInv, TypeOK
  <2> QED  BY <2>1, <2>2
<1>6. \A c \in Cmd : InTurnLane(c)' => \A d \in ahead'[c] : InTurnLane(d)'
  <2> SUFFICES ASSUME NEW c \in Cmd, InTurnLane(c)', NEW d \in ahead[c] PROVE InTurnLane(d)'
    BY <1>1
  <2>1. d \in Cmd
    BY DEF LanesInv, TypeOK, Turns, Unarchives
  <2>2. InTurnLane(d)
    BY <1>1, <1>3, <1>5 DEF BarrierInv, InTurnLane
  <2> QED  BY <1>4, <2>1, <2>2
<1>7. \A c \in Cmd : stage'[c] = "barrier" =>
         /\ \A b \in waits'[c] : b \in Unarchives /\ ThreadOf[b] = ThreadOf[c]
         /\ \A u \in ahead'[c] \intersect Unarchives : \E b \in waits'[c] : b = u \/ u \in ahead'[b]
         /\ \A d \in ahead'[c] : stage'[d] = "barrier" => waits'[d] \subseteq ahead'[c]
  <2> SUFFICES ASSUME NEW c \in Cmd, stage'[c] = "barrier"
               PROVE  /\ \A b \in waits'[c] : b \in Unarchives /\ ThreadOf[b] = ThreadOf[c]
                      /\ \A u \in ahead'[c] \intersect Unarchives :
                            \E b \in waits'[c] : b = u \/ u \in ahead'[b]
                      /\ \A d \in ahead'[c] : stage'[d] = "barrier" => waits'[d] \subseteq ahead'[c]
    OBVIOUS
  <2>1. c # x /\ stage[c] = "barrier" /\ waits'[c] = waits[c] /\ ahead'[c] = ahead[c]
    BY <1>1, <1>3
  <2>2. \A d \in ahead[c] : d \in Cmd
    BY DEF LanesInv, TypeOK, Turns, Unarchives
  <2> QED  BY <1>1, <1>3, <2>1, <2>2 DEF BarrierInv
<1> QED  BY <1>1, <1>4, <1>6, <1>7 DEF BarrierInv

LEMMA BarrierShrinks ==
    ASSUME LanesInv, NEW x \in Cmd, End(x), UnarchivesStay
    PROVE  BarrierInv'
<1>1. /\ BarrierInv /\ stage[x] = "runs" /\ stage'[x] = "done"
      /\ \A d \in Cmd \ {x} : stage'[d] = stage[d]
      /\ \A d \in Cmd : waits'[d] = waits[d] \ {x} /\ ahead'[d] = ahead[d] \ {x}
  BY DEF LanesInv, TypeOK, End
<1>2. /\ \A c \in Cmd : ahead[c] \subseteq Cmd /\ waits[c] \subseteq Cmd
      /\ InFlight' = InFlight \ {x}
  BY <1>1 DEF LanesInv, TypeOK, Turns, Unarchives, InFlight
<1>3. \A u \in Unarchives : x \in Unarchives => u \notin ahead[x]
  BY <1>1, UnarchivesQueue
<1>4. \A c \in Cmd : InTurnLane(c)' <=> (c # x /\ InTurnLane(c))
  BY <1>1 DEF InTurnLane, Turns
<1>5. ASSUME NEW c \in Cmd, stage'[c] = "barrier"
      PROVE  /\ \A b \in waits'[c] : b \in Unarchives /\ ThreadOf[b] = ThreadOf[c]
             /\ \A u \in ahead'[c] \intersect Unarchives : \E b \in waits'[c] : b = u \/ u \in ahead'[b]
             /\ \A d \in ahead'[c] : stage'[d] = "barrier" => waits'[d] \subseteq ahead'[c]
  <2>1. stage[c] = "barrier" /\ c # x
    BY <1>1, <1>5
  <2>2. \A b \in waits[c] : b \in Unarchives /\ ThreadOf[b] = ThreadOf[c]
    BY <1>1, <2>1 DEF BarrierInv
  <2>3. ASSUME NEW u \in ahead'[c] \intersect Unarchives
        PROVE  \E b \in waits'[c] : b = u \/ u \in ahead'[b]
    <3>1. u # x /\ u \in ahead[c]
      BY <1>1
    <3>2. PICK b \in waits[c] : b = u \/ u \in ahead[b]
      BY <1>1, <2>1, <3>1 DEF BarrierInv
    <3>3. b # x
      BY <1>3, <2>2, <3>1, <3>2
    <3> QED  BY <1>1, <1>2, <3>1, <3>2, <3>3
  <2>4. ASSUME NEW d \in ahead'[c], stage'[d] = "barrier" PROVE waits'[d] \subseteq ahead'[c]
    <3>1. d \in ahead[c] /\ d \in Cmd /\ stage[d] = "barrier"
      BY <1>1, <1>2, <2>4
    <3>2. waits[d] \subseteq ahead[c]
      BY <1>1, <2>1, <3>1 DEF BarrierInv
    <3> QED  BY <1>1, <3>1, <3>2
  <2> QED  BY <1>1, <2>2, <2>3, <2>4
<1>6. ASSUME NEW u \in InFlight' \intersect Unarchives
      PROVE  LET b == barrier'[ThreadOf[u]] IN b \in Unarchives /\ (b = u \/ u \in ahead'[b])
  <2>1. u # x /\ u \in InFlight /\ u \in Cmd
    BY <1>2 DEF InFlight
  <2>2. PICK b : b = barrier[ThreadOf[u]] /\ b \in Unarchives /\ (b = u \/ u \in ahead[b])
    BY <1>1, <2>1 DEF BarrierInv
  <2>3. b # x /\ b \in Cmd
    BY <1>3, <2>1, <2>2 DEF Unarchives
  <2>4. barrier'[ThreadOf[u]] = b
    BY <2>1, <2>2, <2>3, LanesAssumption DEF End, Cleared, LanesInv, TypeOK
  <2> QED  BY <1>1, <2>1, <2>2, <2>3, <2>4
<1>7. \A c \in Cmd : \A d \in ahead'[c] : d # c /\ ThreadOf[d] = ThreadOf[c]
  BY <1>1 DEF BarrierInv
<1>8. \A c \in Cmd : InTurnLane(c)' => \A d \in ahead'[c] : InTurnLane(d)'
  BY <1>1, <1>2, <1>4 DEF BarrierInv
<1> QED  BY <1>5, <1>6, <1>7, <1>8 DEF BarrierInv

LEMMA BarrierGrows ==
    ASSUME LanesInv, NEW x \in Cmd, Arrive(x), UnarchivesStay
    PROVE  BarrierInv'
<1> DEFINE t == ThreadOf[x]
<1>1. /\ BarrierInv /\ stage[x] = "new" /\ Quiet /\ barrier' = BarrierWith(x)
      /\ ahead' = [ahead EXCEPT ![x] =
                     {d \in InFlight : d \in Turns \union Unarchives /\ ThreadOf[d] = t}]
      /\ t \in Thread /\ ahead \in [Cmd -> SUBSET (Turns \union Unarchives)]
  BY LanesAssumption DEF LanesInv, TypeOK, Arrive
<1>2. /\ \A d \in Cmd \ {x} : ahead'[d] = ahead[d]
      /\ ahead'[x] = {d \in InFlight : d \in Turns \union Unarchives /\ ThreadOf[d] = t}
  BY <1>1
<1>3. x \notin InFlight /\ \A c \in Cmd : ahead[c] \union waits[c] \subseteq InFlight
  BY <1>1 DEF LanesInv, TypeOK, InFlight
<1>4. /\ \A d \in Cmd \ {x} : stage'[d] = stage[d] /\ waits'[d] = waits[d]
      /\ stage'[x] \in {"barrier", "turn", "env", "thread"}
      /\ x \in Turns => \/ stage'[x] = "turn" /\ barrier[t] = None
                        \/ stage'[x] = "barrier" /\ waits'[x] = Promise(barrier[t])
      /\ stage'[x] = "barrier" => x \in Turns
  <2> DEFINE Way(lane, S) == /\ Queue(x, lane, S)
                             /\ x \in Turns => \/ lane = "turn" /\ Promise(barrier[t]) = {}
                                               \/ lane = "barrier" /\ S = Promise(barrier[t])
                             /\ lane = "barrier" => x \in Turns
  <2>1. PICK lane \in {"barrier", "turn", "env", "thread"} : \E S : Way(lane, S)
    BY DEF Arrive, Enter, JoinTurnLane, JoinEnvLane, JoinThreadLane, Turns
  <2>2. PICK S : Way(lane, S)
    BY <2>1
  <2>3. Promise(barrier[t]) = {} => barrier[t] = None
    BY DEF Promise
  <2> QED  BY <2>2, <2>3 DEF Queue, LanesInv, TypeOK
<1>5. InFlight' = InFlight \union {x} /\ InFlight \subseteq Cmd
  BY <1>4 DEF InFlight
<1>6. /\ \A u \in Thread : barrier'[u] = IF x \in Unarchives /\ u = t THEN x ELSE barrier[u]
      /\ \A u \in Thread : barrier[u] # x
      /\ barrier[t] \in Unarchives => ThreadOf[barrier[t]] = t
  <2>1. \A u \in Thread : barrier'[u] = IF x \in Unarchives /\ u = t THEN x ELSE barrier[u]
    BY <1>1 DEF BarrierWith, Unarchives, LanesInv, TypeOK
  <2>2. \A u \in Thread : barrier[u] # x
    BY <1>3, LanesAssumption DEF LanesInv, NoLaneLeft, Promise
  <2>3. barrier[t] \in Unarchives => ThreadOf[barrier[t]] = t
    BY <1>1 DEF LanesInv, Placed, Unarchives
  <2> QED  BY <2>1, <2>2, <2>3
<1>7. \A c \in Cmd : \A d \in ahead'[c] : d # c /\ ThreadOf[d] = ThreadOf[c]
  BY <1>1, <1>2, <1>3 DEF BarrierInv
<1>8. ASSUME NEW c \in Cmd, InTurnLane(c)', NEW d \in ahead'[c] PROVE InTurnLane(d)'
  <2>1. d \in InFlight /\ d \in Cmd \ {x}
    BY <1>2, <1>3, <1>5
  <2>2. CASE c # x
    <3>1. InTurnLane(c) /\ d \in ahead[c]
      BY <1>2, <1>4, <1>8, <2>2 DEF InTurnLane
    <3> QED  BY <1>1, <1>4, <2>1, <3>1 DEF BarrierInv, InTurnLane
  <2>3. CASE c = x
    <3>1. x \in Turns /\ stage'[x] # "barrier" /\ barrier[t] = None
      BY <1>4, <1>8, <2>3 DEF InTurnLane
    <3>2. \A u \in InFlight \intersect Unarchives : ThreadOf[u] # t
      BY <1>1, <3>1, LanesAssumption DEF BarrierInv, Unarchives
    <3>3. d \in Turns /\ ThreadOf[d] = t
      BY <1>2, <2>1, <2>3, <3>2
    <3>4. stage[d] # "barrier"
      <4>1. SUFFICES ASSUME stage[d] = "barrier" PROVE FALSE
        OBVIOUS
      <4>2. \A b \in waits[d] : b \in Unarchives /\ ThreadOf[b] = t /\ b \in InFlight
        BY <1>1, <1>3, <2>1, <3>3, <4>1 DEF BarrierInv
      <4>3. waits[d] = {}
        BY <3>2, <4>2
      <4> QED  BY <1>1, <2>1, <4>1, <4>3 DEF Quiet, Ready
    <3> QED  BY <1>4, <2>1, <3>3, <3>4 DEF InTurnLane, InFlight, LanesInv, TypeOK
  <2> QED  BY <2>2, <2>3
<1>9. ASSUME NEW c \in Cmd, stage'[c] = "barrier"
      PROVE  /\ \A b \in waits'[c] : b \in Unarchives /\ ThreadOf[b] = ThreadOf[c]
             /\ \A u \in ahead'[c] \intersect Unarchives : \E b \in waits'[c] : b = u \/ u \in ahead'[b]
             /\ \A d \in ahead'[c] : stage'[d] = "barrier" => waits'[d] \subseteq ahead'[c]
  <2>1. CASE c # x
    <3>1. stage[c] = "barrier" /\ waits'[c] = waits[c] /\ ahead'[c] = ahead[c]
      BY <1>2, <1>4, <1>9, <2>1
    <3>2. \A d \in ahead[c] \union waits[c] : d \in Cmd \ {x}
      BY <1>3, <1>5
    <3>3. /\ \A b \in waits[c] : b \in Unarchives /\ ThreadOf[b] = ThreadOf[c]
          /\ \A u \in ahead[c] \intersect Unarchives : \E b \in waits[c] : b = u \/ u \in ahead[b]
          /\ \A d \in ahead[c] : stage[d] = "barrier" => waits[d] \subseteq ahead[c]
      BY <1>1, <3>1 DEF BarrierInv
    <3> QED  BY <1>2, <1>4, <3>1, <3>2, <3>3
  <2>2. CASE c = x
    <3>1. x \in Turns /\ waits'[x] = Promise(barrier[t])
      BY <1>4, <1>9, <2>2
    <3>2. \A b \in waits'[x] : b = barrier[t] /\ b \in Unarchives /\ ThreadOf[b] = t
      BY <1>1, <1>6, <3>1 DEF Promise, LanesInv, TypeOK
    <3>3. ASSUME NEW u \in ahead'[x] \intersect Unarchives
          PROVE  \E b \in waits'[x] : b = u \/ u \in ahead'[b]
      <4>1. u \in InFlight /\ ThreadOf[u] = t
        BY <1>2
      <4>2. barrier[t] \in Unarchives /\ (barrier[t] = u \/ u \in ahead[barrier[t]])
        BY <1>1, <4>1 DEF BarrierInv
      <4>3. barrier[t] \in Cmd \ {x} /\ barrier[t] \in waits'[x]
        BY <1>1, <1>6, <3>1, <4>2, LanesAssumption DEF Unarchives, Promise
      <4> QED  BY <1>2, <4>2, <4>3
    <3>4. ASSUME NEW d \in ahead'[x], stage'[d] = "barrier" PROVE waits'[d] \subseteq ahead'[x]
      <4>1. d \in InFlight /\ d \in Cmd \ {x} /\ ThreadOf[d] = t
        BY <1>2, <1>3, <1>5
      <4>2. \A b \in waits[d] : b \in Unarchives /\ ThreadOf[b] = t /\ b \in InFlight
        BY <1>1, <1>3, <1>4, <3>4, <4>1 DEF BarrierInv
      <4> QED  BY <1>2, <1>4, <4>1, <4>2
    <3> QED  BY <2>2, <3>2, <3>3, <3>4
  <2> QED  BY <2>1, <2>2
<1>10. ASSUME NEW u \in InFlight' \intersect Unarchives
       PROVE  LET b == barrier'[ThreadOf[u]] IN b \in Unarchives /\ (b = u \/ u \in ahead'[b])
  <2>1. u \in Cmd /\ ThreadOf[u] \in Thread
    BY LanesAssumption DEF Unarchives
  <2>2. CASE x \in Unarchives /\ ThreadOf[u] = t
    <3>1. barrier'[ThreadOf[u]] = x
      BY <1>6, <2>1, <2>2
    <3> QED  BY <1>2, <1>5, <2>2, <3>1
  <2>3. CASE ~ (x \in Unarchives /\ ThreadOf[u] = t)
    <3>1. u # x /\ u \in InFlight /\ barrier'[ThreadOf[u]] = barrier[ThreadOf[u]]
      BY <1>5, <1>6, <2>1, <2>3
    <3>2. /\ barrier[ThreadOf[u]] \in Unarchives
          /\ barrier[ThreadOf[u]] = u \/ u \in ahead[barrier[ThreadOf[u]]]
      BY <1>1, <3>1 DEF BarrierInv
    <3>3. barrier[ThreadOf[u]] \in Cmd \ {x}
      BY <1>6, <2>1, <3>2 DEF Unarchives
    <3> QED  BY <1>2, <3>1, <3>2, <3>3
  <2> QED  BY <2>2, <2>3
<1> QED  BY <1>7, <1>8, <1>9, <1>10 DEF BarrierInv

-----------------------------------------------------------------------------
(* Every step keeps the invariant.                                         *)

\* A command that moves to a stage with what it waits for.
LEMMA QueueMoves ==
    ASSUME LanesInv, NEW x \in Cmd, NEW lane, NEW S, Queue(x, lane, S),
           stage[x] \notin {"new", "runs"} => waits[x] = {},
           \A d \in Cmd : d # x \/ stage[x] # "new" => ahead'[d] = ahead[d],
           \A d \in Cmd : ahead'[d] \subseteq InFlight
    PROVE  OnlyMoves(x) /\ stage'[x] = lane /\ waits'[x] = S
BY DEF LanesInv, TypeOK, Queue, OnlyMoves

LEMMA ContinueKeeps ==
    ASSUME LanesInv, NEW x \in Cmd, Continue(x)
    PROVE  LanesInv'
<1>1. UNCHANGED <<barrier, ahead>>
  BY DEF Continue
<1>2. /\ ahead' \in [Cmd -> SUBSET (Turns \union Unarchives)]
      /\ \A c \in Cmd : ahead'[c] \subseteq InFlight
      /\ \A c \in Cmd : c # x \/ stage[x] # "new" => ahead'[c] = ahead[c]
  BY <1>1 DEF LanesInv, TypeOK
<1>7. UnarchivesStay => BarrierInv'
  BY BarrierContinues
<1>3. CASE PassBarrier(x)
  <2>1. stage[x] = "barrier" /\ waits[x] = {} /\ x \in Turns /\ JoinTurnLane(x)
    BY <1>3 DEF PassBarrier, Ready, LanesInv, Placed
  <2>2. Queue(x, "turn", Promise(turnTail[ThreadOf[x]])) /\ UNCHANGED <<threadTail, envLane>>
    BY <2>1 DEF JoinTurnLane
  <2>3. OnlyMoves(x) /\ stage'[x] = "turn"
    BY <1>2, <2>1, <2>2, QueueMoves
  <2>4. Enters(x)
    BY <2>1, <2>2, TailsInFlight DEF Enters
  <2>5. TypeOK' /\ NoLaneLeft' /\ Placed'
    BY <1>1, <1>2, <2>1, <2>2, <2>4, EnteringIsTyped DEF JoinTurnLane
  <2>6. EnvOrdered' /\ ThreadOrdered'
    BY <2>1, <2>2, <2>3, EnvStays, ThreadStays DEF InEnv, HoldsEnv
  <2>7. UnarchivesStay => \A d \in TurnLine(ThreadOf[x]) \union {x} : x \notin ahead'[d]
    BY <1>1, <2>1 DEF LanesInv, BarrierInv, InTurnLane, TurnLine, Turns
  <2> QED  BY <1>7, <2>1, <2>3, <2>5, <2>6, <2>7, TurnJoins DEF LanesInv
<1>4. CASE PassTurnLane(x)
  <2>1. stage[x] = "turn" /\ waits[x] = {} /\ x \in Turns /\ OnEnv(x) /\ JoinEnvLane(x)
    BY <1>4 DEF PassTurnLane, Ready, LanesInv, Placed, Turns, OnEnv
  <2>2. PICK S \in SUBSET InFlight : Queue(x, "env", S)
    BY <2>1, TailsInFlight DEF JoinEnvLane
  <2>3. OnlyMoves(x) /\ stage'[x] = "env" /\ UNCHANGED <<turnTail, threadTail>>
    BY <1>2, <2>1, <2>2, QueueMoves DEF JoinEnvLane
  <2>4. Enters(x)
    BY <2>1, <2>2 DEF Enters
  <2>5. TypeOK' /\ NoLaneLeft' /\ Placed'
    BY <1>1, <1>2, <2>1, <2>3, <2>4, EnteringIsTyped DEF JoinEnvLane
  <2>6. TurnOrdered' /\ ThreadOrdered'
    BY <2>1, <2>3, TurnStays, ThreadStays
  <2> QED  BY <1>7, <2>1, <2>3, <2>5, <2>6, EnvJoins DEF LanesInv
<1>5. CASE PassEnvLane(x) /\ OnThread(x)
  <2>1. stage[x] = "env" /\ waits[x] = {} /\ OnEnv(x) /\ JoinThreadLane(x)
    BY <1>5 DEF PassEnvLane, Ready, LanesInv, Placed
  <2>2. Queue(x, "thread", Promise(threadTail[Key(x)])) /\ UNCHANGED <<turnTail, envLane>>
    BY <2>1 DEF JoinThreadLane
  <2>3. OnlyMoves(x) /\ stage'[x] = "thread"
    BY <1>2, <2>1, <2>2, QueueMoves
  <2>4. Enters(x)
    BY <1>5, <2>2, TailsInFlight DEF Enters
  <2>5. TypeOK' /\ NoLaneLeft' /\ Placed'
    BY <1>1, <1>2, <2>1, <2>2, <2>4, EnteringIsTyped DEF JoinThreadLane
  <2>6. EnvOrdered' /\ TurnOrdered'
    BY <1>5, <2>1, <2>2, <2>3, EnvStays, TurnStays DEF InEnv, HoldsEnv
  <2> QED  BY <1>5, <1>7, <2>1, <2>3, <2>5, <2>6, ThreadJoins DEF LanesInv
<1>6. CASE Run(x) /\ (\/ PassThreadLane(x)
                      \/ PassEnvLane(x) /\ ~ OnThread(x))
  <2>1. /\ Queue(x, "runs", {}) /\ UNCHANGED <<turnTail, threadTail, envLane>>
        /\ stage[x] \in {"thread", "env"} /\ waits[x] = {}
        /\ stage[x] = "env" => ~ OnThread(x)
        /\ stage[x] = "thread" => OnThread(x)
        /\ stage[x] = "env" => OnEnv(x)
    BY <1>6 DEF Run, PassThreadLane, PassEnvLane, Ready, LanesInv, Placed
  <2>2. OnlyMoves(x) /\ stage'[x] = "runs"
    BY <1>2, <2>1, QueueMoves
  <2>3. {} \in SUBSET InFlight
    OBVIOUS
  <2>4. Enters(x)
    BY <2>1, <2>3 DEF Enters
  <2>5. TypeOK' /\ NoLaneLeft' /\ Placed'
    BY <1>1, <1>2, <2>1, <2>4, EnteringIsTyped
  <2>6. EnvOrdered'
    BY <2>1, <2>2, EnvStays DEF InEnv, HoldsEnv
  <2>7. ThreadOrdered' /\ TurnOrdered'
    BY <2>1, <2>2, ThreadStays, TurnStays DEF OnThread, Turns
  <2> QED  BY <1>7, <2>5, <2>6, <2>7 DEF LanesInv
<1> QED  BY <1>3, <1>4, <1>5, <1>6 DEF Continue, PassEnvLane, PassThreadLane

LEMMA ArriveKeeps ==
    ASSUME LanesInv, NEW x \in Cmd, Arrive(x)
    PROVE  LanesInv'
<1>1. stage[x] = "new" /\ Enter(x) /\ barrier' = BarrierWith(x)
  BY DEF Arrive
<1>2. /\ ahead' \in [Cmd -> SUBSET (Turns \union Unarchives)]
      /\ \A c \in Cmd : ahead'[c] \subseteq InFlight
      /\ \A c \in Cmd : c # x \/ stage[x] # "new" => ahead'[c] = ahead[c]
  <2>1. {d \in InFlight : d \in Turns \union Unarchives /\ ThreadOf[d] = ThreadOf[x]}
           \in SUBSET (Turns \union Unarchives)
    OBVIOUS
  <2> QED  BY <2>1 DEF Arrive, LanesInv, TypeOK
<1>7. UnarchivesStay => BarrierInv'
  BY BarrierGrows
<1>3. CASE Kind[x] = "turn" /\ JoinTurnLane(x)
  <2>1. x \in Turns
    BY <1>3 DEF Turns
  <2>2. Queue(x, "turn", Promise(turnTail[ThreadOf[x]])) /\ UNCHANGED <<threadTail, envLane>>
    BY <1>3 DEF JoinTurnLane
  <2>3. OnlyMoves(x) /\ stage'[x] = "turn"
    BY <1>1, <1>2, <2>2, QueueMoves
  <2>4. Enters(x)
    BY <2>1, <2>2, TailsInFlight DEF Enters
  <2>5. TypeOK' /\ NoLaneLeft' /\ Placed'
    BY <1>1, <1>2, <1>3, <2>1, <2>2, <2>4, EnteringIsTyped DEF JoinTurnLane
  <2>6. EnvOrdered' /\ ThreadOrdered'
    BY <1>1, <2>2, <2>3, EnvStays, ThreadStays DEF InEnv, HoldsEnv
  <2>7. \A d \in TurnLine(ThreadOf[x]) \union {x} : x \notin ahead'[d]
    BY <1>1, <1>2 DEF InFlight, TurnLine, Turns
  <2> QED  BY <1>1, <1>3, <1>7, <2>1, <2>3, <2>5, <2>6, <2>7, TurnJoins DEF LanesInv
<1>4. CASE /\ Kind[x] = "turn" /\ UNCHANGED lanes
           /\ Queue(x, "barrier", Promise(barrier[ThreadOf[x]]))
  <2>1. x \in Turns /\ UNCHANGED <<turnTail, threadTail, envLane>>
    BY <1>4 DEF Turns, lanes
  <2>2. OnlyMoves(x) /\ stage'[x] = "barrier"
    BY <1>1, <1>2, <1>4, QueueMoves
  <2>3. Enters(x)
    BY <1>4, <2>1, TailsInFlight DEF Enters
  <2>4. TypeOK' /\ NoLaneLeft' /\ Placed'
    BY <1>1, <1>2, <2>1, <2>3, EnteringIsTyped
  <2>5. EnvOrdered' /\ ThreadOrdered' /\ TurnOrdered'
    BY <1>1, <2>1, <2>2, EnvStays, ThreadStays, TurnStays DEF InEnv, HoldsEnv
  <2> QED  BY <1>7, <2>4, <2>5 DEF LanesInv
<1>5. CASE x \notin Turns /\ OnEnv(x) /\ JoinEnvLane(x)
  <2>1. PICK S \in SUBSET InFlight : Queue(x, "env", S)
    BY <1>5, TailsInFlight DEF JoinEnvLane
  <2>2. OnlyMoves(x) /\ stage'[x] = "env" /\ UNCHANGED <<turnTail, threadTail>>
    BY <1>1, <1>2, <1>5, <2>1, QueueMoves DEF JoinEnvLane
  <2>3. Enters(x)
    BY <1>5, <2>1 DEF Enters
  <2>4. TypeOK' /\ NoLaneLeft' /\ Placed'
    BY <1>1, <1>2, <1>5, <2>2, <2>3, EnteringIsTyped DEF JoinEnvLane
  <2>5. ThreadOrdered' /\ TurnOrdered'
    BY <1>1, <1>5, <2>2, ThreadStays, TurnStays
  <2> QED  BY <1>1, <1>5, <1>7, <2>2, <2>4, <2>5, EnvJoins DEF LanesInv
<1>6. CASE x \notin Turns /\ ~ OnEnv(x) /\ JoinThreadLane(x)
  <2>1. OnThread(x)
    BY <1>6 DEF OnEnv, OnThread
  <2>2. Queue(x, "thread", Promise(threadTail[Key(x)])) /\ UNCHANGED <<turnTail, envLane>>
    BY <1>6 DEF JoinThreadLane
  <2>3. OnlyMoves(x) /\ stage'[x] = "thread"
    BY <1>1, <1>2, <2>2, QueueMoves
  <2>4. Enters(x)
    BY <2>1, <2>2, TailsInFlight DEF Enters
  <2>5. TypeOK' /\ NoLaneLeft' /\ Placed'
    BY <1>1, <1>2, <1>6, <2>2, <2>4, EnteringIsTyped DEF JoinThreadLane
  <2>6. EnvOrdered' /\ TurnOrdered'
    BY <1>1, <1>6, <2>2, <2>3, EnvStays, TurnStays DEF InEnv, HoldsEnv
  <2> QED  BY <1>1, <1>6, <1>7, <2>1, <2>3, <2>5, <2>6, ThreadJoins DEF LanesInv
<1> QED  BY <1>1, <1>3, <1>4, <1>5, <1>6 DEF Enter, Turns

LEMMA LanesNext == LanesInv /\ [Next]_vars => LanesInv'
<1> SUFFICES ASSUME LanesInv, [Next]_vars PROVE LanesInv'
  OBVIOUS
<1>1. CASE UNCHANGED vars
  <2>1. /\ stage' = stage /\ waits' = waits /\ barrier' = barrier /\ ahead' = ahead
        /\ turnTail' = turnTail /\ threadTail' = threadTail /\ envLane' = envLane
    BY <1>1 DEF vars, lanes
  <2>2. TypeOK'
    BY <2>1 DEF LanesInv, TypeOK, InFlight
  <2>3. NoLaneLeft'
    BY <2>1 DEF LanesInv, NoLaneLeft, InFlight, Pending
  <2>4. Placed'
    BY <2>1 DEF LanesInv, Placed
  <2>5. EnvOrdered'
    BY <2>1 DEF LanesInv, EnvOrdered, EnvLine, InEnv, HoldsEnv, Respects
  <2>6. ThreadOrdered'
    BY <2>1 DEF LanesInv, ThreadOrdered, ThreadLine
  <2>7. TurnOrdered'
    <3>1. TurnOrdered /\ (\A t \in Thread : TurnLine(t)' = TurnLine(t))
      BY <2>1 DEF LanesInv, TurnLine, Turns
    <3> QED  BY <2>1, <3>1 DEF TurnOrdered
  <2>8. BarrierInv => BarrierInv'
    BY <2>1 DEF BarrierInv, InTurnLane, InFlight
  <2> QED  BY <2>2, <2>3, <2>4, <2>5, <2>6, <2>7, <2>8 DEF LanesInv
<1>2. ASSUME NEW x \in Cmd, End(x) PROVE LanesInv'
  BY <1>2, EndingIsTyped, EndLeaves, BarrierShrinks DEF LanesInv
<1> QED  BY <1>1, <1>2, ArriveKeeps, ContinueKeeps DEF Next

LEMMA LanesAlways == Spec => []LanesInv
BY LanesInit, LanesNext, PTL DEF Spec

-----------------------------------------------------------------------------
(* No order of arrival blocks the router.  A command goes from lane to     *)
(* lane, and waits only for commands that are in its lane since before it  *)
(* (r is when a command entered the lane it is in), or in a later one.     *)

LevelOf(lane) ==
    IF lane = "barrier" THEN 4
    ELSE IF lane = "turn" THEN 3
    ELSE IF lane = "env" THEN 2
    ELSE IF lane = "thread" THEN 1 ELSE 0

Level(c) == LevelOf(stage[c])
Entered(c, lane) == stage[c] # "new" /\ Level(c) <= LevelOf(lane)

TailsEntered ==
    /\ \A t \in Thread : \A c \in Promise(turnTail[t]) : Entered(c, "turn")
    /\ \A k \in Env \X Thread : \A c \in Promise(threadTail[k]) : Entered(c, "thread")
    /\ \A e \in Env : \A c \in envLane[e].tail \union envLane[e].writeTail : Entered(c, "env")

WaitsBehind(r, n) ==
    \A c \in Cmd :
       /\ r[c] < n
       /\ \A d \in waits[c] : Level(d) < Level(c) \/ (Level(d) = Level(c) /\ r[d] < r[c])
       /\ \A d \in ahead[c] : stage[c] = "barrier" /\ stage[d] = "barrier" => r[d] < r[c]

FlowInv ==
    /\ LanesInv /\ TailsEntered
    /\ \E r \in [Cmd -> Nat], n \in Nat : WaitsBehind(r, n)

\* c can take a step: its body ends, or its next lane admits it.
GoesOn(c) ==
    \/ stage[c] = "runs"
    \/ \E lane \in {"turn", "env", "thread"} : Ready(c, lane)
    \/ Ready(c, "barrier") /\ \A d \in ahead[c] : ~ Ready(d, "barrier")

NeverBlocked == InFlight # {} => \E c \in InFlight : GoesOn(c)

LEMMA LevelIsNat ==
    /\ \A lane : LevelOf(lane) \in 0..4
    /\ \A c \in Cmd : Level(c) \in 0..4
BY DEF LevelOf, Level

LEMMA LeastNumber ==
    ASSUME NEW T, T \subseteq Nat, T # {}
    PROVE  \E i \in T : \A j \in T : i <= j
<1>1. PICK i \in T : \A j \in T : ~ (<<j, i>> \in OpToRel(<, Nat))
  BY NatLessThanWellFounded, WFMin
<1>2. \A j \in T : ~ (j < i)
  BY <1>1 DEF OpToRel
<1> QED  BY <1>2

\* The command that is furthest, and there the longest, waits for nobody.
LEMMA FurthestGoesOn ==
    ASSUME FlowInv, InFlight # {}
    PROVE  \E c \in InFlight : GoesOn(c)
<1>1. PICK r \in [Cmd -> Nat], n \in Nat : WaitsBehind(r, n)
  BY DEF FlowInv
<1>2. InFlight \subseteq Cmd /\ \A c \in Cmd : waits[c] \subseteq InFlight /\ ahead[c] \subseteq InFlight
  BY DEF FlowInv, LanesInv, TypeOK, InFlight
<1> DEFINE levels == {Level(c) : c \in InFlight}
<1>3. levels \subseteq Nat /\ levels # {}
  BY <1>2, LevelIsNat
<1>4. PICK l \in levels : \A j \in levels : l <= j
  BY <1>3, LeastNumber
<1> DEFINE here == {c \in InFlight : Level(c) = l}
           since == {r[c] : c \in here}
<1>5. since \subseteq Nat /\ since # {}
  BY <1>2, <1>4
<1>6. PICK i \in since : \A j \in since : i <= j
  BY <1>5, LeastNumber
<1>7. PICK c \in here : r[c] = i
  BY <1>6
<1>8. \A d \in here : ~ (r[d] < r[c])
  BY <1>2, <1>6, <1>7
<1>9. \A d \in InFlight : ~ (Level(d) < Level(c))
  BY <1>2, <1>4, <1>7, LevelIsNat
<1>10. waits[c] = {}
  BY <1>1, <1>2, <1>7, <1>8, <1>9 DEF WaitsBehind
<1>11. ASSUME stage[c] = "barrier", NEW d \in ahead[c] PROVE stage[d] # "barrier"
  <2>1. r[d] < r[c] \/ stage[d] # "barrier"
    BY <1>1, <1>2, <1>7, <1>11 DEF WaitsBehind
  <2>2. d \in InFlight /\ (stage[d] = "barrier" => Level(d) = Level(c))
    BY <1>2, <1>7, <1>11 DEF Level
  <2> QED  BY <1>7, <1>8, <2>1, <2>2
<1>12. stage[c] \in {"barrier", "turn", "env", "thread", "runs"}
  BY <1>2, <1>7 DEF FlowInv, LanesInv, TypeOK, InFlight
<1> QED  BY <1>7, <1>10, <1>11, <1>12 DEF GoesOn, Ready

\* x enters a lane or runs, S is what it waits for there.
Advances(x, lane, S) ==
    /\ Queue(x, lane, S) /\ S \subseteq InFlight
    /\ lane \in {"barrier", "turn", "env", "thread", "runs"}
    /\ stage[x] \notin {"runs", "done"}
    /\ stage[x] = "new" \/ LevelOf(lane) < Level(x)
    /\ \A d \in S : Level(d) <= LevelOf(lane)
    /\ UNCHANGED turnTail \/ (turnTail' = [turnTail EXCEPT ![ThreadOf[x]] = x] /\ lane = "turn")
    /\ UNCHANGED threadTail \/ (threadTail' = [threadTail EXCEPT ![Key(x)] = x] /\ lane = "thread")
    /\ \/ UNCHANGED envLane
       \/ lane = "env" /\ envLane' = [envLane EXCEPT ![EnvOf[x]] = LaneWith(envLane[EnvOf[x]], x)]

LEMMA JoinAdvances ==
    ASSUME LanesInv, TailsEntered, NEW x \in Cmd, stage[x] \notin {"runs", "done"},
           \/ JoinTurnLane(x) /\ stage[x] \in {"new", "barrier"}
           \/ JoinEnvLane(x) /\ stage[x] \in {"new", "turn"}
           \/ JoinThreadLane(x) /\ stage[x] \in {"new", "env"}
           \/ Run(x) /\ stage[x] \in {"env", "thread"}
           \/ Queue(x, "barrier", Promise(barrier[ThreadOf[x]])) /\ UNCHANGED lanes /\ stage[x] = "new"
    PROVE  \E lane, S : Advances(x, lane, S)
<1>1. ThreadOf[x] \in Thread /\ EnvOf[x] \in Env /\ Key(x) \in Env \X Thread
  BY LanesAssumption DEF Key
<1>2. CASE JoinTurnLane(x) /\ stage[x] \in {"new", "barrier"}
  <2>1. Advances(x, "turn", Promise(turnTail[ThreadOf[x]]))
    BY <1>1, <1>2, TailsInFlight DEF JoinTurnLane, Advances, TailsEntered, Entered, Level, LevelOf
  <2> QED  BY <2>1
<1>3. CASE JoinEnvLane(x) /\ stage[x] \in {"new", "turn"}
  <2> DEFINE S == Pending(IF Writes(x) THEN envLane[EnvOf[x]].tail ELSE envLane[EnvOf[x]].writeTail)
  <2>1. S \subseteq InFlight
    BY TailsInFlight
  <2>2. \A d \in S : Level(d) <= LevelOf("env")
    BY <1>1 DEF TailsEntered, Entered, Pending
  <2>3. Queue(x, "env", S) /\ UNCHANGED <<turnTail, threadTail>>
        /\ envLane' = [envLane EXCEPT ![EnvOf[x]] = LaneWith(envLane[EnvOf[x]], x)]
    BY <1>3 DEF JoinEnvLane
  <2> HIDE DEF S
  <2>4. Advances(x, "env", S)
    BY <1>3, <2>1, <2>2, <2>3 DEF Advances, Level, LevelOf
  <2> QED  BY <2>4
<1>4. CASE JoinThreadLane(x) /\ stage[x] \in {"new", "env"}
  <2>1. Advances(x, "thread", Promise(threadTail[Key(x)]))
    BY <1>1, <1>4, TailsInFlight DEF JoinThreadLane, Advances, TailsEntered, Entered, Level, LevelOf
  <2> QED  BY <2>1
<1>5. CASE Run(x) /\ stage[x] \in {"env", "thread"}
  <2>1. Advances(x, "runs", {})
    BY <1>5 DEF Run, Advances, Level, LevelOf
  <2> QED  BY <2>1
<1>6. CASE /\ Queue(x, "barrier", Promise(barrier[ThreadOf[x]]))
           /\ UNCHANGED lanes /\ stage[x] = "new"
  <2>1. Advances(x, "barrier", Promise(barrier[ThreadOf[x]]))
    BY <1>6, TailsInFlight DEF lanes, Advances, Level, LevelOf
  <2> QED  BY <2>1
<1> QED  BY <1>2, <1>3, <1>4, <1>5, <1>6

LEMMA AdvanceKeepsFlow ==
    ASSUME LanesInv, TailsEntered, NEW r \in [Cmd -> Nat], NEW n \in Nat, WaitsBehind(r, n),
           NEW x \in Cmd, NEW lane, NEW S, Advances(x, lane, S),
           \A d \in Cmd : d # x \/ stage[x] # "new" => ahead'[d] = ahead[d],
           \A d \in Cmd : ahead'[d] \subseteq InFlight
    PROVE  TailsEntered' /\ WaitsBehind([r EXCEPT ![x] = n], n + 1)'
<1> DEFINE q == [r EXCEPT ![x] = n]
<1>1. /\ stage'[x] = lane /\ waits'[x] = S
      /\ \A d \in Cmd \ {x} : stage'[d] = stage[d] /\ waits'[d] = waits[d]
  BY DEF Advances, Queue, LanesInv, TypeOK
<1>2. /\ \A d \in Cmd \ {x} : Level(d)' = Level(d)
      /\ Level(x)' = LevelOf(lane) /\ (stage[x] = "new" \/ Level(x)' < Level(x))
  BY <1>1 DEF Advances, Level
<1>3. \A c \in Cmd : \A k : Entered(c, k) => Entered(c, k)'
  <2>1. lane # "new"
    BY DEF Advances
  <2> QED  BY <1>1, <1>2, <2>1, LevelIsNat DEF Entered, Advances
<1>4. lane # "new" /\ Entered(x, lane)'
  BY <1>1, <1>2, LevelIsNat DEF Entered, Advances
<1>5. TailsEntered'
  <2>1. ASSUME NEW t \in Thread, NEW c \in Promise(turnTail'[t]) PROVE Entered(c, "turn")'
    <3>1. (turnTail'[t] = turnTail[t]) \/ (turnTail'[t] = x /\ lane = "turn")
      BY DEF Advances, LanesInv, TypeOK
    <3>2. CASE turnTail'[t] = turnTail[t]
      <4>1. c \in Promise(turnTail[t]) /\ c \in Cmd
        BY <2>1, <3>2 DEF Promise, LanesInv, TypeOK, Turns
      <4> QED  BY <1>3, <4>1 DEF TailsEntered
    <3> QED  BY <1>4, <2>1, <3>1, <3>2 DEF Promise
  <2>2. ASSUME NEW k \in Env \X Thread, NEW c \in Promise(threadTail'[k]) PROVE Entered(c, "thread")'
    <3>1. (threadTail'[k] = threadTail[k]) \/ (threadTail'[k] = x /\ lane = "thread")
      BY DEF Advances, LanesInv, TypeOK
    <3>2. CASE threadTail'[k] = threadTail[k]
      <4>1. c \in Promise(threadTail[k]) /\ c \in Cmd
        BY <2>2, <3>2 DEF Promise, LanesInv, TypeOK
      <4> QED  BY <1>3, <4>1 DEF TailsEntered
    <3> QED  BY <1>4, <2>2, <3>1, <3>2 DEF Promise
  <2>3. ASSUME NEW e \in Env, NEW c \in envLane'[e].tail \union envLane'[e].writeTail
        PROVE  Entered(c, "env")'
    <3>1. envLane[e] \in [tail : SUBSET Cmd, writeTail : SUBSET Cmd]
      BY DEF LanesInv, TypeOK
    <3>2. \/ envLane'[e] = envLane[e]
          \/ envLane'[e] = LaneWith(envLane[e], x) /\ lane = "env"
      BY DEF Advances, LanesInv, TypeOK
    <3>3. c \in envLane[e].tail \union envLane[e].writeTail \/ (c = x /\ lane = "env")
      BY <2>3, <3>1, <3>2 DEF LaneWith
    <3> QED  BY <1>3, <1>4, <3>1, <3>3 DEF TailsEntered
  <2> QED  BY <2>1, <2>2, <2>3 DEF TailsEntered
<1>6. /\ \A c \in Cmd : waits[c] \subseteq InFlight /\ ahead[c] \subseteq InFlight
      /\ InFlight \subseteq Cmd
  BY DEF LanesInv, TypeOK, InFlight
<1>7. q[x] = n /\ \A d \in Cmd \ {x} : q[d] = r[d] /\ r[d] < n
  BY DEF WaitsBehind
<1>8. ASSUME NEW c \in Cmd, NEW d \in waits'[c]
      PROVE  Level(d)' < Level(c)' \/ (Level(d)' = Level(c)' /\ q[d] < q[c])
  <2>1. CASE c = x
    <3>1. d \in S /\ d \in InFlight /\ Level(d) <= LevelOf(lane)
      BY <1>1, <1>8, <2>1 DEF Advances
    <3>2. d # x
      BY <1>2, <3>1, LevelIsNat DEF InFlight
    <3> QED  BY <1>2, <1>6, <1>7, <2>1, <3>1, <3>2, LevelIsNat
  <2>2. CASE c # x
    <3>1. d \in waits[c] /\ d \in InFlight /\ d \in Cmd
      BY <1>1, <1>6, <1>8, <2>2
    <3>2. Level(d) < Level(c) \/ (Level(d) = Level(c) /\ r[d] < r[c])
      BY <3>1 DEF WaitsBehind
    <3>3. CASE d # x
      BY <1>2, <1>7, <2>2, <3>1, <3>2, <3>3
    <3>4. CASE d = x
      <4>1. Level(d)' < Level(d)
        BY <1>2, <3>1, <3>4 DEF InFlight
      <4>2. Level(d)' \in Nat /\ Level(d) \in Nat /\ Level(c) \in Nat
        BY <1>2, <3>1, <3>4, LevelIsNat
      <4> QED  BY <1>2, <2>2, <3>2, <4>1, <4>2
    <3> QED  BY <3>3, <3>4
  <2> QED  BY <2>1, <2>2
<1>9. ASSUME NEW c \in Cmd, NEW d \in ahead'[c], stage'[c] = "barrier", stage'[d] = "barrier"
      PROVE  q[d] < q[c]
  <2>1. d \in InFlight /\ d \in Cmd
    BY <1>6
  <2>2. stage'[x] = "barrier" => stage[x] = "new"
    BY <1>1, LevelIsNat DEF Advances, Level, LevelOf
  <2>3. d # x
    BY <1>9, <2>1, <2>2 DEF InFlight
  <2>4. CASE c = x
    BY <1>7, <2>1, <2>3, <2>4
  <2>5. CASE c # x
    <3>1. d \in ahead[c] /\ stage[c] = "barrier" /\ stage[d] = "barrier"
      BY <1>1, <1>9, <2>1, <2>3, <2>5
    <3> QED  BY <1>7, <2>1, <2>3, <2>5, <3>1 DEF WaitsBehind
  <2> QED  BY <2>4, <2>5
<1>10. \A c \in Cmd : q[c] < n + 1
  BY <1>7
<1>11. WaitsBehind(q, n + 1)'
  BY <1>8, <1>9, <1>10 DEF WaitsBehind
<1> QED  BY <1>5, <1>11

LEMMA EndKeepsFlow ==
    ASSUME LanesInv, TailsEntered, NEW r \in [Cmd -> Nat], NEW n \in Nat, WaitsBehind(r, n),
           NEW x \in Cmd, End(x)
    PROVE  TailsEntered' /\ WaitsBehind(r, n)'
<1>1. /\ stage[x] = "runs" /\ stage'[x] = "done"
      /\ \A d \in Cmd \ {x} : stage'[d] = stage[d]
      /\ \A d \in Cmd : waits'[d] = waits[d] \ {x} /\ ahead'[d] = ahead[d] \ {x}
      /\ \A d \in Cmd : waits[d] \subseteq Cmd /\ ahead[d] \subseteq Cmd
  BY DEF End, LanesInv, TypeOK, Turns, Unarchives
<1>2. \A d \in Cmd : Level(d)' = Level(d)
  BY <1>1 DEF Level, LevelOf
<1>3. \A c \in Cmd : \A k : Entered(c, k) => Entered(c, k)'
  BY <1>1, <1>2 DEF Entered
<1>4. /\ \A t \in Thread : Promise(turnTail[t])' \subseteq Promise(turnTail[t]) \intersect Cmd
      /\ \A k \in Env \X Thread : Promise(threadTail[k])' \subseteq Promise(threadTail[k]) \intersect Cmd
  BY DEF End, Cleared, Promise, LanesInv, TypeOK, Turns
<1>5. \A e \in Env : envLane'[e] \in {envLane[e], EmptyLane} /\ envLane[e] \in [tail : SUBSET Cmd, writeTail : SUBSET Cmd]
  BY DEF End, EnvLaneCleared, LanesInv, TypeOK
<1>6. TailsEntered'
  BY <1>3, <1>4, <1>5 DEF TailsEntered, EmptyLane
<1>7. ASSUME NEW c \in Cmd
      PROVE  /\ r[c] < n
             /\ \A d \in waits'[c] : Level(d)' < Level(c)' \/ (Level(d)' = Level(c)' /\ r[d] < r[c])
             /\ \A d \in ahead'[c] : stage'[c] = "barrier" /\ stage'[d] = "barrier" => r[d] < r[c]
  BY <1>1, <1>2 DEF WaitsBehind
<1> QED  BY <1>6, <1>7 DEF WaitsBehind

LEMMA FlowInit == Init => FlowInv
<1> SUFFICES ASSUME Init PROVE FlowInv
  OBVIOUS
<1>1. TailsEntered
  BY DEF Init, TailsEntered, Promise, EmptyLane
<1>2. WaitsBehind([c \in Cmd |-> 0], 1)
  BY DEF Init, WaitsBehind
<1>3. [c \in Cmd |-> 0] \in [Cmd -> Nat]
  OBVIOUS
<1> QED  BY <1>1, <1>2, <1>3, LanesInit DEF FlowInv

LEMMA FlowNext == FlowInv /\ [Next]_vars => FlowInv'
<1> SUFFICES ASSUME FlowInv, [Next]_vars PROVE FlowInv'
  OBVIOUS
<1>1. LanesInv' /\ LanesInv /\ TailsEntered
  BY LanesNext DEF FlowInv
<1>2. PICK r \in [Cmd -> Nat], n \in Nat : WaitsBehind(r, n)
  BY DEF FlowInv
<1>3. \A x \in Cmd : [r EXCEPT ![x] = n] \in [Cmd -> Nat] /\ n + 1 \in Nat
  OBVIOUS
<1>4. CASE UNCHANGED vars
  <2>1. TailsEntered' /\ WaitsBehind(r, n)'
    BY <1>1, <1>2, <1>4 DEF vars, lanes, TailsEntered, WaitsBehind, Entered, Level, Promise
  <2> QED  BY <1>1, <2>1 DEF FlowInv
<1>5. ASSUME NEW x \in Cmd, End(x) PROVE FlowInv'
  BY <1>1, <1>2, <1>5, EndKeepsFlow DEF FlowInv
<1>6. ASSUME NEW x \in Cmd, Continue(x) PROVE FlowInv'
  <2>1. /\ \A d \in Cmd : ahead'[d] = ahead[d]
        /\ \A d \in Cmd : ahead'[d] \subseteq InFlight
    BY <1>1, <1>6 DEF Continue, LanesInv, TypeOK
  <2>2. /\ stage[x] \notin {"runs", "done"}
        /\ \/ JoinTurnLane(x) /\ stage[x] \in {"new", "barrier"}
           \/ JoinEnvLane(x) /\ stage[x] \in {"new", "turn"}
           \/ JoinThreadLane(x) /\ stage[x] \in {"new", "env"}
           \/ Run(x) /\ stage[x] \in {"env", "thread"}
    BY <1>6 DEF Continue, PassBarrier, PassTurnLane, PassEnvLane, PassThreadLane, Ready
  <2>3. PICK lane, S : Advances(x, lane, S)
    BY <1>1, <2>2, JoinAdvances
  <2>4. TailsEntered' /\ WaitsBehind([r EXCEPT ![x] = n], n + 1)'
    BY <1>1, <1>2, <2>1, <2>3, AdvanceKeepsFlow
  <2> QED  BY <1>1, <1>3, <2>4 DEF FlowInv
<1>7. ASSUME NEW x \in Cmd, Arrive(x) PROVE FlowInv'
  <2>1. /\ \A d \in Cmd : d # x \/ stage[x] # "new" => ahead'[d] = ahead[d]
        /\ \A d \in Cmd : ahead'[d] \subseteq InFlight
    BY <1>1, <1>7 DEF Arrive, LanesInv, TypeOK
  <2>2. /\ stage[x] = "new"
        /\ \/ JoinTurnLane(x) \/ JoinEnvLane(x) \/ JoinThreadLane(x)
           \/ Queue(x, "barrier", Promise(barrier[ThreadOf[x]])) /\ UNCHANGED lanes
    BY <1>7 DEF Arrive, Enter
  <2>3. PICK lane, S : Advances(x, lane, S)
    BY <1>1, <2>2, JoinAdvances
  <2>4. TailsEntered' /\ WaitsBehind([r EXCEPT ![x] = n], n + 1)'
    BY <1>1, <1>2, <2>1, <2>3, AdvanceKeepsFlow
  <2> QED  BY <1>1, <1>3, <2>4 DEF FlowInv
<1> QED  BY <1>4, <1>5, <1>6, <1>7 DEF Next

-----------------------------------------------------------------------------
(* The theorems.                                                           *)

\* Lanes and barriers hold commands of their kind, and nobody waits for a command
\* that has ended.
THEOREM LanesTypeCorrect == Spec => []TypeOK
<1>1. LanesInv => TypeOK
  BY DEF LanesInv
<1> QED  BY <1>1, LanesAlways, PTL

\* A command that writes its environment is alone in it (runInReadWriteLane).
THEOREM WritersAreAlone == Spec => []WritesAlone
<1>1. LanesInv => WritesAlone
  BY LinesExclude
<1> QED  BY <1>1, LanesAlways, PTL

\* Neither two bodies of a thread's lane nor two turns of a thread run together
\* (runInSerialLane).
THEOREM ThreadsAreSerial == Spec => []OneAtATime
<1>1. LanesInv => OneAtATime
  BY LinesExclude
<1> QED  BY <1>1, LanesAlways, PTL

\* A turn begins when the turns and the unarchives that were there before it have
\* ended (runAfterThreadUnarchiveBarrier, runInThreadTurnLane), provided that the
\* unarchives of a thread name one environment.
THEOREM TurnsStayInOrder == ASSUME UnarchivesStay PROVE Spec => []TurnsInOrder
<1>1. LanesInv => TurnsInOrder
  <2> SUFFICES ASSUME LanesInv, NEW c \in Turns, stage[c] = "runs", NEW d \in ahead[c]
               PROVE  FALSE
    BY DEF TurnsInOrder
  <2>1. c \in Cmd /\ InTurnLane(c)
    BY DEF InTurnLane, Turns
  <2>2. ThreadOf[d] = ThreadOf[c] /\ InTurnLane(d) /\ ThreadOf[c] \in Thread
    BY <2>1, UnarchivesStay, LanesAssumption DEF LanesInv, BarrierInv
  <2>3. c \in TurnLine(ThreadOf[c]) /\ d \in TurnLine(ThreadOf[c])
    BY <2>1, <2>2 DEF InTurnLane, TurnLine
  <2>4. PICK f \in [Cmd -> Nat], n \in Nat :
           /\ SerialOrder(TurnLine(ThreadOf[c]), turnTail[ThreadOf[c]], "turn", stage, waits, f, n)
           /\ Respects(TurnLine(ThreadOf[c]), Turns, ahead, f)
    BY <2>2 DEF LanesInv, TurnOrdered
  <2>5. f[d] < f[c]
    BY <2>2, <2>3, <2>4, UnarchivesStay DEF Respects, InTurnLane
  <2> QED  BY <2>3, <2>4, <2>5 DEF SerialOrder
<1> QED  BY <1>1, LanesAlways, PTL

\* No lane outlives the commands in it (deleteReadWriteLaneWhenIdle).
THEOREM LanesAreDeleted == Spec => []NoLaneLeft
<1>1. LanesInv => NoLaneLeft
  BY DEF LanesInv
<1> QED  BY <1>1, LanesAlways, PTL

\* Whatever order commands arrive in, they never all wait for each other: as long as
\* one is unanswered, one can go on.  Since a command that has arrived takes at most
\* five steps, this is the part of EveryCommandEnds that does not rest on fairness.
THEOREM CommandsNeverBlock == Spec => []NeverBlocked
<1>1. FlowInv => NeverBlocked
  BY FurthestGoesOn DEF NeverBlocked
<1> QED  BY <1>1, FlowInit, FlowNext, PTL DEF Spec
=============================================================================
