------------------------- MODULE HostSessionsProofs -------------------------
(***************************************************************************)
(* What HostSessions guarantees for every number of calls, turns, losses   *)
(* and deaths: commands go to the one open session, no call outlives its   *)
(* session, a host that has gone is on the clock, and the server, its log  *)
(* and a connected daemon agree on the thread.                             *)
(*                                                                         *)
(* In layers, each proved from those before.  The sessions: only the       *)
(* latest is open, has a socket and is not on the clock.  The clock.  The  *)
(* turns: what a request reports, and what an open session was told, is    *)
(* what runs or what the event sink still has to tell.  The log: what is   *)
(* open in it is the last turn, and what runs or waits in the sink too.    *)
(***************************************************************************)
EXTENDS HostSessions, TLAPS

\* The events of ThreadLifecycle on the three states of this module.
LEMMA AfterValues ==
    /\ After("idle", "run.started") = "active"
    /\ After("error", "run.started") = "active"
    /\ After("active", "run.started") = "active"
    /\ After("active", "run.failed") = "error"
    /\ After("active", "run.succeeded") = "idle"
    /\ After("idle", "run.succeeded") = "idle"
    /\ After("error", "run.succeeded") = "error"
<1>1. ASSUME NEW s, NEW e, NEW t, <<s, e, t>> \in Lifecycle,
             \A u \in Lifecycle : u[1] = s /\ u[2] = e => u[3] = t
      PROVE  After(s, e) = t
  <2>1. Applies(s, e)
    BY <1>1 DEF Applies
  <2>2. \E u \in Lifecycle : u[1] = s /\ u[2] = e
    BY <2>1 DEF Applies
  <2>3. DEFINE v == CHOOSE u \in Lifecycle : u[1] = s /\ u[2] = e
  <2>4. v \in Lifecycle /\ v[1] = s /\ v[2] = e
    BY <2>2
  <2>5. v[3] = t
    BY <1>1, <2>4
  <2> QED  BY <2>1, <2>5 DEF After
<1>2. ASSUME NEW s, NEW e, ~ Applies(s, e) PROVE After(s, e) = s
  BY <1>2 DEF After
<1>3. /\ ~ Applies("active", "run.started") /\ ~ Applies("idle", "run.succeeded")
      /\ ~ Applies("error", "run.succeeded")
  BY DEF Applies, Lifecycle
<1>4. After("idle", "run.started") = "active"
  BY <1>1 DEF Lifecycle
<1>5. After("error", "run.started") = "active"
  BY <1>1 DEF Lifecycle
<1>6. After("active", "run.failed") = "error"
  BY <1>1 DEF Lifecycle
<1>7. After("active", "run.succeeded") = "idle"
  BY <1>1 DEF Lifecycle
<1> QED  BY <1>2, <1>3, <1>4, <1>5, <1>6, <1>7

\* The states of the thread in this module.
ThreadStates == {"idle", "active", "error"}

\* An interruption never leaves the thread active, the opening of a session does
\* iff the thread is reported.
LEMMA StatusValues ==
    ASSUME NEW st \in ThreadStates, NEW runs \in BOOLEAN
    PROVE  /\ Interrupted(st) \in {"idle", "error"}
           /\ Reconciled(st, runs) \in ThreadStates
           /\ Reconciled(st, runs) = "active" <=> runs
<1>1. Interrupted(st) \in {"idle", "error"}
  BY AfterValues DEF Interrupted, ThreadStates
<1>2. CASE runs
  <2>1. Reconciled(st, runs) = After(st, "run.started")
    BY <1>2 DEF Reconciled
  <2> QED  BY <1>1, <1>2, <2>1, AfterValues DEF ThreadStates
<1>3. CASE ~ runs
  <2>1. Reconciled(st, runs) = Interrupted(st)
    BY <1>3 DEF Reconciled
  <2> QED  BY <1>1, <1>3, <2>1 DEF ThreadStates
<1> QED  BY <1>2, <1>3

-----------------------------------------------------------------------------
(* Types.                                                                  *)

Recorded == {"open", "completed", "interrupted"}
RanStates == {"runs", "finished", "died"}

\* A function on 1 .. n is a sequence of length n.
LEMMA FunctionIsSeq ==
    ASSUME NEW n \in Nat, NEW T, NEW f, f \in [1 .. n -> T]
    PROVE  f \in Seq(T) /\ Len(f) = n
OBVIOUS

\* A sequence with one element replaced.
LEMMA SeqExcept ==
    ASSUME NEW T, NEW s \in Seq(T), NEW n, NEW v \in T
    PROVE  [s EXCEPT ![n] = v] \in Seq(T) /\ Len([s EXCEPT ![n] = v]) = Len(s)
<1>1. Len(s) \in Nat /\ s \in [1 .. Len(s) -> T]
  OBVIOUS
<1>2. [s EXCEPT ![n] = v] \in [1 .. Len(s) -> T]
  BY <1>1
<1> QED  BY <1>1, <1>2, FunctionIsSeq

\* Cutting the open turn keeps the log of turns.
LEMMA CutType ==
    ASSUME TypeOK, NEW st
    PROVE  Cut(st) \in Seq(Recorded) /\ Len(Cut(st)) = Len(recorded)
<1>1. recorded \in Seq(Recorded) /\ Len(recorded) \in Nat
  BY DEF TypeOK, Recorded
<1>2. DOMAIN recorded = 1 .. Len(recorded)
  BY <1>1
<1>3. \A n \in 1 .. Len(recorded) : recorded[n] \in Recorded
  BY <1>1
<1>4. Cut(st) \in [1 .. Len(recorded) -> Recorded]
  BY <1>2, <1>3 DEF Cut, Recorded
<1> QED  BY <1>1, <1>4, FunctionIsSeq

\* The death of a daemon keeps what has become of the turns.
LEMMA GoneType ==
    ASSUME TypeOK
    PROVE  /\ Gone \in Seq(RanStates) /\ Len(Gone) = Len(ran)
           /\ \A n \in Turn : Gone[n] # "runs"
<1>1. ran \in Seq(RanStates) /\ Len(ran) \in Nat
  BY DEF TypeOK, RanStates
<1>2. \A n \in 1 .. Len(ran) : ran[n] \in RanStates
  BY <1>1
<1>3. Gone \in [1 .. Len(ran) -> RanStates]
  BY <1>2 DEF Gone, Turn, RanStates
<1> QED  BY <1>1, <1>3, FunctionIsSeq DEF Gone, Turn

\* The hub after sessions were unregistered.
LEMMA UnregisterTypes ==
    ASSUME TypeOK, NEW S, Unregister(S)
    PROVE  /\ registered' \subseteq registered /\ current' \in {current, 0}
           /\ waits' \in [Call -> Opened \union {0}]
           /\ \A c \in Call : waits'[c] \in {waits[c], 0}
<1>1. waits \in [Call -> Opened \union {0}]
  BY DEF TypeOK
<1>2. registered' \subseteq registered /\ current' \in {current, 0}
  BY DEF Unregister
<1>3. \A c \in Call : waits'[c] \in {waits[c], 0}
  BY DEF Unregister
<1>4. waits' \in [Call -> Opened \union {0}]
  BY <1>1 DEF Unregister
<1> QED  BY <1>2, <1>3, <1>4

\* The server after a session was opened.
OpenOK ==
    /\ owner' \in Seq(Nat) /\ Latest' = Latest + 1 /\ Opened \subseteq Opened'
    /\ Latest \in Nat
    /\ active' = {Latest + 1} /\ active' \subseteq Opened' /\ timers' = timers \ {Latest}
    /\ registered' \subseteq registered /\ current' \in {current, 0}
    /\ waits' \in [Call -> Opened \union {0}]
    /\ hungUp' \subseteq Opened /\ dismissed' \subseteq Opened
    /\ status' \in ThreadStates
    /\ recorded' \in Seq(Recorded) /\ Len(recorded') = Len(recorded)

LEMMA OpenTypes ==
    ASSUME TypeOK, NEW i \in Nat, NEW runs \in BOOLEAN, Open(i, runs)
    PROVE  OpenOK /\ (status' = "active" <=> runs)
<1>1. owner \in Seq(Nat) /\ Latest \in Nat
  BY DEF TypeOK, Latest
<1>2. owner' = Append(owner, i) /\ active' = {Latest + 1} /\ timers' = timers \ {Latest}
  BY DEF Open
<1>3. owner' \in Seq(Nat) /\ Latest' = Latest + 1
  BY <1>1, <1>2 DEF Latest
<1>4. Opened \subseteq Opened' /\ active' \subseteq Opened'
  BY <1>1, <1>2, <1>3 DEF Opened, Latest
<1>5. \E same : Replace(Latest, same)
  BY DEF Open
<1>6. /\ registered' \subseteq registered /\ current' \in {current, 0}
      /\ waits' \in [Call -> Opened \union {0}]
  BY <1>5, UnregisterTypes DEF Replace
<1>7. hungUp' \subseteq Opened /\ dismissed' \subseteq Opened
  BY <1>5 DEF Replace, TypeOK
<1>8. status \in ThreadStates
  BY DEF TypeOK, ThreadStates
<1>9. \E st \in ThreadStates : status' = Reconciled(st, runs)
  <2>1. Interrupted(status) \in ThreadStates
    BY <1>8, StatusValues DEF ThreadStates
  <2> QED  BY <1>8, <2>1 DEF Open
<1>10. status' \in ThreadStates /\ (status' = "active" <=> runs)
  BY <1>9, StatusValues
<1>11. recorded' = recorded \/ recorded' = Cut(status)
  BY DEF Open
<1>12. recorded' \in Seq(Recorded) /\ Len(recorded') = Len(recorded)
  BY <1>11, CutType DEF TypeOK, Recorded
<1> QED  BY <1>1, <1>2, <1>3, <1>4, <1>6, <1>7, <1>10, <1>12 DEF OpenOK

\* A step that keeps the table keeps the types if it keeps those of what it changes.
KeepsTypes ==
    /\ active' \subseteq Opened /\ registered' \subseteq Opened /\ current' \in Opened \union {0}
    /\ timers' \subseteq Opened /\ linked' \subseteq Opened /\ waits' \in [Call -> Opened \union {0}]
    /\ status' \in ThreadStates /\ recorded' \in Seq(Recorded) /\ Len(recorded') = Len(ran')
    /\ phase' \in {"down", "closed", "asking", "opened", "connected"}
    /\ instance' \in Nat /\ session' \in Opened \union {0} /\ report' \in BOOLEAN
    /\ phase' \in {"opened", "connected"} => session' # 0
    /\ ran' \in Seq(RanStates) /\ unposted' \subseteq 1 .. Len(ran')
    /\ strays' \subseteq Nat \X BOOLEAN /\ hungUp' \subseteq Opened /\ dismissed' \subseteq Opened
    /\ losses' \in Nat /\ deaths' \in Nat /\ restarts' \in Nat

LEMMA TypesKept ==
    ASSUME TypeOK, KeepsTypes, UNCHANGED owner
    PROVE  TypeOK'
<1>1. Opened' = Opened
  BY DEF Opened
<1> QED  BY <1>1 DEF TypeOK, KeepsTypes, ThreadStates, Recorded, RanStates, Turn

\* Opening a session keeps the types of what it does not change.
LEMMA OpenKeepsTypes ==
    ASSUME TypeOK, OpenOK,
           UNCHANGED <<linked, instance, report, ran, unposted, losses, deaths, restarts>>,
           phase' \in {"down", "closed", "asking", "opened", "connected"},
           session' \in Opened' \union {0}, phase' \in {"opened", "connected"} => session' # 0,
           strays' \subseteq strays
    PROVE  TypeOK'
<1>1. owner' \in Seq(Nat) /\ active' \subseteq Opened' /\ Opened \subseteq Opened'
  BY DEF OpenOK
<1>2. registered' \subseteq Opened' /\ current' \in Opened' \union {0} /\ timers' \subseteq Opened'
  BY <1>1 DEF OpenOK, TypeOK
<1>3. linked' \subseteq Opened' /\ hungUp' \subseteq Opened' /\ dismissed' \subseteq Opened'
  BY <1>1 DEF OpenOK, TypeOK
<1>4. waits' \in [Call -> Opened' \union {0}]
  BY <1>1 DEF OpenOK
<1>5. /\ status' \in ThreadStates /\ recorded' \in Seq(Recorded) /\ Len(recorded') = Len(ran')
      /\ ran' \in Seq(RanStates) /\ unposted' \subseteq Turn'
  BY DEF OpenOK, TypeOK, RanStates, Turn
<1>6. /\ instance' \in Nat /\ report' \in BOOLEAN /\ strays' \subseteq Nat \X BOOLEAN
      /\ losses' \in Nat /\ deaths' \in Nat /\ restarts' \in Nat
  BY DEF TypeOK
<1> QED  BY <1>1, <1>2, <1>3, <1>4, <1>5, <1>6 DEF TypeOK, ThreadStates, Recorded, RanStates

LEMMA ConnectingTypes ==
    ASSUME TypeOK, Connecting
    PROVE  TypeOK'
<1>0. Latest \in Nat /\ instance \in Nat /\ report \in BOOLEAN
  BY DEF TypeOK, Latest
<1>1. CASE Ask
  <2>1. report' \in BOOLEAN
    BY <1>1, Zenon DEF Ask, Running
  <2> QED  BY <1>1, <2>1, TypesKept DEF Ask, TypeOK, KeepsTypes, ThreadStates, Recorded, RanStates,
             Turn, serverVars, hubVars, threadVars, turnVars, linkVars, bounds
<1>2. CASE OpenHandled
  <2>1. /\ Open(instance, report) /\ phase' = "opened" /\ session' = Latest + 1
        /\ UNCHANGED <<linked, instance, report, ran, unposted, strays, losses, deaths, restarts>>
    BY <1>2 DEF OpenHandled, turnVars, bounds
  <2>2. OpenOK
    BY <1>0, <2>1, OpenTypes
  <2>3. session' \in Opened' /\ session' # 0
    BY <1>0, <2>1, <2>2 DEF Opened, Latest, OpenOK
  <2> QED  BY <1>0, <2>1, <2>2, <2>3, OpenKeepsTypes
<1>3. CASE OpenFails
  BY <1>0, <1>3, TypesKept DEF OpenFails, TypeOK, KeepsTypes, ThreadStates, Recorded, RanStates,
     Turn, serverVars, hubVars, threadVars, turnVars
<1>4. CASE StrayOpen
  <2>1. PICK q \in strays : Open(q[1], q[2]) /\ strays' = strays \ {q}
    BY <1>4 DEF StrayOpen
  <2>2. /\ q[1] \in Nat /\ q[2] \in BOOLEAN
        /\ UNCHANGED <<linked, phase, instance, session, report, ran, unposted, losses, deaths, restarts>>
    BY <1>4, <2>1 DEF StrayOpen, TypeOK, turnVars, bounds
  <2>3. PICK i \in Nat, runs \in BOOLEAN : Open(i, runs)
    BY <2>1, <2>2
  <2>4. OpenOK
    BY <2>3, OpenTypes
  <2>5. session' \in Opened' \union {0} /\ (phase' \in {"opened", "connected"} => session' # 0)
    BY <2>2, <2>4 DEF OpenOK, TypeOK
  <2>6. phase' \in {"down", "closed", "asking", "opened", "connected"} /\ strays' \subseteq strays
    BY <2>1, <2>2 DEF TypeOK
  <2> QED  BY <2>2, <2>4, <2>5, <2>6, OpenKeepsTypes
<1>5. CASE Connect
  <2>1. /\ registered' \subseteq registered \union {session} /\ current' \in {current, session}
        /\ timers' \subseteq timers /\ linked' \subseteq linked \union {session}
        /\ session \in active \/ UNCHANGED <<registered, current, linked>>
        /\ phase' \in {"closed", "connected"}
    BY <1>5 DEF Connect, MayConnect
  <2>2. waits' \in [Call -> Opened \union {0}]
    BY <1>5 DEF Connect, TypeOK
  <2>3. session \in active => session \in Opened
    BY DEF TypeOK
  <2> QED  BY <1>5, <2>1, <2>2, <2>3, TypesKept DEF Connect, TypeOK, KeepsTypes, ThreadStates,
             Recorded, RanStates, Turn, threadVars, turnVars, linkVars, bounds
<1>6. CASE ConnectFails
  BY <1>6, TypesKept DEF ConnectFails, TypeOK, KeepsTypes, ThreadStates, Recorded, RanStates,
     Turn, serverVars, hubVars, threadVars, turnVars, linkVars
<1> QED  BY <1>1, <1>2, <1>3, <1>4, <1>5, <1>6 DEF Connecting

LEMMA EndingTypes ==
    ASSUME TypeOK, Ending
    PROVE  TypeOK'
<1> USE DEF KeepsTypes, ThreadStates, Recorded, RanStates, Turn, threadVars, turnVars, linkVars, bounds
<1>1. CASE LinkBreaks
  <2>1. hungUp' \subseteq Opened
    BY <1>1 DEF LinkBreaks, TypeOK
  <2>2. phase' \in {"closed", "connected"} /\ losses' \in Nat
    BY <1>1 DEF LinkBreaks, TypeOK
  <2>3. /\ UNCHANGED <<serverVars, instance, session, report, turnVars, strays, dismissed, deaths, restarts>>
        /\ session # 0
    BY <1>1 DEF LinkBreaks, TypeOK
  <2> QED  BY <2>1, <2>2, <2>3, TypesKept DEF TypeOK, serverVars, hubVars
<1>2. CASE HangUp
  <2>1. /\ ran' \in Seq(RanStates) /\ Len(ran') = Len(ran)
        /\ unposted' \subseteq unposted /\ phase' \in {"down", "closed"}
    BY <1>2, GoneType DEF HangUp, TypeOK
  <2> QED  BY <1>2, <2>1, TypesKept DEF HangUp, TypeOK, serverVars, hubVars
<1>3. ASSUME NEW s \in Opened, SocketClosed(s) PROVE TypeOK'
  <2>1. Unregister({s})
    BY <1>3 DEF SocketClosed
  <2>2. /\ registered' \subseteq registered /\ current' \in {current, 0}
        /\ waits' \in [Call -> Opened \union {0}]
    BY <2>1, UnregisterTypes
  <2>3. /\ linked' \subseteq linked /\ active' \subseteq active /\ timers' \subseteq timers \union {s}
        /\ UNCHANGED <<owner, threadVars, phase, instance, session, report, turnVars, linkVars, bounds>>
    BY <1>3 DEF SocketClosed
  <2> QED  BY <2>2, <2>3, TypesKept DEF TypeOK
<1>4. ASSUME NEW s \in Opened, WorkGraceEnds(s) PROVE TypeOK'
  <2>1. status' \in ThreadStates /\ recorded' \in Seq(Recorded) /\ Len(recorded') = Len(recorded)
    BY <1>4, CutType, StatusValues DEF WorkGraceEnds, TypeOK
  <2> QED  BY <1>4, <2>1, TypesKept DEF WorkGraceEnds, TypeOK
<1>5. CASE DaemonDies
  <2>1. ran' \in Seq(RanStates) /\ Len(ran') = Len(ran) /\ unposted' = {}
    BY <1>5, GoneType DEF DaemonDies
  <2>2. strays' \subseteq Nat \X BOOLEAN
    BY <1>5 DEF DaemonDies, TypeOK
  <2> QED  BY <1>5, <2>1, <2>2, TypesKept DEF DaemonDies, TypeOK, serverVars, hubVars
<1>6. CASE DaemonStarts
  BY <1>6, TypesKept DEF DaemonStarts, TypeOK, serverVars, hubVars
<1>7. CASE ServerDies
  <2>1. waits' \in [Call -> Opened \union {0}]
    BY <1>7 DEF ServerDies
  <2> QED  BY <1>7, <2>1, TypesKept DEF ServerDies, TypeOK
<1> QED  BY <1>1, <1>2, <1>3, <1>4, <1>5, <1>6, <1>7 DEF Ending

LEMMA FinishType ==
    ASSUME TypeOK, NEW n \in Turn, FinishTurn(n)
    PROVE  ran' \in Seq(RanStates) /\ Len(ran') = Len(ran)
<1>1. ran \in Seq(RanStates) /\ "finished" \in RanStates
  BY DEF TypeOK, RanStates
<1>2. ran' = [ran EXCEPT ![n] = "finished"]
  BY DEF FinishTurn
<1>3. Len(ran) \in Nat /\ ran \in [1 .. Len(ran) -> RanStates]
  BY <1>1
<1>4. ran' \in [1 .. Len(ran) -> RanStates]
  BY <1>1, <1>2, <1>3
<1> QED  BY <1>3, <1>4, FunctionIsSeq

LEMMA WorkingTypes ==
    ASSUME TypeOK, Working
    PROVE  TypeOK'
<1> USE DEF KeepsTypes, ThreadStates, Recorded, RanStates, threadVars, turnVars, linkVars, bounds
<1>1. ASSUME NEW c \in Call, Request(c) \/ CallEnds(c) PROVE TypeOK'
  <2>1. waits' \in [Call -> Opened \union {0}]
    BY <1>1 DEF Request, CallEnds, TypeOK
  <2> QED  BY <1>1, <2>1, TypesKept DEF Request, CallEnds, TypeOK, Turn
<1>2. CASE StartTurn
  <2>1. status' = "active"
    BY <1>2, AfterValues DEF StartTurn
  <2>2. recorded' \in Seq(Recorded) /\ ran' \in Seq(RanStates) /\ Len(recorded') = Len(ran')
    BY <1>2 DEF StartTurn, TypeOK
  <2>3. unposted' \subseteq 1 .. Len(ran')
    BY <1>2 DEF StartTurn
  <2> QED  BY <1>2, <2>1, <2>2, <2>3, TypesKept DEF StartTurn, TypeOK, hubVars
<1>3. ASSUME NEW n \in Turn, FinishTurn(n) PROVE TypeOK'
  <2>1. ran' \in Seq(RanStates) /\ Len(ran') = Len(ran)
    BY <1>3, FinishType
  <2>2. unposted' \subseteq 1 .. Len(ran')
    BY <1>3, <2>1 DEF FinishTurn, TypeOK, Turn
  <2> QED  BY <1>3, <2>1, <2>2, TypesKept DEF FinishTurn, TypeOK, serverVars, hubVars
<1>4. ASSUME NEW n \in Turn, PostEnd(n) PROVE TypeOK'
  <2>1. status' \in ThreadStates
    BY <1>4, AfterValues DEF PostEnd, TypeOK
  <2>0. recorded \in Seq(Recorded) /\ Len(recorded) = Len(ran) /\ n \in 1 .. Len(recorded)
    BY DEF TypeOK, Turn
  <2>1a. recorded[n] \in Recorded
    BY <2>0
  <2>1b. PICK v \in Recorded : recorded' = [recorded EXCEPT ![n] = v]
    BY <1>4, <2>1a DEF PostEnd
  <2>2. recorded' \in Seq(Recorded) /\ Len(recorded') = Len(recorded)
    BY <2>0, <2>1b, SeqExcept
  <2> QED  BY <1>4, <2>1, <2>2, TypesKept DEF PostEnd, TypeOK, hubVars, Turn
<1> QED  BY <1>1, <1>2, <1>3, <1>4 DEF Working

LEMMA InitTypes == Init => TypeOK
<1> SUFFICES ASSUME Init PROVE TypeOK
  OBVIOUS
<1>1. report \in BOOLEAN
  BY Zenon DEF Init
<1>2. owner \in Seq(Nat) /\ recorded \in Seq(Recorded) /\ ran \in Seq(RanStates)
  BY DEF Init
<1>3. Len(recorded) = Len(ran)
  BY DEF Init
<1> QED  BY <1>1, <1>2, <1>3 DEF Init, TypeOK, Recorded, RanStates

\* The states of the model are states of the table, of the hub's maps and of the
\* daemon.
THEOREM HostsTypeCorrect == Spec => []TypeOK
<1>1. TypeOK /\ [Next]_vars => TypeOK'
  <2> SUFFICES ASSUME TypeOK, [Next]_vars PROVE TypeOK'
    OBVIOUS
  <2>1. CASE UNCHANGED vars
    BY <2>1 DEF vars, serverVars, hubVars, threadVars, turnVars, linkVars, bounds, TypeOK, Opened, Turn
  <2> QED  BY <2>1, ConnectingTypes, EndingTypes, WorkingTypes DEF Next
<1> QED  BY <1>1, InitTypes, PTL DEF Spec

-----------------------------------------------------------------------------
(* The sessions.                                                           *)

\* Only the latest session is open, has its socket and its calls; it is on the
\* clock only when it is over.
SessionInv ==
    /\ OneOpenSession
    /\ NoCallForgotten
    /\ timers \subseteq {Latest} \ active

\* What the hub forgets of a session.
LEMMA UnregisterSessions ==
    ASSUME TypeOK, SessionInv, NEW S, Unregister(S)
    PROVE  /\ registered' = registered \ S
           /\ registered' = IF current' = 0 THEN {} ELSE {current'}
           /\ \A c \in Call : waits'[c] # 0 => waits'[c] \in registered'
<1>1. registered = IF current = 0 THEN {} ELSE {current}
  BY DEF SessionInv, OneOpenSession
<1>2. 0 \notin registered
  BY DEF TypeOK, Opened
<1>3. registered' = registered \ S
  BY DEF Unregister
<1>4. registered' = IF current' = 0 THEN {} ELSE {current'}
  BY <1>1, <1>2, <1>3 DEF Unregister
<1>5. ASSUME NEW c \in Call, waits'[c] # 0 PROVE waits'[c] \in registered'
  <2>1. waits[c] # 0 => waits[c] \in registered
    BY DEF SessionInv, NoCallForgotten
  <2>2. waits'[c] = IF waits[c] \in registered \intersect S THEN 0 ELSE waits[c]
    BY DEF Unregister
  <2> QED  BY <1>3, <1>5, <2>1, <2>2
<1> QED  BY <1>3, <1>4, <1>5

LEMMA OpenSessions ==
    ASSUME TypeOK, SessionInv, NEW i \in Nat, NEW runs \in BOOLEAN, Open(i, runs), linked' = linked
    PROVE  SessionInv'
<1>1. OpenOK
  BY OpenTypes
<1>2. timers' = {}
  BY <1>1 DEF OpenOK, SessionInv
<1>3. Unregister({Latest} \intersect active \intersect registered)
  BY DEF Open, Replace
<1>4. registered' = {}
  BY <1>3, UnregisterSessions DEF SessionInv, OneOpenSession
<1>5. /\ registered' = IF current' = 0 THEN {} ELSE {current'}
      /\ NoCallForgotten'
  BY <1>3, UnregisterSessions DEF NoCallForgotten
<1>6. active' \subseteq {Latest}'
  BY <1>1 DEF OpenOK
<1> QED  BY <1>2, <1>4, <1>5, <1>6 DEF SessionInv, OneOpenSession

LEMMA ConnectingSessions ==
    ASSUME TypeOK, SessionInv, Connecting
    PROVE  SessionInv'
<1>0. instance \in Nat /\ report \in BOOLEAN
  BY DEF TypeOK
<1>1. CASE Ask \/ OpenFails \/ ConnectFails
  <2>1. UNCHANGED serverVars
    BY <1>1 DEF Ask, OpenFails, ConnectFails
  <2> QED  BY <2>1 DEF serverVars, hubVars, SessionInv, OneOpenSession, NoCallForgotten, Latest
<1>2. CASE OpenHandled
  BY <1>0, <1>2, OpenSessions DEF OpenHandled
<1>3. CASE StrayOpen
  <2>1. PICK q \in strays : Open(q[1], q[2])
    BY <1>3 DEF StrayOpen
  <2>2. PICK i \in Nat, runs \in BOOLEAN : Open(i, runs)
    BY <2>1 DEF TypeOK
  <2> QED  BY <1>3, <2>2, OpenSessions DEF StrayOpen
<1>4. CASE Connect
  <2>1. UNCHANGED owner /\ UNCHANGED active /\ Latest' = Latest
    BY <1>4 DEF Connect, Latest
  <2>2. CASE session \notin active
    BY <1>4, <2>1, <2>2 DEF Connect, MayConnect, SessionInv, OneOpenSession, NoCallForgotten
  <2>3. CASE session \in active
    <3>1. session \in Opened /\ session = Latest /\ session # 0
      BY <2>3 DEF TypeOK, SessionInv, OneOpenSession, Opened
    <3>2. /\ timers' = timers \ {session, current} /\ current' = session
          /\ registered' = (registered \ {current}) \union {session} /\ linked' = linked \union {session}
          /\ waits' = [c \in Call |-> IF waits[c] = current /\ current # session THEN 0 ELSE waits[c]]
      BY <1>4, <2>3 DEF Connect, MayConnect
    <3>3. registered' = {session}
      BY <3>2 DEF SessionInv, OneOpenSession
    <3>4. ASSUME NEW c \in Call, waits'[c] # 0 PROVE waits'[c] \in registered'
      <4>1. waits[c] # 0 => waits[c] = current
        BY DEF SessionInv, OneOpenSession, NoCallForgotten
      <4>2. waits'[c] = IF waits[c] = current /\ current # session THEN 0 ELSE waits[c]
        BY <3>2
      <4> QED  BY <3>3, <3>4, <4>1, <4>2
    <3> QED  BY <2>1, <2>3, <3>1, <3>2, <3>3, <3>4 DEF SessionInv, OneOpenSession, NoCallForgotten
  <2> QED  BY <2>2, <2>3
<1> QED  BY <1>1, <1>2, <1>3, <1>4 DEF Connecting

LEMMA EndingSessions ==
    ASSUME TypeOK, SessionInv, Ending
    PROVE  SessionInv'
<1>1. CASE LinkBreaks \/ HangUp \/ DaemonDies \/ DaemonStarts
  <2>1. UNCHANGED serverVars
    BY <1>1 DEF LinkBreaks, HangUp, DaemonDies, DaemonStarts
  <2> QED  BY <2>1 DEF serverVars, hubVars, SessionInv, OneOpenSession, NoCallForgotten, Latest
<1>2. ASSUME NEW s \in Opened, SocketClosed(s) PROVE SessionInv'
  <2>1. /\ Unregister({s}) /\ active' = active \ {s} /\ linked' = linked \ {s}
        /\ timers' = IF s \in active THEN timers \union {s} ELSE timers
        /\ Latest' = Latest
    BY <1>2 DEF SocketClosed, Latest
  <2>2. /\ registered' = registered \ {s} /\ NoCallForgotten'
        /\ registered' = IF current' = 0 THEN {} ELSE {current'}
    BY <2>1, UnregisterSessions DEF NoCallForgotten
  <2> QED  BY <2>1, <2>2 DEF SessionInv, OneOpenSession
<1>3. ASSUME NEW s \in Opened, WorkGraceEnds(s) PROVE SessionInv'
  BY <1>3 DEF WorkGraceEnds, SessionInv, OneOpenSession, NoCallForgotten, Latest
<1>4. CASE ServerDies
  BY <1>4 DEF ServerDies, SessionInv, OneOpenSession, NoCallForgotten, Latest
<1> QED  BY <1>1, <1>2, <1>3, <1>4 DEF Ending

LEMMA WorkingSessions ==
    ASSUME TypeOK, SessionInv, Working
    PROVE  SessionInv'
<1>1. ASSUME NEW c \in Call, Request(c) \/ CallEnds(c) PROVE SessionInv'
  <2>1. UNCHANGED <<owner, active, registered, current, timers, linked>> /\ Latest' = Latest
    BY <1>1 DEF Request, CallEnds, Latest
  <2>2. ASSUME NEW d \in Call, waits'[d] # 0 PROVE waits'[d] \in registered
    <3>1. waits'[d] = waits[d] \/ waits'[d] = 0 \/ (waits'[d] = current /\ current \in registered)
      BY <1>1 DEF Request, CallEnds, TypeOK
    <3> QED  BY <2>2, <3>1 DEF SessionInv, NoCallForgotten
  <2> QED  BY <2>1, <2>2 DEF SessionInv, OneOpenSession, NoCallForgotten
<1>2. CASE StartTurn \/ (\E n \in Turn : FinishTurn(n) \/ PostEnd(n))
  <2>1. UNCHANGED <<owner, hubVars, linked>>
    BY <1>2 DEF StartTurn, FinishTurn, PostEnd, serverVars
  <2> QED  BY <2>1 DEF hubVars, SessionInv, OneOpenSession, NoCallForgotten, Latest
<1> QED  BY <1>1, <1>2 DEF Working

LEMMA SessionsKept == Spec => [](TypeOK /\ SessionInv)
<1>1. Init => SessionInv
  BY DEF Init, SessionInv, OneOpenSession, NoCallForgotten, Latest
<1>2. TypeOK /\ SessionInv /\ [Next]_vars => SessionInv'
  <2> SUFFICES ASSUME TypeOK, SessionInv, [Next]_vars PROVE SessionInv'
    OBVIOUS
  <2>1. CASE UNCHANGED vars
    BY <2>1 DEF vars, serverVars, hubVars, SessionInv, OneOpenSession, NoCallForgotten, Latest
  <2> QED  BY <2>1, ConnectingSessions, EndingSessions, WorkingSessions DEF Next
<1> QED  BY <1>1, <1>2, HostsTypeCorrect, PTL DEF Spec

\* Commands go to the one open session of the host, whatever is late or lost.
THEOREM CommandsGoToTheOpenSession == Spec => []OneOpenSession
<1>1. SessionInv => OneOpenSession
  BY DEF SessionInv
<1> QED  BY <1>1, SessionsKept, PTL

\* No call outlives the session it waits for.
THEOREM CallsEndWithTheirSession == Spec => []NoCallForgotten
<1>1. SessionInv => NoCallForgotten
  BY DEF SessionInv
<1> QED  BY <1>1, SessionsKept, PTL

-----------------------------------------------------------------------------
(* The clock.                                                              *)

LEMMA AwayStep ==
    ASSUME TypeOK, SessionInv, AwayIsTimed, [Next]_vars
    PROVE  AwayIsTimed'
<1>0. /\ status \in ThreadStates /\ report \in BOOLEAN /\ instance \in Nat
      /\ active \subseteq {Latest} /\ timers \subseteq {Latest}
      /\ registered \subseteq active /\ registered = IF current = 0 THEN {} ELSE {current}
  BY DEF TypeOK, ThreadStates, SessionInv, OneOpenSession
<1>1. CASE Ask \/ OpenFails \/ ConnectFails \/ LinkBreaks \/ HangUp \/ DaemonDies \/ DaemonStarts
  <2>1. UNCHANGED <<serverVars, restarts>>
    BY <1>1 DEF Ask, OpenFails, ConnectFails, LinkBreaks, HangUp, DaemonDies, DaemonStarts, bounds
  <2> QED  BY <2>1 DEF serverVars, hubVars, threadVars, AwayIsTimed, Latest
<1>2. CASE OpenHandled \/ StrayOpen
  <2>1. \E i, runs : Open(i, runs)
    BY <1>2 DEF OpenHandled, StrayOpen
  <2>2. active' # {}
    BY <2>1 DEF Open
  <2> QED  BY <2>2 DEF AwayIsTimed
<1>3. CASE Connect
  <2>1. CASE session \in active
    BY <1>3, <2>1 DEF Connect, AwayIsTimed
  <2>2. CASE session \notin active
    BY <1>3, <2>2 DEF Connect, MayConnect, threadVars, bounds, AwayIsTimed, Latest
  <2> QED  BY <2>1, <2>2
<1>4. ASSUME NEW s \in Opened, SocketClosed(s) PROVE AwayIsTimed'
  <2>1. /\ UNCHANGED <<owner, status, restarts>> /\ active' = active \ {s}
        /\ timers' = IF s \in active THEN timers \union {s} ELSE timers
    BY <1>4 DEF SocketClosed, threadVars, bounds
  <2> QED  BY <1>0, <2>1 DEF AwayIsTimed, Latest
<1>5. ASSUME NEW s \in Opened, WorkGraceEnds(s) PROVE AwayIsTimed'
  <2>1. CASE current \in registered
    BY <1>0, <1>5, <2>1 DEF WorkGraceEnds, AwayIsTimed
  <2>2. CASE current \notin registered
    <3>1. status' # "active"
      BY <1>0, <1>5, <2>2, StatusValues DEF WorkGraceEnds
    <3> QED  BY <3>1 DEF AwayIsTimed
  <2> QED  BY <2>1, <2>2
<1>6. CASE ServerDies
  BY <1>6 DEF ServerDies, AwayIsTimed, TypeOK
<1>7. ASSUME NEW c \in Call, Request(c) \/ CallEnds(c) PROVE AwayIsTimed'
  BY <1>7 DEF Request, CallEnds, threadVars, bounds, AwayIsTimed, Latest
<1>8. CASE StartTurn
  BY <1>0, <1>8 DEF StartTurn, Online, hubVars, AwayIsTimed
<1>9. ASSUME NEW n \in Turn, FinishTurn(n) PROVE AwayIsTimed'
  BY <1>9 DEF FinishTurn, serverVars, hubVars, threadVars, bounds, AwayIsTimed, Latest
<1>10. ASSUME NEW n \in Turn, PostEnd(n) PROVE AwayIsTimed'
  BY <1>10 DEF PostEnd, hubVars, AwayIsTimed
<1>11. CASE UNCHANGED vars
  BY <1>11 DEF vars, serverVars, hubVars, threadVars, bounds, AwayIsTimed, Latest
<1> QED
  BY <1>1, <1>2, <1>3, <1>4, <1>5, <1>6, <1>7, <1>8, <1>9, <1>10, <1>11
  DEF Next, Connecting, Ending, Working

\* While the server runs, an active thread of a host that has gone is on the clock.
THEOREM TheClockRuns == Spec => []AwayIsTimed
<1>1. Init => AwayIsTimed
  BY DEF Init, AwayIsTimed
<1> QED  BY <1>1, AwayStep, SessionsKept, PTL DEF Spec

-----------------------------------------------------------------------------
(* The turns.                                                              *)

\* The thread is taken for active if the daemon runs a turn, and only if it runs
\* one or has the end of one to tell.
Told(taken) == (Running => taken) /\ (taken => Running \/ unposted # {})

OneTurn ==
    /\ \A m, n \in Turn : ran[m] = "runs" /\ ran[n] = "runs" => m = n
    /\ Running => unposted = {}

\* What a request reports, and what an open session was told, is what runs or
\* what is still to be told.
TurnInv ==
    /\ OneTurn
    /\ phase = "asking" => Told(report)
    /\ phase \in {"opened", "connected"} /\ session \in active => Told(status = "active")

LEMMA NoTurnLeft ==
    ASSUME TypeOK, ran' = Gone, unposted' = {}, phase' \notin {"asking", "opened", "connected"}
    PROVE  TurnInv'
<1>1. Len(Gone) = Len(ran) /\ \A n \in Turn : Gone[n] # "runs"
  BY GoneType
<1>2. \A n \in Turn' : ran'[n] # "runs"
  BY <1>1 DEF Turn
<1> QED  BY <1>2 DEF TurnInv, OneTurn, Running

LEMMA ConnectingTurns ==
    ASSUME TypeOK, SessionInv, TurnInv, Connecting
    PROVE  TurnInv'
<1>0. report \in BOOLEAN /\ instance \in Nat /\ session \in Opened \union {0} /\ Latest \in Nat
  BY DEF TypeOK, Latest
<1>1. UNCHANGED turnVars
  BY DEF Connecting, Ask, OpenHandled, OpenFails, StrayOpen, Connect, ConnectFails
<1>2. OneTurn' /\ Running' = Running /\ unposted' = unposted
  BY <1>1 DEF turnVars, TurnInv, OneTurn, Running, Turn
<1>3. CASE Ask
  <2>1. phase' = "asking" /\ report' = Running
    BY <1>3 DEF Ask
  <2> QED  BY <1>2, <2>1 DEF TurnInv, Told
<1>4. CASE OpenHandled
  <2>1. Open(instance, report) /\ phase' = "opened" /\ phase = "asking"
    BY <1>4 DEF OpenHandled
  <2>2. status' = "active" <=> report
    BY <1>0, <2>1, OpenTypes
  <2> QED  BY <1>2, <2>1, <2>2 DEF TurnInv, Told
<1>5. CASE StrayOpen
  <2>1. PICK q \in strays : Open(q[1], q[2])
    BY <1>5 DEF StrayOpen
  <2>2. active' = {Latest + 1}
    BY <2>1 DEF Open
  <2>3. session' \notin active' /\ phase' = phase /\ report' = report
    BY <1>0, <1>5, <2>2 DEF StrayOpen, Opened, Latest
  <2> QED  BY <1>2, <2>3 DEF TurnInv, Told
<1>6. CASE OpenFails \/ ConnectFails
  BY <1>2, <1>6 DEF OpenFails, ConnectFails, TurnInv
<1>7. CASE Connect
  <2>1. phase = "opened" /\ UNCHANGED <<active, status, session>> /\ phase' \in {"closed", "connected"}
    BY <1>7 DEF Connect, threadVars
  <2> QED  BY <1>2, <2>1 DEF TurnInv, Told
<1> QED  BY <1>3, <1>4, <1>5, <1>6, <1>7 DEF Connecting

LEMMA EndingTurns ==
    ASSUME TypeOK, SessionInv, TurnInv, Ending
    PROVE  TurnInv'
<1>1. ASSUME UNCHANGED turnVars PROVE OneTurn' /\ Running' = Running /\ unposted' = unposted
  BY <1>1 DEF turnVars, TurnInv, OneTurn, Running, Turn
<1>2. CASE LinkBreaks
  <2>1. /\ UNCHANGED <<active, status, session, report, turnVars>>
        /\ phase = "connected" /\ phase' \in {"closed", "connected"}
    BY <1>2 DEF LinkBreaks, serverVars, hubVars, threadVars
  <2> QED  BY <1>1, <2>1 DEF TurnInv, Told
<1>3. CASE HangUp
  <2>1. CASE session \in dismissed
    BY <1>3, <2>1, NoTurnLeft DEF HangUp
  <2>2. CASE session \notin dismissed
    BY <1>1, <1>3, <2>2 DEF HangUp, TurnInv
  <2> QED  BY <2>1, <2>2
<1>4. ASSUME NEW s \in Opened, SocketClosed(s) PROVE TurnInv'
  <2>1. active' \subseteq active /\ UNCHANGED <<status, phase, session, report, turnVars>>
    BY <1>4 DEF SocketClosed, threadVars
  <2> QED  BY <1>1, <2>1 DEF TurnInv, Told
<1>5. ASSUME NEW s \in Opened, WorkGraceEnds(s) PROVE TurnInv'
  <2>1. s \in timers /\ UNCHANGED <<active, phase, session, report, turnVars>>
    BY <1>5 DEF WorkGraceEnds
  <2>2. active = {}
    BY <2>1 DEF SessionInv, OneOpenSession
  <2> QED  BY <1>1, <2>1, <2>2 DEF TurnInv, Told
<1>6. CASE DaemonDies
  BY <1>6, NoTurnLeft DEF DaemonDies
<1>7. CASE DaemonStarts
  BY <1>1, <1>7 DEF DaemonStarts, TurnInv
<1>8. CASE ServerDies
  <2>1. /\ UNCHANGED <<active, status, session, report, turnVars>>
        /\ phase' = IF phase = "asking" THEN "closed" ELSE phase
    BY <1>8 DEF ServerDies, threadVars
  <2> QED  BY <1>1, <2>1 DEF TurnInv, Told
<1> QED  BY <1>2, <1>3, <1>4, <1>5, <1>6, <1>7, <1>8 DEF Ending

LEMMA WorkingTurns ==
    ASSUME TypeOK, SessionInv, TurnInv, Working
    PROVE  TurnInv'
<1>0. ran \in Seq(RanStates) /\ Len(ran) \in Nat /\ unposted \subseteq Turn /\ status \in ThreadStates
  BY DEF TypeOK, RanStates, ThreadStates
<1>1. ASSUME NEW c \in Call, Request(c) \/ CallEnds(c) PROVE TurnInv'
  BY <1>1 DEF Request, CallEnds, threadVars, turnVars, TurnInv, OneTurn, Told, Running, Turn
<1>2. CASE StartTurn
  <2>1. /\ phase = "connected" /\ session \in active /\ status # "active" /\ unposted = {}
        /\ ran' = Append(ran, "runs") /\ UNCHANGED <<phase, session, active, unposted>>
    BY <1>2 DEF StartTurn, Online, SessionInv, OneOpenSession, hubVars
  <2>2. status' = "active"
    BY <1>2, AfterValues DEF StartTurn
  <2>3. ~ Running
    BY <2>1 DEF TurnInv, Told
  <2>4. /\ Turn' = Turn \union {Len(ran) + 1} /\ ran'[Len(ran) + 1] = "runs"
        /\ \A n \in Turn : ran'[n] = ran[n]
    BY <1>0, <2>1 DEF Turn
  <2>5. \A n \in Turn' : ran'[n] = "runs" <=> n = Len(ran) + 1
    BY <1>0, <2>3, <2>4 DEF Running, Turn
  <2>6. Running'
    BY <2>4 DEF Running
  <2> QED  BY <2>1, <2>2, <2>5, <2>6 DEF TurnInv, OneTurn, Told
<1>3. ASSUME NEW n \in Turn, FinishTurn(n) PROVE TurnInv'
  <2>1. /\ ran[n] = "runs" /\ ran' = [ran EXCEPT ![n] = "finished"] /\ unposted' = unposted \union {n}
        /\ UNCHANGED <<active, status, phase, session, report>>
    BY <1>3 DEF FinishTurn, serverVars, hubVars, threadVars
  <2>2. Len(ran') = Len(ran)
    BY <1>3, FinishType
  <2>3. \A m \in Turn : ran'[m] # "runs"
    BY <1>0, <2>1 DEF TurnInv, OneTurn, Turn
  <2>4. ~ Running' /\ OneTurn'
    BY <2>2, <2>3 DEF Running, OneTurn, Turn
  <2> QED  BY <2>1, <2>4 DEF TurnInv, Told
<1>4. ASSUME NEW n \in Turn, PostEnd(n) PROVE TurnInv'
  <2>1. n \in unposted /\ phase = "connected" /\ UNCHANGED <<ran, active, phase, session, report>>
    BY <1>4 DEF PostEnd, hubVars
  <2>2. ~ Running /\ Running' = Running
    BY <2>1 DEF TurnInv, OneTurn, Running, Turn
  <2>3. status' # "active"
    BY <1>0, <1>4, AfterValues DEF PostEnd, ThreadStates
  <2>4. OneTurn'
    BY <2>1, <2>2 DEF TurnInv, OneTurn, Turn
  <2> QED  BY <2>1, <2>2, <2>3, <2>4 DEF TurnInv, Told
<1> QED  BY <1>1, <1>2, <1>3, <1>4 DEF Working

LEMMA TurnsKept == Spec => [](TypeOK /\ SessionInv /\ TurnInv)
<1>1. Init => TurnInv
  BY DEF Init, TurnInv, OneTurn, Running, Turn
<1>2. TypeOK /\ SessionInv /\ TurnInv /\ [Next]_vars => TurnInv'
  <2> SUFFICES ASSUME TypeOK, SessionInv, TurnInv, [Next]_vars PROVE TurnInv'
    OBVIOUS
  <2>1. CASE UNCHANGED vars
    BY <2>1 DEF vars, serverVars, hubVars, threadVars, turnVars, TurnInv, OneTurn, Told, Running, Turn
  <2> QED  BY <2>1, ConnectingTurns, EndingTurns, WorkingTurns DEF Next
<1> QED  BY <1>1, <1>2, SessionsKept, PTL DEF Spec

\* A connected daemon that has nothing to tell and the server agree on the thread.
THEOREM ServersAgreeWithDaemons == Spec => []ServerAndDaemonAgree
<1>1. TypeOK /\ SessionInv /\ TurnInv => ServerAndDaemonAgree
  BY DEF SessionInv, OneOpenSession, TurnInv, Told, Online, ServerAndDaemonAgree
<1> QED  BY <1>1, TurnsKept, PTL

-----------------------------------------------------------------------------
(* The log of the turns.                                                   *)

\* A turn is open in the log only while the thread is active, and runs or waits in
\* the sink only as long as no other was started.
LogInv ==
    /\ \A n \in Turn : recorded[n] = "open" => n = Len(ran) /\ status = "active"
    /\ \A n \in Turn : recorded[n] = "completed" => ran[n] = "finished"
    /\ \A n \in Turn : ran[n] = "runs" => n = Len(ran)
    /\ \A n \in unposted : n = Len(ran) /\ ran[n] = "finished"

\* An interruption leaves no turn open and completes none.
LEMMA CutCloses ==
    ASSUME TypeOK, LogInv
    PROVE  \A n \in Turn : /\ Cut(status)[n] # "open"
                           /\ Cut(status)[n] = "completed" => recorded[n] = "completed"
<1>1. recorded \in Seq(Recorded) /\ DOMAIN recorded = Turn
  BY DEF TypeOK, Recorded, Turn
<1>2. \A n \in Turn : recorded[n] = "open" => status = "active"
  BY DEF LogInv
<1> QED  BY <1>1, <1>2 DEF Cut

\* What keeps the turns of the daemon keeps the log if it closes it, or keeps the
\* log and an active thread active.
LEMMA LogKept ==
    ASSUME LogInv, UNCHANGED turnVars,
           \/ recorded' = recorded /\ (status = "active" => status' = "active")
           \/ \A n \in Turn : /\ recorded'[n] # "open"
                              /\ recorded'[n] = "completed" => recorded[n] = "completed"
    PROVE  LogInv'
<1>1. ran' = ran /\ unposted' = unposted /\ Turn' = Turn
  BY DEF turnVars, Turn
<1> QED  BY <1>1 DEF LogInv

LEMMA OpenLogs ==
    ASSUME TypeOK, LogInv, NEW i \in Nat, NEW runs \in BOOLEAN, Open(i, runs), UNCHANGED turnVars
    PROVE  LogInv'
<1>1. recorded' = Cut(status) \/ (recorded' = recorded /\ runs)
  BY DEF Open
<1>2. runs => status' = "active"
  BY OpenTypes
<1> QED  BY <1>1, <1>2, CutCloses, LogKept

\* The daemon dies, and what it ran with it.
LEMMA GoneLogs ==
    ASSUME TypeOK, LogInv, ran' = Gone, unposted' = {}, UNCHANGED threadVars
    PROVE  LogInv'
<1>1. Len(ran') = Len(ran) /\ Turn' = Turn /\ \A n \in Turn : ran'[n] # "runs"
  BY GoneType DEF Turn
<1>2. \A n \in Turn : ran[n] = "finished" => ran'[n] = "finished"
  BY DEF Gone
<1> QED  BY <1>1, <1>2 DEF LogInv, threadVars

LEMMA ConnectingLogs ==
    ASSUME TypeOK, LogInv, Connecting
    PROVE  LogInv'
<1>0. report \in BOOLEAN /\ instance \in Nat
  BY DEF TypeOK
<1>1. UNCHANGED turnVars
  BY DEF Connecting, Ask, OpenHandled, OpenFails, StrayOpen, Connect, ConnectFails
<1>2. CASE Ask \/ OpenFails \/ Connect \/ ConnectFails
  BY <1>1, <1>2, LogKept DEF Ask, OpenFails, Connect, ConnectFails, serverVars, threadVars
<1>3. CASE OpenHandled
  BY <1>0, <1>1, <1>3, OpenLogs DEF OpenHandled
<1>4. CASE StrayOpen
  <2>1. PICK q \in strays : Open(q[1], q[2])
    BY <1>4 DEF StrayOpen
  <2> QED  BY <1>1, <2>1, OpenLogs DEF TypeOK
<1> QED  BY <1>2, <1>3, <1>4 DEF Connecting

LEMMA EndingLogs ==
    ASSUME TypeOK, LogInv, Ending
    PROVE  LogInv'
<1>1. CASE LinkBreaks \/ DaemonStarts \/ ServerDies
  BY <1>1, LogKept DEF LinkBreaks, DaemonStarts, ServerDies, serverVars, threadVars
<1>2. CASE HangUp
  BY <1>2, GoneLogs, LogKept DEF HangUp, serverVars, threadVars
<1>3. CASE DaemonDies
  BY <1>3, GoneLogs DEF DaemonDies, serverVars
<1>4. ASSUME NEW s \in Opened, SocketClosed(s) PROVE LogInv'
  BY <1>4, LogKept DEF SocketClosed, threadVars
<1>5. ASSUME NEW s \in Opened, WorkGraceEnds(s) PROVE LogInv'
  BY <1>5, LogKept, CutCloses DEF WorkGraceEnds, threadVars
<1> QED  BY <1>1, <1>2, <1>3, <1>4, <1>5 DEF Ending

LEMMA WorkingLogs ==
    ASSUME TypeOK, SessionInv, TurnInv, LogInv, Working
    PROVE  LogInv'
<1>0. /\ ran \in Seq(RanStates) /\ recorded \in Seq(Recorded) /\ Len(recorded) = Len(ran)
      /\ Len(ran) \in Nat /\ unposted \subseteq Turn
  BY DEF TypeOK, RanStates, Recorded
<1>1. ASSUME NEW c \in Call, Request(c) \/ CallEnds(c) PROVE LogInv'
  BY <1>1, LogKept DEF Request, CallEnds, threadVars
<1>2. CASE StartTurn
  <2>1. /\ phase = "connected" /\ session \in active /\ status # "active" /\ unposted = {}
        /\ ran' = Append(ran, "runs") /\ recorded' = Append(recorded, "open") /\ unposted' = {}
    BY <1>2 DEF StartTurn, Online, SessionInv, OneOpenSession
  <2>2. status' = "active"
    BY <1>2, AfterValues DEF StartTurn
  <2>3. \A n \in Turn : ran[n] # "runs" /\ recorded[n] # "open"
    BY <2>1 DEF TurnInv, Told, Running, LogInv
  <2>4. /\ Len(ran') = Len(ran) + 1 /\ Turn' = Turn \union {Len(ran) + 1}
        /\ ran'[Len(ran) + 1] = "runs" /\ recorded'[Len(ran) + 1] = "open"
        /\ \A n \in Turn : ran'[n] = ran[n] /\ recorded'[n] = recorded[n]
    BY <1>0, <2>1 DEF Turn
  <2>5. \A n \in Turn' : n = Len(ran) + 1 \/ n \in Turn
    BY <2>4
  <2> QED  BY <2>1, <2>2, <2>3, <2>4, <2>5 DEF LogInv
<1>3. ASSUME NEW n \in Turn, FinishTurn(n) PROVE LogInv'
  <2>1. /\ ran[n] = "runs" /\ ran' = [ran EXCEPT ![n] = "finished"] /\ unposted' = unposted \union {n}
        /\ UNCHANGED threadVars
    BY <1>3 DEF FinishTurn, serverVars
  <2>2. Len(ran') = Len(ran) /\ Turn' = Turn
    BY <1>3, FinishType DEF Turn
  <2>3. /\ ran'[n] = "finished" /\ n = Len(ran)
        /\ \A m \in Turn : m # n => ran'[m] = ran[m]
    BY <1>0, <2>1 DEF LogInv, Turn
  <2> QED  BY <1>0, <2>1, <2>2, <2>3 DEF LogInv, threadVars
<1>4. ASSUME NEW n \in Turn, PostEnd(n) PROVE LogInv'
  <2>1. /\ n \in unposted /\ unposted' = unposted \ {n} /\ ran' = ran
        /\ recorded' = [recorded EXCEPT ![n] = IF @ = "open" THEN "completed" ELSE @]
    BY <1>4 DEF PostEnd
  <2>2. n = Len(ran) /\ ran[n] = "finished"
    BY <2>1 DEF LogInv
  <2>3. /\ recorded'[n] # "open"
        /\ \A m \in Turn : m # n => recorded'[m] = recorded[m]
    BY <1>0, <2>1 DEF Turn
  <2> QED  BY <2>1, <2>2, <2>3 DEF LogInv, Turn
<1> QED  BY <1>1, <1>2, <1>3, <1>4 DEF Working

LEMMA LogsKept == Spec => [](TypeOK /\ SessionInv /\ TurnInv /\ LogInv)
<1>1. Init => LogInv
  BY DEF Init, LogInv, Turn
<1>2. TypeOK /\ SessionInv /\ TurnInv /\ LogInv /\ [Next]_vars => LogInv'
  <2> SUFFICES ASSUME TypeOK, SessionInv, TurnInv, LogInv, [Next]_vars PROVE LogInv'
    OBVIOUS
  <2>1. CASE UNCHANGED vars
    BY <2>1, LogKept DEF vars, serverVars, threadVars
  <2> QED  BY <2>1, ConnectingLogs, EndingLogs, WorkingLogs DEF Next
<1> QED  BY <1>1, <1>2, TurnsKept, PTL DEF Spec

\* The log calls only the last turn open, and only while the thread is active; it calls
\* completed only what the daemon has finished; and once a connected daemon has posted what it
\* had to tell, it runs whatever is still open.
LogAgrees ==
    /\ \A n \in Turn : recorded[n] = "open" => n = Len(ran) /\ status = "active"
    /\ \A n \in Turn : recorded[n] = "completed" => ran[n] = "finished"
    /\ Online /\ unposted = {} => \A n \in Turn : recorded[n] = "open" => ran[n] = "runs"

\* However often the host was lost and the thread interrupted and revived, a turn that is over
\* is not left open in the log once the daemon is back, and none is completed that was cut off
\* on the daemon (interruptActiveThreads, reconcileDaemonReportedThreads, applyTurnCompletedEvent).
THEOREM LogAgreesWithDaemons == Spec => []LogAgrees
<1>1. TypeOK /\ SessionInv /\ TurnInv /\ LogInv => LogAgrees
  <2> SUFFICES ASSUME SessionInv, TurnInv, LogInv PROVE LogAgrees
    OBVIOUS
  <2>1. ASSUME Online, unposted = {}, NEW n \in Turn, recorded[n] = "open"
        PROVE  ran[n] = "runs"
    <3>1. n = Len(ran) /\ status = "active"
      BY <2>1 DEF LogInv
    <3>2. Running
      BY <2>1, <3>1 DEF SessionInv, OneOpenSession, TurnInv, Told, Online
    <3> QED  BY <3>1, <3>2 DEF Running, LogInv
  <2> QED  BY <2>1 DEF LogAgrees, LogInv
<1> QED  BY <1>1, LogsKept, PTL

-----------------------------------------------------------------------------
(* When nothing is lost.                                                   *)

\* Until something is lost or dies the first session lasts, no clock runs, nothing
\* is interrupted, and what was posted was recorded.
Undisturbed ==
    /\ strays = {} /\ hungUp = {} /\ timers = {}
    /\ phase \in {"closed", "asking"} => owner = <<>> /\ ran = <<>> /\ linked = {}
    /\ phase # "down"
    /\ phase = "opened" => session \in active /\ linked = {}
    /\ phase = "connected" => session \in active /\ linked = {session}
    /\ \A n \in Turn : recorded[n] # "interrupted"
    /\ \A n \in Turn : ran[n] = "finished" /\ n \notin unposted => recorded[n] = "completed"

Smooth == losses = 0 /\ deaths = 0 => Undisturbed

\* What keeps the turns keeps what is said of them.
LEMMA TurnsUndisturbed ==
    ASSUME Undisturbed, UNCHANGED <<turnVars, recorded>>
    PROVE  /\ Turn' = Turn /\ (ran' = <<>> <=> ran = <<>>)
           /\ \A n \in Turn' : recorded'[n] # "interrupted"
           /\ \A n \in Turn' : ran'[n] = "finished" /\ n \notin unposted' => recorded'[n] = "completed"
BY DEF Undisturbed, turnVars, Turn

LEMMA SmoothConnecting ==
    ASSUME TypeOK, SessionInv, Smooth, losses' = 0, deaths' = 0, Connecting
    PROVE  Undisturbed'
<1>0. losses \in Nat /\ deaths \in Nat /\ deaths' = deaths
  BY DEF TypeOK, Connecting, Ask, OpenHandled, OpenFails, StrayOpen, Connect, ConnectFails, bounds
<1>1. losses = 0 /\ ~ OpenFails /\ ~ ConnectFails
  BY <1>0 DEF Connecting, Ask, OpenHandled, OpenFails, StrayOpen, Connect, ConnectFails, bounds
<1>2. Undisturbed
  BY <1>0, <1>1 DEF Smooth
<1>3. CASE Ask
  <2>1. UNCHANGED <<turnVars, recorded>>
    BY <1>3 DEF Ask, serverVars, threadVars
  <2> QED  BY <1>2, <1>3, <2>1, TurnsUndisturbed DEF Ask, serverVars, hubVars, linkVars, Undisturbed
<1>4. CASE OpenHandled
  <2>1. /\ Open(instance, report) /\ phase = "asking" /\ phase' = "opened" /\ session' = Latest + 1
        /\ UNCHANGED <<linked, turnVars, strays>>
    BY <1>4 DEF OpenHandled
  <2>2. Latest = 0 /\ Turn = {} /\ Turn' = {} /\ linked = {} /\ strays = {} /\ timers = {}
    BY <1>2, <2>1 DEF Undisturbed, Latest, Turn, turnVars
  <2>3. active' = {session'} /\ timers' = {}
    BY <2>1, <2>2 DEF Open
  <2>4. active = {}
    BY <2>2 DEF TypeOK, Opened, Latest
  <2>5. hungUp' = {}
    BY <1>2, <2>1, <2>4 DEF Open, Replace, Undisturbed
  <2> QED  BY <2>1, <2>2, <2>3, <2>5 DEF Undisturbed
<1>5. CASE StrayOpen
  BY <1>2, <1>5 DEF StrayOpen, Undisturbed
<1>6. CASE Connect
  <2>1. UNCHANGED <<turnVars, recorded, active, session, strays, hungUp>> /\ phase = "opened"
    BY <1>6 DEF Connect, threadVars, linkVars
  <2>2. /\ phase' = "connected" /\ linked' = linked \union {session}
        /\ timers' = timers \ {session, current}
    BY <1>2, <1>6, <2>1 DEF Connect, MayConnect, Undisturbed
  <2> QED  BY <1>2, <2>1, <2>2, TurnsUndisturbed DEF Undisturbed
<1> QED  BY <1>1, <1>3, <1>4, <1>5, <1>6 DEF Connecting

LEMMA SmoothEnding ==
    ASSUME TypeOK, SessionInv, Smooth, losses' = 0, deaths' = 0, Ending
    PROVE  FALSE
<1>0. losses \in Nat /\ deaths \in Nat
  BY DEF TypeOK
<1>1. ~ LinkBreaks /\ ~ DaemonDies /\ ~ ServerDies
  BY <1>0 DEF LinkBreaks, DaemonDies, ServerDies
<1>2. UNCHANGED bounds
  BY <1>1 DEF Ending, HangUp, SocketClosed, WorkGraceEnds, DaemonStarts
<1>3. Undisturbed
  BY <1>2 DEF Smooth, bounds
<1>4. ~ HangUp /\ ~ DaemonStarts
  BY <1>3 DEF Undisturbed, HangUp, DaemonStarts
<1>5. ASSUME NEW s \in Opened, SocketClosed(s) PROVE FALSE
  BY <1>3, <1>5 DEF Undisturbed, SocketClosed, TypeOK
<1>6. ASSUME NEW s \in Opened, WorkGraceEnds(s) PROVE FALSE
  BY <1>3, <1>6 DEF Undisturbed, WorkGraceEnds
<1> QED  BY <1>1, <1>4, <1>5, <1>6 DEF Ending

LEMMA SmoothWorking ==
    ASSUME TypeOK, SessionInv, LogInv, Smooth, losses' = 0, deaths' = 0, Working
    PROVE  Undisturbed'
<1>0. /\ ran \in Seq(RanStates) /\ recorded \in Seq(Recorded) /\ Len(recorded) = Len(ran)
      /\ Len(ran) \in Nat /\ unposted \subseteq Turn
  BY DEF TypeOK, RanStates, Recorded
<1>1. UNCHANGED <<bounds, owner, active, timers, linked, phase, session, strays, hungUp>>
  BY DEF Working, Request, CallEnds, StartTurn, FinishTurn, PostEnd, serverVars, hubVars, linkVars
<1>2. Undisturbed
  BY <1>1 DEF Smooth, bounds
<1>3. SUFFICES ASSUME TRUE
               PROVE  /\ phase \in {"closed", "asking"} => ran' = <<>>
                      /\ \A n \in Turn' : recorded'[n] # "interrupted"
                      /\ \A n \in Turn' : ran'[n] = "finished" /\ n \notin unposted' => recorded'[n] = "completed"
  BY <1>1, <1>2 DEF Undisturbed
<1>4. ASSUME NEW c \in Call, Request(c) \/ CallEnds(c)
      PROVE  UNCHANGED <<turnVars, recorded>>
  BY <1>4 DEF Request, CallEnds, threadVars
<1>5. CASE StartTurn
  <2>1. /\ phase = "connected" /\ unposted' = unposted
        /\ ran' = Append(ran, "runs") /\ recorded' = Append(recorded, "open")
    BY <1>5 DEF StartTurn, Online
  <2>2. /\ Turn' = Turn \union {Len(ran) + 1}
        /\ ran'[Len(ran) + 1] = "runs" /\ recorded'[Len(ran) + 1] = "open"
        /\ \A n \in Turn : ran'[n] = ran[n] /\ recorded'[n] = recorded[n]
    BY <1>0, <2>1 DEF Turn
  <2> QED  BY <1>2, <2>1, <2>2 DEF Undisturbed
<1>6. ASSUME NEW n \in Turn, FinishTurn(n)
      PROVE  /\ phase \in {"closed", "asking"} => ran' = <<>>
             /\ \A m \in Turn' : recorded'[m] # "interrupted"
             /\ \A m \in Turn' : ran'[m] = "finished" /\ m \notin unposted' => recorded'[m] = "completed"
  <2>1. /\ ran' = [ran EXCEPT ![n] = "finished"] /\ unposted' = unposted \union {n}
        /\ recorded' = recorded
    BY <1>6 DEF FinishTurn, serverVars, threadVars
  <2>2. Turn' = Turn /\ \A m \in Turn : m # n => ran'[m] = ran[m]
    BY <1>0, <1>6, <2>1, FinishType DEF Turn
  <2>3. phase \notin {"closed", "asking"}
    BY <1>2 DEF Undisturbed, Turn
  <2> QED  BY <1>2, <2>1, <2>2, <2>3 DEF Undisturbed
<1>7. ASSUME NEW n \in Turn, PostEnd(n)
      PROVE  /\ phase \in {"closed", "asking"} => ran' = <<>>
             /\ \A m \in Turn' : recorded'[m] # "interrupted"
             /\ \A m \in Turn' : ran'[m] = "finished" /\ m \notin unposted' => recorded'[m] = "completed"
  <2>1. /\ n \in unposted /\ unposted' = unposted \ {n} /\ ran' = ran /\ phase = "connected"
        /\ recorded' = [recorded EXCEPT ![n] = IF @ = "open" THEN "completed" ELSE @]
    BY <1>7 DEF PostEnd
  <2>2. recorded[n] \in {"open", "completed"}
    BY <1>0, <1>2 DEF Undisturbed, Recorded, Turn
  <2>3. /\ recorded'[n] = "completed"
        /\ \A m \in Turn : m # n => recorded'[m] = recorded[m]
    BY <1>0, <2>1, <2>2 DEF Turn
  <2> QED  BY <1>2, <2>1, <2>3 DEF Undisturbed, Turn
<1> QED  BY <1>2, <1>4, <1>5, <1>6, <1>7, TurnsUndisturbed DEF Working, Undisturbed

LEMMA SmoothStep ==
    ASSUME TypeOK, SessionInv, LogInv, Smooth, [Next]_vars
    PROVE  Smooth'
<1> SUFFICES ASSUME losses' = 0, deaths' = 0
             PROVE  Undisturbed'
  BY DEF Smooth
<1>1. CASE UNCHANGED vars
  BY <1>1 DEF vars, serverVars, hubVars, threadVars, turnVars, linkVars, bounds, Smooth, Undisturbed, Turn
<1> QED  BY <1>1, SmoothConnecting, SmoothEnding, SmoothWorking DEF Next

\* The document is right as long as no request or connection was lost and nobody died: a turn
\* that has finished and told the server is completed in the log.  Only a loss brings about what
\* FinishedIsCompleted is violated by: no order of turns, posts and opened sessions does
\* (openSession, handleDaemonSocketClosed, completeDaemonActiveWorkDisconnectGrace).
THEOREM OnlyLossesInterrupt == Spec => [](losses = 0 /\ deaths = 0 => FinishedIsCompleted)
<1>1. Init => Smooth
  BY DEF Init, Smooth, Undisturbed, Turn
<1>2. Smooth => (losses = 0 /\ deaths = 0 => FinishedIsCompleted)
  BY DEF Smooth, Undisturbed, FinishedIsCompleted
<1> QED  BY <1>1, <1>2, SmoothStep, LogsKept, PTL DEF Spec
=============================================================================
