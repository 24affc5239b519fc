---------------------------- MODULE CommandLanes ----------------------------
(***************************************************************************)
(* How the host daemon orders the commands of the server: CommandRouter    *)
(* starts each as soon as it arrives, but the body of a command runs only  *)
(* when the promises it waits for have settled.  A turn (thread.start,     *)
(* turn.submit) waits for an unarchive of its thread and for the turns of  *)
(* its thread; commands read or write their environment; and the commands  *)
(* of one thread in one environment run one after the other.               *)
(*                                                                         *)
(* A promise of a lane is the set of the commands whose end it waits for.  *)
(* Steps between two messages of the socket are microtasks: a message      *)
(* arrives only when none is left (Quiet).                                 *)
(* Commands without any lane (thread.rename, the queries) are left out.    *)
(***************************************************************************)
EXTENDS Naturals, FiniteSets

CONSTANTS
    Cmd,         \* the commands: each is sent once
    Thread,
    Env,
    None,
    Kind,        \* [Cmd -> Kinds]
    ThreadOf,    \* [Cmd -> Thread]; ignored for a command of the environment alone
    EnvOf        \* [Cmd -> Env]

\* "turn": thread.start, turn.submit; "stop": thread.stop, interactive.resolve,
\* thread.plan.cancel; "clear": thread.goal.clear; "read": status, diff, rewind;
\* "write": attach, commit, pull request.
Kinds == {"turn", "stop", "clear", "archive", "unarchive", "read", "write"}

ASSUME LanesAssumption ==
    /\ Kind \in [Cmd -> Kinds]
    /\ ThreadOf \in [Cmd -> Thread]
    /\ EnvOf \in [Cmd -> Env]
    /\ None \notin Cmd

VARIABLES
    stage,      \* of a command: "new", the lane it is queued in, "runs" or "done"
    waits,      \* the commands whose end it still waits for in that lane
    barrier,    \* threadUnarchiveBarriers: the last unarchive of a thread
    turnTail,   \* threadTurnLaneTails
    threadTail, \* threadLaneTails
    envLane,    \* environmentLanes: tail and writeTail
    ahead       \* turns and unarchives of its thread in flight since before it arrived

lanes == <<turnTail, threadTail, envLane>>
vars == <<stage, waits, barrier, lanes, ahead>>

Turns == {c \in Cmd : Kind[c] = "turn"}
Unarchives == {c \in Cmd : Kind[c] = "unarchive"}
OnThread(c) == Kind[c] \in {"turn", "stop", "clear", "archive"}
Writes(c) == Kind[c] \in {"archive", "unarchive", "write"}
OnEnv(c) == Kind[c] # "stop"
Key(c) == <<EnvOf[c], ThreadOf[c]>>

InFlight == {c \in Cmd : stage[c] \notin {"new", "done"}}
Pending(S) == {c \in S : stage[c] # "done"}
Promise(tail) == {tail} \ {None}

EmptyLane == [tail |-> {}, writeTail |-> {}]

Init ==
    /\ stage = [c \in Cmd |-> "new"]
    /\ waits = [c \in Cmd |-> {}]
    /\ barrier = [t \in Thread |-> None]
    /\ turnTail = [t \in Thread |-> None]
    /\ threadTail = [k \in Env \X Thread |-> None]
    /\ envLane = [e \in Env |-> EmptyLane]
    /\ ahead = [c \in Cmd |-> {}]

-----------------------------------------------------------------------------
(* Entering a lane.                                                        *)

Queue(c, lane, S) ==
    /\ stage' = [stage EXCEPT ![c] = lane]
    /\ waits' = [waits EXCEPT ![c] = S]

\* Mutant: the new promise is in the lane before the previous one is read.
JoinTurnLaneFirst(c) ==
    /\ turnTail' = [turnTail EXCEPT ![ThreadOf[c]] = c]
    /\ Queue(c, "turn", Promise(turnTail'[ThreadOf[c]]))
    /\ UNCHANGED <<threadTail, envLane>>

JoinTurnLane(c) ==
    /\ Queue(c, "turn", Promise(turnTail[ThreadOf[c]]))
    /\ turnTail' = [turnTail EXCEPT ![ThreadOf[c]] = c]
    /\ UNCHANGED <<threadTail, envLane>>

\* Mutant: a read replaces the tail, and the reads before it are forgotten.
LaneOfLastRead(lane, c) ==
    IF Writes(c)
    THEN [tail |-> {c}, writeTail |-> {c}]
    ELSE [lane EXCEPT !.tail = {c} \union lane.writeTail]

\* runInReadWriteLane: a read adds to the tail, a write replaces it.
LaneWith(lane, c) ==
    IF Writes(c)
    THEN [tail |-> {c}, writeTail |-> {c}]
    ELSE [lane EXCEPT !.tail = lane.tail \union {c}]

JoinEnvLane(c) ==
    LET lane == envLane[EnvOf[c]] IN
    /\ Queue(c, "env", Pending(IF Writes(c) THEN lane.tail ELSE lane.writeTail))
    /\ envLane' = [envLane EXCEPT ![EnvOf[c]] = LaneWith(lane, c)]
    /\ UNCHANGED <<turnTail, threadTail>>

JoinThreadLane(c) ==
    /\ Queue(c, "thread", Promise(threadTail[Key(c)]))
    /\ threadTail' = [threadTail EXCEPT ![Key(c)] = c]
    /\ UNCHANGED <<turnTail, envLane>>

Run(c) == Queue(c, "runs", {}) /\ UNCHANGED <<turnTail, threadTail, envLane>>

\* No step of a command starts before the promise it awaits has settled, whether
\* with a result or with an error (every lane catches).
Ready(c, lane) == stage[c] = lane /\ waits[c] = {}

\* What awaits one barrier goes on in the order in which it came.
PassBarrier(c) ==
    /\ Ready(c, "barrier")
    /\ \A d \in ahead[c] : ~ Ready(d, "barrier")
    /\ JoinTurnLane(c)

\* runInThreadTurnLane: the work of the turn lane is to enter the execution lanes.
PassTurnLane(c) == Ready(c, "turn") /\ JoinEnvLane(c)

\* Mutant: the body runs beside the lane of its thread.
PassEnvLaneAlone(c) == Ready(c, "env") /\ Run(c)

\* runInExecutionLanes: the work of the environment lane is that of the thread lane.
PassEnvLane(c) == Ready(c, "env") /\ IF OnThread(c) THEN JoinThreadLane(c) ELSE Run(c)

PassThreadLane(c) == Ready(c, "thread") /\ Run(c)

Continue(c) ==
    /\ \/ PassBarrier(c)
       \/ PassTurnLane(c)
       \/ PassEnvLane(c)
       \/ PassThreadLane(c)
    /\ UNCHANGED <<barrier, ahead>>

-----------------------------------------------------------------------------
(* A body ends.  A lane or a barrier is deleted when its promise settles,  *)
(* if that promise still is the last one; what waits for it goes on later. *)

\* Mutant: a lane is deleted whoever queued last.
ClearedAnyway(tails, k, c) == [tails EXCEPT ![k] = None]

Cleared(tails, k, c) == IF tails[k] = c THEN [tails EXCEPT ![k] = None] ELSE tails

\* Mutant: what settled is compared with the end of the last command alone.
EnvLaneOfOneCleared(c) ==
    LET e == EnvOf[c] IN
    IF envLane[e].tail = {c} THEN [envLane EXCEPT ![e] = EmptyLane] ELSE envLane

\* deleteReadWriteLaneWhenIdle
EnvLaneCleared(c) ==
    LET e == EnvOf[c] IN
    IF Pending(envLane[e].tail) \subseteq {c} THEN [envLane EXCEPT ![e] = EmptyLane] ELSE envLane

\* executeLiveDaemonCommandBody: dispatchCommand and the flush of the events end,
\* with a result or with an error.  Every promise of the command settles with it.
End(c) ==
    /\ stage[c] = "runs"
    /\ stage' = [stage EXCEPT ![c] = "done"]
    /\ barrier' = Cleared(barrier, ThreadOf[c], c)
    /\ turnTail' = Cleared(turnTail, ThreadOf[c], c)
    /\ threadTail' = Cleared(threadTail, Key(c), c)
    /\ envLane' = EnvLaneCleared(c)
    /\ waits' = [d \in Cmd |-> waits[d] \ {c}]
    /\ ahead' = [d \in Cmd |-> ahead[d] \ {c}]

-----------------------------------------------------------------------------
(* A command arrives, and runs up to the first promise it awaits.          *)

\* No microtask is left.
Quiet == \A c \in Cmd : \A lane \in {"barrier", "turn", "env", "thread"} : ~ Ready(c, lane)

Enter(c) ==
    LET before == Promise(barrier[ThreadOf[c]]) IN
    IF Kind[c] = "turn" THEN
       IF before = {} THEN JoinTurnLane(c)
       ELSE Queue(c, "barrier", before) /\ UNCHANGED lanes
    ELSE IF OnEnv(c) THEN JoinEnvLane(c) ELSE JoinThreadLane(c)

\* Mutant: whatever arrives is a barrier to the turns after it.
BarrierWithAny(c) == [barrier EXCEPT ![ThreadOf[c]] = c]

\* registerThreadUnarchiveBarrier
BarrierWith(c) ==
    IF Kind[c] = "unarchive" THEN [barrier EXCEPT ![ThreadOf[c]] = c] ELSE barrier

Arrive(c) ==
    /\ stage[c] = "new" /\ Quiet
    /\ Enter(c)
    /\ barrier' = BarrierWith(c)
    /\ ahead' = [ahead EXCEPT ![c] = {d \in InFlight : d \in Turns \union Unarchives /\ ThreadOf[d] = ThreadOf[c]}]

Next == \E c \in Cmd : Arrive(c) \/ Continue(c) \/ End(c)

Spec == Init /\ [][Next]_vars

\* The event loop runs every continuation, and a body that runs comes to an end.
FairSpec == Spec /\ \A c \in Cmd : WF_vars(Continue(c)) /\ WF_vars(End(c))
-----------------------------------------------------------------------------
(* Properties.                                                             *)

\* What a command has been granted, it keeps to the end of its body.
HoldsEnv(c) == OnEnv(c) /\ (stage[c] = "runs" \/ (stage[c] = "thread" /\ OnThread(c)))
HoldsThread(c) == OnThread(c) /\ stage[c] = "runs"
HoldsTurn(c) == Kind[c] = "turn" /\ stage[c] \in {"env", "thread", "runs"}

\* Only unarchives are barriers and only turns are in the lanes of turns; nobody
\* waits for a command that has ended (registerThreadUnarchiveBarrier, the lanes).
TypeOK ==
    /\ stage \in [Cmd -> {"new", "barrier", "turn", "env", "thread", "runs", "done"}]
    /\ waits \in [Cmd -> SUBSET Cmd] /\ ahead \in [Cmd -> SUBSET (Turns \union Unarchives)]
    /\ \A c \in Cmd : waits[c] \union ahead[c] \subseteq InFlight
    /\ barrier \in [Thread -> Unarchives \union {None}]
    /\ turnTail \in [Thread -> Turns \union {None}]
    /\ threadTail \in [Env \X Thread -> Cmd \union {None}]
    /\ envLane \in [Env -> [tail : SUBSET Cmd, writeTail : SUBSET Cmd]]

\* A command that writes its environment shares it with no other command, reader
\* or writer, from the grant of its lane to the end of its body, whatever lanes
\* were deleted and made again meanwhile (runInReadWriteLane).
WritesAlone ==
    \A c, d \in Cmd :
       c # d /\ EnvOf[c] = EnvOf[d] /\ Writes(c) /\ HoldsEnv(c) => ~ HoldsEnv(d)

\* Two bodies of one thread never run together: neither two commands of its lane
\* in one environment, nor two turns, even while the thread moves to another
\* environment (runInSerialLane, runInThreadTurnLane).
OneAtATime ==
    \A c, d \in Cmd : c # d =>
       /\ HoldsThread(c) /\ HoldsThread(d) => Key(c) # Key(d)
       /\ HoldsTurn(c) /\ HoldsTurn(d) => ThreadOf[c] # ThreadOf[d]

\* A turn does not begin before the unarchives and the turns of its thread that
\* were there before it have ended (runAfterThreadUnarchiveBarrier; the test
\* "waits for an old-environment turn before resuming the moved thread").
TurnsInOrder == \A c \in Turns : stage[c] = "runs" => ahead[c] = {}

\* The router keeps a lane or a barrier only while a command that is in it is in
\* flight: the maps of a daemon that runs for months do not grow with the threads
\* and environments it has seen.
NoLaneLeft ==
    /\ \A t \in Thread : Promise(barrier[t]) \union Promise(turnTail[t]) \subseteq InFlight
    /\ \A k \in Env \X Thread : Promise(threadTail[k]) \subseteq InFlight
    /\ \A e \in Env : envLane[e] = EmptyLane \/ Pending(envLane[e].tail) # {}

\* No order of arrival leaves commands waiting for each other: each one that
\* arrives is run and answered.
EveryCommandEnds == \A c \in Cmd : stage[c] # "new" ~> stage[c] = "done"
=============================================================================
