---------------------------- MODULE HostSessions ----------------------------
(***************************************************************************)
(* The session of one host.  Its daemon opens a session with a request and *)
(* then a WebSocket with the session's id; the server keeps a row per      *)
(* session, knows the session that has a socket (the hub), and gives a     *)
(* lost daemon some time before it gives up the work of the host: here the *)
(* turns of one thread.  Connections break, requests are lost or handled   *)
(* late, the daemon and the server die.                                    *)
(*                                                                         *)
(* Sessions are numbered in the order in which they were opened, daemon    *)
(* instances and turns in the order in which they started.  Stops and      *)
(* deletions of threads, and the removal of hosts, are left out; so is the *)
(* shorter grace after which questions are interrupted (Interactions).     *)
(***************************************************************************)
EXTENDS ThreadLifecycle, Naturals, Sequences, FiniteSets

CONSTANTS
    Call,       \* live commands
    MaxTurns,   \* bound: turns of the thread
    MaxLosses,  \* bound: requests and connections that are lost
    MaxDeaths   \* bound: deaths of the daemon and of the server

ASSUME HostAssumption == {MaxTurns, MaxLosses, MaxDeaths} \subseteq Nat

VARIABLES
    owner,      \* host_daemon_sessions: the instance that has opened each
    active,     \* the sessions whose status is active
    registered, \* hub.daemonSessions
    current,    \* hub.daemonSessionIdsByHost, 0 if there is none
    timers,     \* hub.pendingDaemonActiveWorkDisconnects
    linked,     \* sockets whose close the server has not seen
    waits,      \* hub.hostOnlineRpcWaiters: the session a call waits for, 0 if none
    status,     \* threads.status
    recorded,   \* the first end of each turn that is in the log
    phase,      \* the daemon: "down", "closed", "asking", "opened", "connected"
    instance,   \* its instance
    session,    \* the session it was given last
    report,     \* the thread is among the activeThreads of its request
    ran,        \* what has become of each turn on the daemon
    unposted,   \* turns whose end is in the event sink
    strays,     \* requests given up that may still be handled
    hungUp,     \* sockets that the daemon will see closed
    dismissed,  \* sessions that were told to shut down
    losses, deaths, restarts

hubVars == <<active, registered, current, timers, waits>>
threadVars == <<status, recorded>>
serverVars == <<owner, hubVars, linked, threadVars>>
turnVars == <<ran, unposted>>
linkVars == <<strays, hungUp, dismissed>>
bounds == <<losses, deaths, restarts>>
vars == <<serverVars, phase, instance, session, report, turnVars, linkVars, bounds>>

Opened == 1 .. Len(owner)
Latest == Len(owner)
Turn == 1 .. Len(ran)
Running == \E n \in Turn : ran[n] = "runs"

Init ==
    /\ owner = <<>> /\ active = {} /\ registered = {} /\ current = 0 /\ timers = {} /\ linked = {}
    /\ waits = [c \in Call |-> 0]
    /\ status = "idle" /\ recorded = <<>>
    /\ phase = "closed" /\ instance = 1 /\ session = 0 /\ report = FALSE
    /\ ran = <<>> /\ unposted = {}
    /\ strays = {} /\ hungUp = {} /\ dismissed = {}
    /\ losses = 0 /\ deaths = 0 /\ restarts = 0

-----------------------------------------------------------------------------
(* What the server does with a session.                                    *)

\* Mutant: the calls are left to their time-outs.
UnregisterOnly(S) ==
    /\ registered' = registered \ S
    /\ current' = IF current \in S THEN 0 ELSE current
    /\ waits' = waits

\* unregisterDaemon: the calls that wait for the session are rejected.
Unregister(S) ==
    /\ registered' = registered \ S
    /\ current' = IF current \in registered \intersect S THEN 0 ELSE current
    /\ waits' = [c \in Call |-> IF waits[c] \in registered \intersect S THEN 0 ELSE waits[c]]

\* Mutant: an interruption is a stop.
InterruptedByStop(st) == IF st = "active" THEN After(st, "stop.requested") ELSE st

\* interruptActiveThreads: the open turn of an active thread ends as interrupted.
Interrupted(st) == IF st = "active" THEN After(st, "run.failed") ELSE st
Cut(st) == [n \in DOMAIN recorded |->
              IF st = "active" /\ recorded[n] = "open" THEN "interrupted" ELSE recorded[n]]

\* Mutant: a report revives nothing.
ReconciledQuietly(st, runs) == IF ~ runs THEN Interrupted(st) ELSE st

\* reconcileDaemonReportedThreads: a reported thread is active, another is not.
Reconciled(st, runs) ==
    IF runs THEN After(st, "run.started") ELSE Interrupted(st)

\* The session before still is active: its socket is closed, and another instance
\* is told to shut down, if its link still works (closeDaemonSession,
\* closeDaemonSessionSocket).
Replace(prev, same) ==
    LET closed == {prev} \intersect active \intersect registered IN
    /\ Unregister(closed)
    /\ hungUp' = hungUp \union closed
    /\ dismissed' = IF same THEN dismissed ELSE dismissed \union (closed \ hungUp)

\* POST /session/open: openSession and handleHostSessionOpened.
Open(i, runs) ==
    LET same == Latest # 0 /\ owner[Latest] = i
        st == IF Latest # 0 /\ ~ same THEN Interrupted(status) ELSE status
        cut == IF Latest # 0 /\ ~ same THEN Cut(status) ELSE recorded
    IN
    /\ owner' = Append(owner, i)
    /\ active' = {Latest + 1}
    /\ timers' = timers \ {Latest}
    /\ Replace(Latest, same)
    /\ status' = Reconciled(st, runs)
    /\ recorded' = IF runs THEN cut ELSE Cut(status)

-----------------------------------------------------------------------------
(* The daemon connects.                                                    *)

\* openSession on the daemon: it reports the threads that run as it asks.
Ask ==
    /\ phase = "closed"
    /\ phase' = "asking" /\ report' = Running
    /\ UNCHANGED <<serverVars, instance, session, turnVars, linkVars, bounds>>

OpenHandled ==
    /\ phase = "asking"
    /\ Open(instance, report)
    /\ phase' = "opened" /\ session' = Latest + 1
    /\ UNCHANGED <<linked, instance, report, turnVars, strays, bounds>>

\* The request or its answer is lost; the server may see the request yet.
OpenFails ==
    /\ phase = "asking" /\ losses < MaxLosses
    /\ losses' = losses + 1
    /\ phase' = "closed" /\ strays' = strays \union {<<instance, report>>}
    /\ UNCHANGED <<serverVars, instance, session, report, turnVars, hungUp, dismissed, deaths, restarts>>

StrayOpen ==
    \E q \in strays :
       /\ Open(q[1], q[2])
       /\ strays' = strays \ {q}
       /\ UNCHANGED <<linked, phase, instance, session, report, turnVars, bounds>>

\* Mutant: any session that was ever opened may connect.
MayConnectEver == TRUE

\* requireAuthorizedOpenSession
MayConnect == session \in active

\* validateDaemonWebSocket and registerDaemon, or the rejection of the socket.
Connect ==
    /\ phase = "opened"
    /\ IF MayConnect
       THEN /\ timers' = timers \ {session, current}
            /\ registered' = (registered \ {current}) \union {session}
            /\ current' = session
            /\ waits' = [c \in Call |-> IF waits[c] = current /\ current # session THEN 0 ELSE waits[c]]
            /\ linked' = linked \union {session}
            /\ phase' = "connected"
       ELSE phase' = "closed" /\ UNCHANGED <<timers, registered, current, waits, linked>>
    /\ UNCHANGED <<owner, active, threadVars, instance, session, report, turnVars, linkVars, bounds>>

ConnectFails ==
    /\ phase = "opened" /\ losses < MaxLosses
    /\ losses' = losses + 1 /\ phase' = "closed"
    /\ UNCHANGED <<serverVars, instance, session, report, turnVars, linkVars, deaths, restarts>>

-----------------------------------------------------------------------------
(* Connections end.                                                        *)

\* One end sees that the connection is gone before the other does.
LinkBreaks ==
    /\ phase = "connected" /\ losses < MaxLosses
    /\ losses' = losses + 1
    /\ \/ phase' = "closed" /\ hungUp' = hungUp
       \/ hungUp' = hungUp \union {session} /\ phase' = phase
    /\ UNCHANGED <<serverVars, instance, session, report, turnVars, strays, dismissed, deaths, restarts>>

Gone == [n \in Turn |-> IF ran[n] = "runs" THEN "died" ELSE ran[n]]

\* The daemon sees the close; told that it was replaced, it shuts down.
HangUp ==
    /\ phase = "connected" /\ session \in hungUp
    /\ IF session \in dismissed
       THEN phase' = "down" /\ ran' = Gone /\ unposted' = {}
       ELSE phase' = "closed" /\ UNCHANGED turnVars
    /\ UNCHANGED <<serverVars, instance, session, report, linkVars, bounds>>

\* Mutant: the close of any session starts the clock and ends the session of the host.
SocketClosedOfAny(s) ==
    /\ s \in linked /\ (s \in hungUp \/ phase # "connected" \/ s # session)
    /\ linked' = linked \ {s}
    /\ Unregister(registered)
    /\ active' = {}
    /\ timers' = timers \union {s}
    /\ UNCHANGED <<owner, threadVars, phase, instance, session, report, turnVars, linkVars, bounds>>

\* Mutant: the clock is started only for a session that still has its socket.
SocketClosedUntimed(s) ==
    /\ s \in linked /\ (s \in hungUp \/ phase # "connected" \/ s # session)
    /\ linked' = linked \ {s}
    /\ Unregister({s})
    /\ active' = active \ {s}
    /\ timers' = IF s \in registered' THEN timers \union {s} ELSE timers
    /\ UNCHANGED <<owner, threadVars, phase, instance, session, report, turnVars, linkVars, bounds>>

\* The server sees the close: handleDaemonSocketClosed.
SocketClosed(s) ==
    /\ s \in linked /\ (s \in hungUp \/ phase # "connected" \/ s # session)
    /\ linked' = linked \ {s}
    /\ Unregister({s})
    /\ active' = active \ {s}
    /\ timers' = IF s \in active THEN timers \union {s} ELSE timers
    /\ UNCHANGED <<owner, threadVars, phase, instance, session, report, turnVars, linkVars, bounds>>

\* The time for active work is over: completeDaemonActiveWorkDisconnectGrace.
WorkGraceEnds(s) ==
    /\ s \in timers
    /\ timers' = timers \ {s}
    /\ IF current \in registered THEN UNCHANGED threadVars
       ELSE status' = Interrupted(status) /\ recorded' = Cut(status)
    /\ UNCHANGED <<owner, active, registered, current, waits, linked,
                   phase, instance, session, report, turnVars, linkVars, bounds>>

DaemonDies ==
    /\ phase # "down" /\ deaths < MaxDeaths
    /\ deaths' = deaths + 1
    /\ phase' = "down" /\ ran' = Gone /\ unposted' = {}
    /\ strays' = IF phase = "asking" THEN strays \union {<<instance, report>>} ELSE strays
    /\ UNCHANGED <<serverVars, instance, session, report, hungUp, dismissed, losses, restarts>>

DaemonStarts ==
    /\ phase = "down"
    /\ phase' = "closed" /\ instance' = instance + 1
    /\ UNCHANGED <<serverVars, session, report, turnVars, linkVars, bounds>>

\* The server dies and starts again: the rows are what is left.
ServerDies ==
    /\ deaths < MaxDeaths
    /\ deaths' = deaths + 1 /\ restarts' = restarts + 1
    /\ registered' = {} /\ current' = 0 /\ timers' = {} /\ linked' = {}
    /\ waits' = [c \in Call |-> 0]
    /\ hungUp' = hungUp \union linked
    /\ strays' = {}
    /\ phase' = IF phase = "asking" THEN "closed" ELSE phase
    /\ UNCHANGED <<owner, active, threadVars, instance, session, report, turnVars, dismissed, losses>>

-----------------------------------------------------------------------------
(* The work of the host.                                                   *)

Online == phase = "connected" /\ session \in registered \ hungUp

\* requestHostOnlineRpc; the response comes from the session, or time is up
Request(c) ==
    /\ waits[c] = 0 /\ current \in registered
    /\ waits' = [waits EXCEPT ![c] = current]
    /\ UNCHANGED <<owner, active, registered, current, timers, linked, threadVars,
                   phase, instance, session, report, turnVars, linkVars, bounds>>

CallEnds(c) ==
    /\ waits[c] # 0
    /\ waits' = [waits EXCEPT ![c] = 0]
    /\ UNCHANGED <<owner, active, registered, current, timers, linked, threadVars,
                   phase, instance, session, report, turnVars, linkVars, bounds>>

\* A turn starts: the command is sent, run, and the thread active.  The end of the
\* turn before was posted; EventDelivery tells what a late end does.
StartTurn ==
    /\ Online /\ Len(ran) < MaxTurns /\ unposted = {}
    /\ status \in {"idle", "error"}
    /\ status' = After(status, "run.started")
    /\ recorded' = Append(recorded, "open")
    /\ ran' = Append(ran, "runs")
    /\ UNCHANGED <<owner, hubVars, linked, phase, instance, session, report, unposted, linkVars, bounds>>

FinishTurn(n) ==
    /\ phase # "down" /\ ran[n] = "runs"
    /\ ran' = [ran EXCEPT ![n] = "finished"]
    /\ unposted' = unposted \union {n}
    /\ UNCHANGED <<serverVars, phase, instance, session, report, linkVars, bounds>>

\* The end of the turn is posted and applied (applyTurnCompletedEvent).
PostEnd(n) ==
    /\ phase = "connected" /\ session \in active /\ n \in unposted
    /\ unposted' = unposted \ {n}
    /\ recorded' = [recorded EXCEPT ![n] = IF @ = "open" THEN "completed" ELSE @]
    /\ status' = After(status, "run.succeeded")
    /\ UNCHANGED <<owner, hubVars, linked, phase, instance, session, report, ran, linkVars, bounds>>

-----------------------------------------------------------------------------
Connecting == Ask \/ OpenHandled \/ OpenFails \/ StrayOpen \/ Connect \/ ConnectFails
Ending ==
    \/ LinkBreaks \/ HangUp
    \/ \E s \in Opened : SocketClosed(s) \/ WorkGraceEnds(s)
    \/ DaemonDies \/ DaemonStarts \/ ServerDies
Working ==
    \/ \E c \in Call : Request(c) \/ CallEnds(c)
    \/ StartTurn
    \/ \E n \in Turn : FinishTurn(n) \/ PostEnd(n)

Next == Connecting \/ Ending \/ Working

Spec == Init /\ [][Next]_vars

\* The daemon asks again for ever, the server answers, and a close gets through.
Fairness == WF_vars(Ask) /\ WF_vars(OpenHandled) /\ WF_vars(Connect) /\ WF_vars(HangUp)

FairSpec == Spec /\ Fairness

-----------------------------------------------------------------------------
(* Properties.                                                             *)

\* The states of the table, the hub's maps and the daemon; a daemon that has been
\* answered knows its session.
TypeOK ==
    /\ owner \in Seq(Nat) /\ active \subseteq Opened
    /\ registered \subseteq Opened /\ current \in Opened \union {0} /\ timers \subseteq Opened
    /\ linked \subseteq Opened /\ waits \in [Call -> Opened \union {0}]
    /\ status \in {"idle", "active", "error"}
    /\ recorded \in Seq({"open", "completed", "interrupted"}) /\ Len(recorded) = Len(ran)
    /\ phase \in {"down", "closed", "asking", "opened", "connected"}
    /\ instance \in Nat /\ session \in Opened \union {0} /\ report \in BOOLEAN
    /\ phase \in {"opened", "connected"} => session # 0
    /\ ran \in Seq({"runs", "finished", "died"}) /\ unposted \subseteq Turn
    /\ strays \subseteq Nat \X BOOLEAN
    /\ hungUp \subseteq Opened /\ dismissed \subseteq Opened
    /\ losses \in Nat /\ deaths \in Nat /\ restarts \in Nat

\* Whatever is lost, late or restarted, the socket that commands go to belongs to
\* the one open session of the host, the last one that was opened: no late close or
\* late request leaves the host with the socket of a session that is over
\* (openSession, registerDaemon, unregisterDaemon, handleDaemonSocketClosed).
OneOpenSession ==
    /\ active \subseteq {Latest}
    /\ registered \subseteq active \intersect linked
    /\ registered = IF current = 0 THEN {} ELSE {current}

\* A call waits only for a daemon that can answer it: when a session ends or is
\* replaced, its calls end with it and not with their time-outs
\* (rejectHostOnlineRpcWaitersForSession).
NoCallForgotten == \A c \in Call : waits[c] # 0 => waits[c] \in registered

\* When the daemon is connected and has posted what it had to tell, the server
\* takes the thread for active exactly if the daemon runs a turn of it, whatever
\* was interrupted and revived meanwhile (reconcileDaemonReportedThreads).
ServerAndDaemonAgree ==
    Online /\ unposted = {} => (status = "active" <=> Running)

\* A host that has gone is on the clock: while its thread is active and no session
\* open, the timer that will interrupt the thread is running.  A server that
\* starts again forgets its timers.
AwayIsTimed ==
    restarts = 0 /\ active = {} /\ status = "active" => Latest \in timers

\* The daemon gets back in touch: once nothing is lost any more it is connected
\* for good, unless it has gone or was told to go.
EventuallyOnline == <>[](phase = "down" \/ Online)

\* A turn that the daemon has finished and told the server about was not declared
\* interrupted before (features/execution-controls.md: "completion remains terminal").
FinishedIsCompleted ==
    \A n \in Turn : ran[n] = "finished" /\ n \notin unposted => recorded[n] = "completed"
=============================================================================
