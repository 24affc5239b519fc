---------------------------- MODULE Interactions ----------------------------
(***************************************************************************)
(* The questions of one thread.  A provider asks through the host daemon,  *)
(* which keeps an entry and registers the question with the server; a      *)
(* plugin asks the server itself and waits for a promise.  The server      *)
(* keeps a row per question, sends the user's answer to the daemon as a    *)
(* live command, and interrupts rows for many reasons.  Requests, their    *)
(* answers and commands may be lost or late, the provider may exit, the    *)
(* daemon and the server may die.                                          *)
(*                                                                         *)
(* Provider request ids are scoped per provider process, so each question  *)
(* is asked once and its row is known by it.                               *)
(***************************************************************************)
EXTENDS Naturals, FiniteSets

CONSTANTS
    Request,     \* the questions of providers
    Prompt,      \* the questions of plugins
    Answers,
    None,
    MaxExits,    \* bound: exits of the provider process
    MaxDeaths    \* bound: deaths of the daemon and of the server

ASSUME InteractionsAssumption ==
    /\ Request \intersect Prompt = {}
    /\ None \notin Answers \union {"exit", "failure"}
    /\ {"unasked", "open", "refused", "none", "delivered", "stale"} \intersect Answers = {}
    /\ MaxExits \in Nat /\ MaxDeaths \in Nat

VARIABLES
    row,        \* pending_interactions.status
    answer,     \* pending_interactions.resolution
    command,    \* interactive.resolve: "none", the answer it carries, or its reply
    awaited,    \* questions whose command the server still waits for
    waiter,     \* pluginWaiters, and what the plugin was told
    told,       \* what the provider was told; "open" while pendingEntries has it
    registering,\* questions whose registration is being tried
    stray,      \* attempts that have failed and may still arrive
    interrupts, \* pendingInteractiveInterrupts: the reasons
    posted,     \* the reason the server has handled and not yet answered
    exitEvent,  \* provider_process_exited is in the event sink
    daemonUp, exits, deaths

serverVars == <<row, answer, command, awaited, waiter>>
daemonVars == <<told, registering, stray, interrupts, posted, exitEvent>>
bounds == <<daemonUp, exits, deaths>>
vars == <<serverVars, daemonVars, bounds>>

Question == Request \union Prompt
Active(i) == row[i] \in {"pending", "resolving"}
Reasons == {"exit", "failure"}

Init ==
    /\ row = [i \in Question |-> "none"]
    /\ answer = [r \in Request |-> None]
    /\ command = [r \in Request |-> "none"]
    /\ awaited = {}
    /\ waiter = [p \in Prompt |-> "none"]
    /\ told = [r \in Request |-> "unasked"]
    /\ registering = {} /\ stray = {} /\ interrupts = {} /\ posted = None /\ exitEvent = FALSE
    /\ daemonUp = TRUE /\ exits = 0 /\ deaths = 0

-----------------------------------------------------------------------------
(* A provider asks: registerAndWait, and the attempts to register.         *)

Ask(r) ==
    /\ daemonUp /\ told[r] = "unasked"
    /\ told' = [told EXCEPT ![r] = "open"]
    /\ registering' = registering \union {r}
    /\ UNCHANGED <<serverVars, stray, interrupts, posted, exitEvent, bounds>>

Refuse(r) == IF told[r] = "open" THEN [told EXCEPT ![r] = "refused"] ELSE told

\* Mutant: only questions of providers are looked at.
FreeOfRequests == \A i \in Request : ~ Active(i)

\* getActivePendingInteractionForThread
ThreadFree == \A i \in Question : ~ Active(i)

Creates(r) == row[r] = "none" /\ ThreadFree

\* registerPendingInteraction: a new row, the row there is, or a rejection.
Register(r) ==
    /\ row' = IF Creates(r) THEN [row EXCEPT ![r] = "pending"] ELSE row
    /\ UNCHANGED <<answer, command, awaited, waiter>>

\* An attempt reaches the server; pRetry makes another one if the answer is lost.
Attempt(r) ==
    /\ daemonUp /\ r \in registering
    /\ Register(r)
    /\ \/ UNCHANGED <<told, registering>>
       \/ /\ registering' = registering \ {r}
          /\ told' = IF Creates(r) \/ Active(r) THEN told ELSE Refuse(r)
    /\ UNCHANGED <<stray, interrupts, posted, exitEvent, bounds>>

\* An attempt fails on its way: the request may still arrive.
AttemptFails(r) ==
    /\ daemonUp /\ r \in registering \ stray
    /\ stray' = stray \union {r}
    /\ UNCHANGED <<serverVars, told, registering, interrupts, posted, exitEvent, bounds>>

RegisterStray(r) ==
    /\ r \in stray
    /\ Register(r)
    /\ stray' = stray \ {r}
    /\ UNCHANGED <<told, registering, interrupts, posted, exitEvent, bounds>>

\* The last attempt has failed: the provider is refused, and the server is to
\* interrupt whatever an attempt may have created (onRegistrationFailure).
RegistrationFails(r) ==
    /\ daemonUp /\ r \in registering
    /\ registering' = registering \ {r}
    /\ told' = Refuse(r)
    /\ interrupts' = interrupts \union {"failure"}
    /\ UNCHANGED <<serverVars, stray, posted, exitEvent, bounds>>

-----------------------------------------------------------------------------
(* The user answers: resolvePendingInteraction and its live command.       *)

Resolve(r, a) ==
    /\ row[r] = "pending"
    /\ row' = [row EXCEPT ![r] = "resolving"]
    /\ answer' = [answer EXCEPT ![r] = a]
    /\ command' = [command EXCEPT ![r] = a]
    /\ awaited' = awaited \union {r}
    /\ UNCHANGED <<waiter, daemonVars, bounds>>

\* The daemon handles the command: InteractiveRequestRegistry.resolve.
Deliver(r) ==
    /\ daemonUp /\ command[r] \in Answers
    /\ IF told[r] = "open"
       THEN /\ told' = [told EXCEPT ![r] = command[r]]
            /\ command' = [command EXCEPT ![r] = "delivered"]
       ELSE /\ command' = [command EXCEPT ![r] = "stale"]
            /\ told' = told
    /\ UNCHANGED <<row, answer, awaited, waiter, registering, stray, interrupts, posted, exitEvent, bounds>>

\* setPendingInteractionResolved, setPendingInteractionInterrupted
Resolved(r) == row' = IF Active(r) THEN [row EXCEPT ![r] = "resolved"] ELSE row
Interrupted(r) ==
    /\ row' = IF Active(r) THEN [row EXCEPT ![r] = "interrupted"] ELSE row
    /\ answer' = IF Active(r) THEN [answer EXCEPT ![r] = None] ELSE answer

\* Mutant: a reply is taken for a success.
SettleAnyReply(r) ==
    /\ r \in awaited /\ command[r] \in {"delivered", "stale"}
    /\ Resolved(r) /\ answer' = answer
    /\ awaited' = awaited \ {r}
    /\ UNCHANGED <<command, waiter, daemonVars, bounds>>

\* settleInteractiveResolveCommandResultInTransaction, with the reply
Settle(r) ==
    /\ r \in awaited /\ command[r] \in {"delivered", "stale"}
    /\ IF command[r] = "delivered" THEN Resolved(r) /\ answer' = answer ELSE Interrupted(r)
    /\ awaited' = awaited \ {r}
    /\ UNCHANGED <<command, waiter, daemonVars, bounds>>

\* Mutant: a command without a reply counts as done.
CommandFailsSilently(r) ==
    /\ r \in awaited
    /\ Resolved(r) /\ answer' = answer
    /\ awaited' = awaited \ {r}
    /\ UNCHANGED <<command, waiter, daemonVars, bounds>>

\* ... without one: the socket has closed, the host is not there, or time is up.
\* The command may still reach the daemon.
CommandFails(r) ==
    /\ r \in awaited
    /\ Interrupted(r)
    /\ awaited' = awaited \ {r}
    /\ UNCHANGED <<command, waiter, daemonVars, bounds>>

-----------------------------------------------------------------------------
(* Interruptions.                                                          *)

\* Mutant: the rows are interrupted and their waiters forgotten.
CancelledNone(S) == waiter' = waiter

\* settleInterruptedPluginWaiter, for each of the rows that were interrupted
Cancelled(S) ==
    waiter' = [p \in Prompt |-> IF p \in S /\ waiter[p] = "waits" THEN "cancelled" ELSE waiter[p]]

\* interruptPendingInteractionsForThreadIds, ...ForThreads, ...ForPlugin: whatever
\* is active is interrupted and keeps the resolution it has.
InterruptRows(S) ==
    LET hit == {i \in S : Active(i)} IN
    /\ row' = [i \in Question |-> IF i \in hit THEN "interrupted" ELSE row[i]]
    /\ Cancelled(hit)
    /\ UNCHANGED <<answer, command, awaited>>

\* The thread is stopped, its host lost or away for too long (finalizeStoppedThread,
\* interruptActiveThreads, completeDaemonDisconnectGrace, handleHostRemoved).
InterruptThread ==
    /\ ~ ThreadFree
    /\ InterruptRows(Question)
    /\ UNCHANGED <<daemonVars, bounds>>

\* A plugin is disposed of.
InterruptPlugin ==
    /\ \E p \in Prompt : Active(p)
    /\ InterruptRows(Prompt)
    /\ UNCHANGED <<daemonVars, bounds>>

\* The provider process exits, whether or not it has asked anything: onProcessExit.
\* Its questions are rejected; registrations that are being retried go on.
ProviderExits ==
    /\ daemonUp /\ exits < MaxExits
    /\ exits' = exits + 1
    /\ told' = [r \in Request |-> IF told[r] = "open" THEN "refused" ELSE told[r]]
    /\ interrupts' = interrupts \union {"exit"}
    /\ exitEvent' = TRUE
    /\ UNCHANGED <<serverVars, registering, stray, posted, daemonUp, deaths>>

\* applyEventEffects, provider_process_exited
HandleExitEvent ==
    /\ exitEvent
    /\ exitEvent' = FALSE
    /\ InterruptRows(Question)
    /\ UNCHANGED <<told, registering, stray, interrupts, posted, bounds>>

\* flushPendingInteractiveInterrupts: a reason is posted and the server handles it.
HandleInterrupt(k) ==
    /\ daemonUp /\ posted = None /\ k \in interrupts
    /\ posted' = k
    /\ InterruptRows(Request)
    /\ UNCHANGED <<told, registering, stray, interrupts, exitEvent, bounds>>

\* The answer: a reason that was queued again meanwhile goes with the posted one.
InterruptPosted ==
    /\ posted # None
    /\ interrupts' = interrupts \ {posted}
    /\ posted' = None
    /\ UNCHANGED <<serverVars, told, registering, stray, exitEvent, bounds>>

\* No answer: it is posted again.
InterruptFails ==
    /\ posted # None
    /\ posted' = None
    /\ UNCHANGED <<serverVars, told, registering, stray, interrupts, exitEvent, bounds>>

-----------------------------------------------------------------------------
(* The questions of plugins.                                               *)

\* requestPluginInteraction; its setup may fail after the row is there.
RequestPlugin(p) ==
    /\ row[p] = "none" /\ ThreadFree
    /\ \/ /\ row' = [row EXCEPT ![p] = "pending"]
          /\ waiter' = [waiter EXCEPT ![p] = "waits"]
       \/ /\ row' = [row EXCEPT ![p] = "interrupted"]
          /\ waiter' = [waiter EXCEPT ![p] = "cancelled"]
    /\ UNCHANGED <<answer, command, awaited, daemonVars, bounds>>

\* Mutant: a row in any state is answered.
RespondAnyway(p) ==
    /\ row[p] # "none"
    /\ row' = [row EXCEPT ![p] = "resolved"]
    /\ waiter' = [waiter EXCEPT ![p] = IF @ = "waits" THEN "submitted" ELSE @]
    /\ UNCHANGED <<answer, command, awaited, daemonVars, bounds>>

\* respondToPluginInteraction
Respond(p) ==
    /\ row[p] = "pending"
    /\ row' = [row EXCEPT ![p] = "resolved"]
    /\ waiter' = [waiter EXCEPT ![p] = IF @ = "waits" THEN "submitted" ELSE @]
    /\ UNCHANGED <<answer, command, awaited, daemonVars, bounds>>

\* cancelPluginInteraction: by the user, by an abort or by the timer
Cancel(p) ==
    /\ Active(p)
    /\ row' = [row EXCEPT ![p] = "interrupted"]
    /\ Cancelled({p})
    /\ UNCHANGED <<answer, command, awaited, daemonVars, bounds>>

-----------------------------------------------------------------------------
(* Deaths.                                                                 *)

\* The server dies and starts again: its promises are lost, and start() interrupts
\* the questions of plugins.  What was on its way to it fails.
ServerDies ==
    /\ deaths < MaxDeaths
    /\ deaths' = deaths + 1
    /\ row' = [i \in Question |-> IF i \in Prompt /\ Active(i) THEN "interrupted" ELSE row[i]]
    /\ waiter' = [p \in Prompt |-> IF waiter[p] = "waits" THEN "lost" ELSE waiter[p]]
    /\ awaited' = {}
    /\ stray' = {}
    /\ posted' = None
    /\ UNCHANGED <<answer, command, told, registering, interrupts, exitEvent, daemonUp, exits>>

\* The daemon dies, and the providers with it.
DaemonDies ==
    /\ daemonUp /\ deaths < MaxDeaths
    /\ daemonUp' = FALSE /\ deaths' = deaths + 1
    /\ told' = [r \in Request |-> IF told[r] = "open" THEN "refused" ELSE told[r]]
    /\ registering' = {} /\ interrupts' = {} /\ posted' = None /\ exitEvent' = FALSE
    /\ UNCHANGED <<serverVars, stray, exits>>

\* A new instance opens its session: what the old one has posted is refused from
\* now on, and handleHostSessionOpened interrupts what the old one has asked.
DaemonStarts ==
    /\ ~ daemonUp /\ daemonUp' = TRUE
    /\ stray' = {}
    /\ InterruptRows(Question)
    /\ UNCHANGED <<told, registering, interrupts, posted, exitEvent, exits, deaths>>

-----------------------------------------------------------------------------
RequestStep(r) ==
    \/ Ask(r) \/ Attempt(r) \/ AttemptFails(r) \/ RegisterStray(r) \/ RegistrationFails(r)
    \/ \E a \in Answers : Resolve(r, a)
    \/ Deliver(r) \/ Settle(r) \/ CommandFails(r)

InterruptStep ==
    \/ InterruptThread \/ InterruptPlugin \/ ProviderExits \/ HandleExitEvent
    \/ \E k \in Reasons : HandleInterrupt(k)
    \/ InterruptPosted \/ InterruptFails

PromptStep(p) == RequestPlugin(p) \/ Respond(p) \/ Cancel(p)

Next ==
    \/ \E r \in Request : RequestStep(r)
    \/ \E p \in Prompt : PromptStep(p)
    \/ InterruptStep
    \/ ServerDies \/ DaemonDies \/ DaemonStarts

Spec == Init /\ [][Next]_vars
-----------------------------------------------------------------------------
(* Properties.                                                             *)

\* The states of the tables, maps and sets; a row is only there for a question that
\* was asked, and only resolved once the daemon has delivered its answer.
TypeOK ==
    /\ row \in [Question -> {"none", "pending", "resolving", "resolved", "interrupted"}]
    /\ answer \in [Request -> Answers \union {None}]
    /\ command \in [Request -> Answers \union {"none", "delivered", "stale"}]
    /\ awaited \in SUBSET Request /\ stray \in SUBSET Request
    /\ waiter \in [Prompt -> {"none", "waits", "submitted", "cancelled", "lost"}]
    /\ told \in [Request -> Answers \union {"unasked", "open", "refused"}]
    /\ registering \in SUBSET Request
    /\ interrupts \in SUBSET Reasons
    /\ posted \in interrupts \union {None}
    /\ exitEvent \in BOOLEAN /\ daemonUp \in BOOLEAN /\ exits \in Nat /\ deaths \in Nat
    /\ \A r \in Request : row[r] # "none" => told[r] # "unasked"
    /\ \A r \in Request : row[r] = "resolved" => command[r] = "delivered"

\* A thread asks one thing at a time, whether a provider or a plugin asks and
\* whichever of their requests arrives first (registerPendingInteraction,
\* requestPluginInteraction).
OneQuestion == \A i, j \in Question : Active(i) /\ Active(j) => i = j

\* A question is recorded as resolved only if the provider was told exactly the
\* recorded answer, and the provider is told nothing but the answer that the row
\* recorded when it was accepted (resolvePendingInteraction, the reply of
\* interactive.resolve).
ToldAsRecorded ==
    \A r \in Request :
       /\ row[r] = "resolved" => told[r] = answer[r]
       /\ told[r] \in Answers => row[r] \in {"resolving", "resolved", "interrupted"}
                                 /\ answer[r] \in {told[r], None}

\* A plugin waits exactly as long as its row is active, and what it is told agrees
\* with the row: by whatever way the row ends, the promise ends with it (the
\* settling of pluginWaiters).
PluginToldAsRecorded ==
    \A p \in Prompt :
       /\ waiter[p] = "waits" <=> Active(p)
       /\ waiter[p] = "submitted" <=> row[p] = "resolved"
       /\ waiter[p] \in {"cancelled", "lost"} <=> row[p] = "interrupted"

\* What ends a question cannot come too late: a resolved or interrupted question
\* keeps its state and its answer (the allowedCurrentStatuses of every update).
Ended(i) == row[i] \in {"resolved", "interrupted"}
NothingReopens ==
    [][/\ \A i \in Question : Ended(i) => row'[i] = row[i]
       /\ \A r \in Request : Ended(r) => answer'[r] = answer[r]]_vars
=============================================================================
