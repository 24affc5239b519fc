------------------------- MODULE InteractionsProofs -------------------------
(***************************************************************************)
(* What Interactions guarantees for every number of questions, exits and   *)
(* deaths: one question at a time, and both who asked and the table are    *)
(* told the same.                                                          *)
(*                                                                         *)
(* That a resolved row holds what the provider was told is not inductive:  *)
(* the row is resolved by a reply, long after the provider was told and    *)
(* perhaps after the row was interrupted.  The invariant adds what the     *)
(* state of the command says of the row, the answer and the provider.      *)
(***************************************************************************)
EXTENDS Interactions, TLAPS

\* What is being registered, or still may be, was asked.
Asked == \A r \in registering \union stray : told[r] # "unasked"

\* A question's command is there once its answer was accepted, and the provider
\* was told an answer iff its reply says so.
CommandTold(r) ==
    /\ row[r] \in {"none", "pending"} => command[r] = "none" /\ answer[r] = None
    /\ row[r] = "resolving" => command[r] # "none" /\ answer[r] \in Answers
    /\ row[r] = "resolved" => answer[r] \in Answers
    /\ command[r] \in Answers => answer[r] \in {command[r], None}
    /\ told[r] \in Answers <=> command[r] = "delivered"
    /\ told[r] \in Answers => answer[r] \in {told[r], None}

CommandsTold == \A r \in Request : CommandTold(r)

\* Words of the model are not answers.
LEMMA WordsAreNotAnswers ==
    /\ None \notin Answers
    /\ \A w \in {"unasked", "open", "refused", "none", "delivered", "stale"} : w \notin Answers
    /\ Request \intersect Prompt = {} /\ None \notin Reasons
BY InteractionsAssumption DEF Reasons

-----------------------------------------------------------------------------
(* Types.                                                                  *)

RowType == row \in [Question -> {"none", "pending", "resolving", "resolved", "interrupted"}]

\* Refusing a question keeps what was asked asked.
LEMMA RefuseType ==
    ASSUME TypeOK, NEW r \in Request
    PROVE  /\ Refuse(r) \in [Request -> Answers \union {"unasked", "open", "refused"}]
           /\ \A q \in Request : Refuse(r)[q] = "unasked" <=> told[q] = "unasked"
           /\ \A q \in Request : Refuse(r)[q] \in Answers => Refuse(r)[q] = told[q]
           /\ \A q \in Request : told[q] \in Answers => Refuse(r)[q] = told[q]
BY WordsAreNotAnswers DEF TypeOK, Refuse

\* An attempt gives the row of its question a first state, if any.
LEMMA RegisterRow ==
    ASSUME TypeOK, NEW r \in Request, Register(r)
    PROVE  /\ RowType'
           /\ \A i \in Question : i # r => row'[i] = row[i]
           /\ row'[r] = row[r] \/ (row[r] = "none" /\ row'[r] = "pending" /\ ThreadFree)
BY DEF TypeOK, RowType, Register, Creates, Question

\* An interruption ends what is active and nothing else.
LEMMA InterruptRowsRow ==
    ASSUME TypeOK, NEW S, S \subseteq Question, InterruptRows(S)
    PROVE  /\ RowType'
           /\ \A i \in Question : row'[i] = row[i] \/ (Active(i) /\ row'[i] = "interrupted")
           /\ waiter' \in [Prompt -> {"none", "waits", "submitted", "cancelled", "lost"}]
           /\ \A p \in Prompt : \/ row'[p] = row[p] /\ waiter'[p] = waiter[p]
                                \/ /\ Active(p) /\ row'[p] = "interrupted"
                                   /\ waiter'[p] = IF waiter[p] = "waits" THEN "cancelled" ELSE waiter[p]
           /\ UNCHANGED <<answer, command, awaited>>
<1>1. RowType' /\ \A i \in Question : row'[i] = row[i] \/ (Active(i) /\ row'[i] = "interrupted")
  BY DEF TypeOK, RowType, InterruptRows, Active
<1>2. waiter' \in [Prompt -> {"none", "waits", "submitted", "cancelled", "lost"}]
  BY DEF TypeOK, InterruptRows, Cancelled
<1>3. ASSUME NEW p \in Prompt
      PROVE  \/ row'[p] = row[p] /\ waiter'[p] = waiter[p]
             \/ /\ Active(p) /\ row'[p] = "interrupted"
                /\ waiter'[p] = IF waiter[p] = "waits" THEN "cancelled" ELSE waiter[p]
  BY DEF TypeOK, InterruptRows, Cancelled, Active, Question
<1> QED  BY <1>1, <1>2, <1>3 DEF InterruptRows

\* The steps of one question keep the types.
LEMMA RequestStepTypes ==
    ASSUME TypeOK, Asked, NEW r \in Request, RequestStep(r)
    PROVE  TypeOK' /\ Asked'
<1> USE WordsAreNotAnswers
<1>1. CASE Ask(r)
  BY <1>1 DEF Ask, TypeOK, Asked, serverVars, bounds
<1>2. CASE Attempt(r)
  <2>1. Register(r) /\ r \in registering /\ UNCHANGED <<stray, interrupts, posted, exitEvent, bounds>>
    BY <1>2 DEF Attempt
  <2>2. RowType' /\ \A i \in Question : i # r => row'[i] = row[i]
    BY <2>1, RegisterRow
  <2>3. row'[r] = row[r] \/ (row[r] = "none" /\ row'[r] = "pending")
    BY <2>1, RegisterRow
  <2>4. registering' \subseteq registering /\ (told' = told \/ told' = Refuse(r))
    BY <1>2 DEF Attempt
  <2>5. /\ told' \in [Request -> Answers \union {"unasked", "open", "refused"}]
        /\ \A q \in Request : told'[q] = "unasked" <=> told[q] = "unasked"
    BY <2>4, RefuseType DEF TypeOK
  <2>6. UNCHANGED <<answer, command, awaited, waiter>>
    BY <2>1 DEF Register
  <2> QED  BY <2>1, <2>2, <2>3, <2>4, <2>5, <2>6 DEF TypeOK, Asked, RowType, Question, bounds
<1>3. CASE AttemptFails(r)
  BY <1>3 DEF AttemptFails, TypeOK, Asked, serverVars, bounds
<1>4. CASE RegisterStray(r)
  <2>1. /\ Register(r) /\ r \in stray /\ stray' = stray \ {r}
        /\ UNCHANGED <<told, registering, interrupts, posted, exitEvent, bounds>>
    BY <1>4 DEF RegisterStray
  <2>2. RowType' /\ \A i \in Question : i # r => row'[i] = row[i]
    BY <2>1, RegisterRow
  <2>3. row'[r] = row[r] \/ (row[r] = "none" /\ row'[r] = "pending")
    BY <2>1, RegisterRow
  <2>6. UNCHANGED <<answer, command, awaited, waiter>>
    BY <2>1 DEF Register
  <2> QED  BY <2>1, <2>2, <2>3, <2>6 DEF TypeOK, Asked, RowType, Question, bounds
<1>5. CASE RegistrationFails(r)
  <2>1. /\ registering' \subseteq registering /\ told' = Refuse(r)
        /\ interrupts' \in SUBSET Reasons /\ interrupts \subseteq interrupts'
        /\ UNCHANGED <<serverVars, stray, posted, exitEvent, bounds>>
    BY <1>5 DEF RegistrationFails, TypeOK, Reasons
  <2>2. /\ told' \in [Request -> Answers \union {"unasked", "open", "refused"}]
        /\ \A q \in Request : told'[q] = "unasked" <=> told[q] = "unasked"
    BY <2>1, RefuseType
  <2> QED  BY <2>1, <2>2 DEF TypeOK, Asked, serverVars, bounds
<1>6. ASSUME NEW a \in Answers, Resolve(r, a) PROVE TypeOK' /\ Asked'
  <2>1. row' \in [Question -> {"none", "pending", "resolving", "resolved", "interrupted"}]
    BY <1>6 DEF Resolve, TypeOK
  <2>2. \A q \in Request : q # r => row'[q] = row[q] /\ command'[q] = command[q]
    BY <1>6 DEF Resolve, TypeOK, Question
  <2>3. row[r] = "pending" /\ row'[r] = "resolving"
    BY <1>6 DEF Resolve, TypeOK, Question
  <2>4. /\ answer' \in [Request -> Answers \union {None}]
        /\ command' \in [Request -> Answers \union {"none", "delivered", "stale"}]
        /\ awaited' \in SUBSET Request
    BY <1>6 DEF Resolve, TypeOK
  <2> QED  BY <1>6, <2>1, <2>2, <2>3, <2>4 DEF Resolve, TypeOK, Asked, daemonVars, bounds
<1>7. CASE Deliver(r)
  <2>1. /\ UNCHANGED <<row, answer, awaited, waiter, registering, stray, interrupts, posted, exitEvent, bounds>>
        /\ command[r] \in Answers
    BY <1>7 DEF Deliver
  <2>2. told' \in [Request -> Answers \union {"unasked", "open", "refused"}]
    BY <1>7, <2>1 DEF Deliver, TypeOK
  <2>3. command' \in [Request -> Answers \union {"none", "delivered", "stale"}]
    BY <1>7 DEF Deliver, TypeOK
  <2>4. \A q \in Request : told[q] # "unasked" => told'[q] # "unasked"
    BY <1>7, <2>1 DEF Deliver, TypeOK
  <2>5. \A q \in Request : command[q] = "delivered" => command'[q] = "delivered"
    BY <1>7, <2>1 DEF Deliver, TypeOK
  <2> QED  BY <2>1, <2>2, <2>3, <2>4, <2>5 DEF TypeOK, Asked, bounds
<1>8. CASE Settle(r)
  <2>1. /\ UNCHANGED <<command, waiter, daemonVars, bounds>>
        /\ awaited' \subseteq awaited
        /\ answer' \in [Request -> Answers \union {None}]
    BY <1>8 DEF Settle, Interrupted, TypeOK
  <2>2. /\ RowType' /\ \A i \in Question : i # r => row'[i] = row[i]
        /\ row'[r] = row[r] \/ (row[r] # "none" /\ row'[r] \in {"resolved", "interrupted"})
        /\ row'[r] = "resolved" => row[r] = "resolved" \/ command[r] = "delivered"
    BY <1>8 DEF Settle, Resolved, Interrupted, Active, TypeOK, RowType, Question
  <2> QED  BY <2>1, <2>2 DEF TypeOK, Asked, RowType, Question, daemonVars, bounds
<1>9. CASE CommandFails(r)
  <2>1. /\ UNCHANGED <<command, waiter, daemonVars, bounds>>
        /\ awaited' \subseteq awaited
        /\ answer' \in [Request -> Answers \union {None}]
    BY <1>9 DEF CommandFails, Interrupted, TypeOK
  <2>2. /\ RowType' /\ \A i \in Question : i # r => row'[i] = row[i]
        /\ row'[r] = row[r] \/ (row[r] # "none" /\ row'[r] = "interrupted")
    BY <1>9 DEF CommandFails, Interrupted, Active, TypeOK, RowType, Question
  <2> QED  BY <2>1, <2>2 DEF TypeOK, Asked, RowType, Question, daemonVars, bounds
<1> QED  BY <1>1, <1>2, <1>3, <1>4, <1>5, <1>6, <1>7, <1>8, <1>9 DEF RequestStep

\* An interruption of some rows and a change of the daemon's state that keeps what
\* was asked keep the types.
LEMMA InterruptionTypes ==
    ASSUME TypeOK, Asked, NEW S, S \subseteq Question, InterruptRows(S),
           told' \in [Request -> Answers \union {"unasked", "open", "refused"}],
           \A q \in Request : told'[q] = "unasked" <=> told[q] = "unasked",
           registering' \subseteq registering, stray' \subseteq stray,
           interrupts' \in SUBSET Reasons, posted' \in interrupts' \union {None},
           exitEvent' \in BOOLEAN, daemonUp' \in BOOLEAN, exits' \in Nat, deaths' \in Nat
    PROVE  TypeOK' /\ Asked'
<1>1. /\ RowType' /\ UNCHANGED <<answer, command, awaited>>
      /\ waiter' \in [Prompt -> {"none", "waits", "submitted", "cancelled", "lost"}]
      /\ \A i \in Question : row'[i] = row[i] \/ (Active(i) /\ row'[i] = "interrupted")
  BY InterruptRowsRow
<1>2. \A r \in Request : row'[r] # "none" => row[r] # "none"
  BY <1>1 DEF Active, Question
<1>3. \A r \in Request : row'[r] = "resolved" => row[r] = "resolved"
  BY <1>1 DEF Question
<1> QED  BY <1>1, <1>2, <1>3 DEF TypeOK, Asked, RowType

\* Every other step keeps them too.
LEMMA InterruptStepTypes ==
    ASSUME TypeOK, Asked, InterruptStep
    PROVE  TypeOK' /\ Asked'
<1> USE WordsAreNotAnswers
<1>0. Request \subseteq Question /\ Prompt \subseteq Question
  BY DEF Question
<1>1. CASE InterruptThread
  <2>1. InterruptRows(Question) /\ UNCHANGED <<daemonVars, bounds>>
    BY <1>1 DEF InterruptThread
  <2> QED  BY <2>1, InterruptionTypes DEF TypeOK, daemonVars, bounds
<1>2. CASE InterruptPlugin
  <2>1. InterruptRows(Prompt) /\ UNCHANGED <<daemonVars, bounds>>
    BY <1>2 DEF InterruptPlugin
  <2> QED  BY <1>0, <2>1, InterruptionTypes DEF TypeOK, daemonVars, bounds
<1>3. CASE ProviderExits
  <2>1. /\ told' \in [Request -> Answers \union {"unasked", "open", "refused"}]
        /\ \A q \in Request : told'[q] = "unasked" <=> told[q] = "unasked"
    BY <1>3 DEF ProviderExits, TypeOK
  <2>2. interrupts' \in SUBSET Reasons /\ interrupts \subseteq interrupts'
    BY <1>3 DEF ProviderExits, TypeOK, Reasons
  <2> QED  BY <1>3, <2>1, <2>2 DEF ProviderExits, TypeOK, Asked, serverVars
<1>4. CASE HandleExitEvent
  <2>1. /\ InterruptRows(Question) /\ exitEvent' = FALSE
        /\ UNCHANGED <<told, registering, interrupts, stray, posted, bounds>>
    BY <1>4 DEF HandleExitEvent
  <2> QED  BY <2>1, InterruptionTypes DEF TypeOK, bounds
<1>5. ASSUME NEW k \in Reasons, HandleInterrupt(k) PROVE TypeOK' /\ Asked'
  <2>1. /\ InterruptRows(Request) /\ posted' = k /\ k \in interrupts
        /\ UNCHANGED <<told, registering, interrupts, stray, exitEvent, bounds>>
    BY <1>5 DEF HandleInterrupt
  <2> QED  BY <1>0, <2>1, InterruptionTypes DEF TypeOK, bounds
<1>6. CASE InterruptPosted
  BY <1>6 DEF InterruptPosted, TypeOK, Asked, serverVars, bounds
<1>7. CASE InterruptFails
  BY <1>7 DEF InterruptFails, TypeOK, Asked, serverVars, bounds
<1> QED  BY <1>1, <1>2, <1>3, <1>4, <1>5, <1>6, <1>7 DEF InterruptStep

LEMMA PromptStepTypes ==
    ASSUME TypeOK, Asked, NEW p \in Prompt, PromptStep(p)
    PROVE  TypeOK' /\ Asked'
<1>1. UNCHANGED <<answer, command, awaited, daemonVars, bounds>>
  BY DEF PromptStep, RequestPlugin, Respond, Cancel
<1>2. RowType' /\ \A r \in Request : row'[r] = row[r]
  BY WordsAreNotAnswers DEF PromptStep, RequestPlugin, Respond, Cancel, TypeOK, RowType, Question
<1>3. waiter' \in [Prompt -> {"none", "waits", "submitted", "cancelled", "lost"}]
  BY DEF PromptStep, RequestPlugin, Respond, Cancel, Cancelled, TypeOK
<1> QED  BY <1>1, <1>2, <1>3 DEF TypeOK, Asked, RowType, daemonVars, bounds

LEMMA DeathTypes ==
    ASSUME TypeOK, Asked, ServerDies \/ DaemonDies \/ DaemonStarts
    PROVE  TypeOK' /\ Asked'
<1> USE WordsAreNotAnswers
<1>1. CASE ServerDies
  <2>1. /\ deaths' \in Nat /\ awaited' = {} /\ stray' = {} /\ posted' = None
        /\ UNCHANGED <<answer, command, told, registering, interrupts, exitEvent, daemonUp, exits>>
    BY <1>1 DEF ServerDies, TypeOK
  <2>2. RowType' /\ \A r \in Request : row'[r] = row[r]
    BY <1>1 DEF ServerDies, TypeOK, RowType, Question
  <2>3. waiter' \in [Prompt -> {"none", "waits", "submitted", "cancelled", "lost"}]
    BY <1>1 DEF ServerDies, TypeOK
  <2> QED  BY <2>1, <2>2, <2>3 DEF TypeOK, Asked, RowType
<1>2. CASE DaemonDies
  <2>1. /\ told' \in [Request -> Answers \union {"unasked", "open", "refused"}]
        /\ \A q \in Request : told'[q] = "unasked" <=> told[q] = "unasked"
    BY <1>2 DEF DaemonDies, TypeOK
  <2>2. daemonUp' \in BOOLEAN /\ exitEvent' \in BOOLEAN
    BY <1>2, Zenon DEF DaemonDies
  <2>3. /\ deaths' \in Nat
        /\ registering' = {} /\ interrupts' = {} /\ posted' = None /\ exitEvent' = FALSE
        /\ UNCHANGED <<serverVars, stray, exits>>
    BY <1>2 DEF DaemonDies, TypeOK
  <2> QED  BY <2>1, <2>2, <2>3 DEF TypeOK, Asked, serverVars
<1>3. CASE DaemonStarts
  <2>1. /\ InterruptRows(Question) /\ daemonUp' = TRUE /\ stray' = {}
        /\ UNCHANGED <<told, registering, interrupts, posted, exitEvent, exits, deaths>>
    BY <1>3 DEF DaemonStarts
  <2> QED  BY <2>1, InterruptionTypes DEF TypeOK
<1> QED  BY <1>1, <1>2, <1>3

\* The states of the model are states of the program's tables, maps and sets.
THEOREM InteractionsTypeCorrect == Spec => []TypeOK
<1> DEFINE IInv == TypeOK /\ Asked
<1>1. Init => IInv
  <2> SUFFICES ASSUME Init PROVE TypeOK /\ Asked
    OBVIOUS
  <2>1. exitEvent \in BOOLEAN /\ daemonUp \in BOOLEAN
    BY Zenon DEF Init
  <2> QED  BY <2>1 DEF Init, TypeOK, Asked, Question
<1>2. IInv /\ [Next]_vars => IInv'
  <2> SUFFICES ASSUME TypeOK, Asked, [Next]_vars PROVE TypeOK' /\ Asked'
    OBVIOUS
  <2>1. CASE UNCHANGED vars
    BY <2>1 DEF vars, serverVars, daemonVars, bounds, TypeOK, Asked
  <2>2. CASE Next
    BY <2>2, RequestStepTypes, PromptStepTypes, InterruptStepTypes, DeathTypes DEF Next
  <2> QED  BY <2>1, <2>2
<1> QED  BY <1>1, <1>2, PTL DEF Spec

-----------------------------------------------------------------------------
(* One question, and no way back.                                          *)

\* Every step ends what is active or leaves it; what it makes active, it makes so
\* in a thread that has no question.
RowMoves ==
    \/ \A i \in Question : row'[i] \in {"pending", "resolving"} => Active(i)
    \/ /\ ThreadFree
       /\ \E j \in Question : \A i \in Question : i # j => row'[i] = row[i]

\* What has ended stays, with its answer.
EndsStay ==
    /\ \A i \in Question : Ended(i) => row'[i] = row[i]
    /\ \A r \in Request : Ended(r) => answer'[r] = answer[r]

LEMMA RowsMove ==
    ASSUME TypeOK, Next
    PROVE  RowMoves /\ EndsStay
<1> USE WordsAreNotAnswers
<1>0. Request \subseteq Question /\ Prompt \subseteq Question
  BY DEF Question
<1>1. ASSUME NEW r \in Request, Register(r) PROVE RowMoves /\ EndsStay
  <2>1. /\ \A i \in Question : i # r => row'[i] = row[i]
        /\ row'[r] = row[r] \/ (row[r] = "none" /\ row'[r] = "pending" /\ ThreadFree)
    BY <1>1, RegisterRow
  <2>2. answer' = answer
    BY <1>1 DEF Register
  <2> QED  BY <1>0, <2>1, <2>2 DEF RowMoves, EndsStay, Ended, Active
<1>2. ASSUME NEW S, S \subseteq Question, InterruptRows(S) PROVE RowMoves /\ EndsStay
  <2>1. /\ \A i \in Question : row'[i] = row[i] \/ (Active(i) /\ row'[i] = "interrupted")
        /\ UNCHANGED <<answer, command, awaited>>
    BY <1>2, InterruptRowsRow
  <2> QED  BY <1>0, <2>1 DEF RowMoves, EndsStay, Ended, Active
<1>3. CASE UNCHANGED <<row, answer>>
  BY <1>3 DEF RowMoves, EndsStay, Active
<1>4. ASSUME NEW r \in Request, RequestStep(r) PROVE RowMoves /\ EndsStay
  <2>1. CASE Ask(r) \/ AttemptFails(r) \/ RegistrationFails(r) \/ Deliver(r)
    BY <1>3, <2>1 DEF Ask, AttemptFails, RegistrationFails, Deliver, serverVars
  <2>2. CASE Attempt(r) \/ RegisterStray(r)
    BY <1>1, <2>2 DEF Attempt, RegisterStray
  <2>3. CASE \E a \in Answers : Resolve(r, a)
    BY <1>0, <2>3 DEF Resolve, TypeOK, RowMoves, EndsStay, Ended, Active
  <2>4. CASE Settle(r) \/ CommandFails(r)
    <3>1. /\ \A i \in Question : i # r => row'[i] = row[i]
          /\ row'[r] = row[r] \/ (Active(r) /\ row'[r] \in {"resolved", "interrupted"})
      BY <1>0, <2>4 DEF Settle, CommandFails, Resolved, Interrupted, TypeOK, Active
    <3>2. \A q \in Request : answer'[q] = answer[q] \/ (q = r /\ Active(r))
      BY <2>4 DEF Settle, CommandFails, Resolved, Interrupted, TypeOK
    <3> QED  BY <1>0, <3>1, <3>2 DEF RowMoves, EndsStay, Ended, Active
  <2> QED  BY <1>4, <2>1, <2>2, <2>3, <2>4 DEF RequestStep
<1>5. ASSUME NEW p \in Prompt, PromptStep(p) PROVE RowMoves /\ EndsStay
  <2>1. answer' = answer /\ \A i \in Question : i # p => row'[i] = row[i]
    BY <1>5 DEF PromptStep, RequestPlugin, Respond, Cancel, TypeOK
  <2>2. CASE RequestPlugin(p)
    BY <1>0, <2>1, <2>2 DEF RequestPlugin, RowMoves, EndsStay, Ended
  <2>3. CASE Respond(p) \/ Cancel(p)
    <3>1. Active(p) /\ row'[p] \in {"resolved", "interrupted"}
      BY <1>0, <2>3 DEF Respond, Cancel, TypeOK, Active
    <3> QED  BY <1>0, <2>1, <3>1 DEF RowMoves, EndsStay, Ended, Active
  <2> QED  BY <1>5, <2>2, <2>3 DEF PromptStep
<1>6. CASE InterruptStep
  <2>1. CASE ProviderExits \/ InterruptPosted \/ InterruptFails
    BY <1>3, <2>1 DEF ProviderExits, InterruptPosted, InterruptFails, serverVars
  <2>2. CASE InterruptThread \/ InterruptPlugin \/ HandleExitEvent \/ \E k \in Reasons : HandleInterrupt(k)
    BY <1>0, <1>2, <2>2 DEF InterruptThread, InterruptPlugin, HandleExitEvent, HandleInterrupt
  <2> QED  BY <1>6, <2>1, <2>2 DEF InterruptStep
<1>7. CASE ServerDies
  BY <1>0, <1>7 DEF ServerDies, RowMoves, EndsStay, Ended, Active
<1>8. CASE DaemonDies
  BY <1>3, <1>8 DEF DaemonDies, serverVars
<1>9. CASE DaemonStarts
  BY <1>2, <1>9 DEF DaemonStarts
<1> QED  BY <1>4, <1>5, <1>6, <1>7, <1>8, <1>9 DEF Next

\* A thread asks one thing at a time (registerPendingInteraction,
\* requestPluginInteraction).
THEOREM OneQuestionAtATime == Spec => []OneQuestion
<1>1. Init => OneQuestion
  BY DEF Init, OneQuestion, Active
<1>2. TypeOK /\ OneQuestion /\ [Next]_vars => OneQuestion'
  <2> SUFFICES ASSUME TypeOK, OneQuestion, [Next]_vars PROVE OneQuestion'
    OBVIOUS
  <2>1. CASE UNCHANGED vars
    BY <2>1 DEF vars, serverVars, OneQuestion, Active
  <2>2. CASE Next
    BY <2>2, RowsMove DEF RowMoves, OneQuestion, ThreadFree, Active
  <2> QED  BY <2>1, <2>2
<1> QED  BY <1>1, <1>2, InteractionsTypeCorrect, PTL DEF Spec

\* What has ended does not come back, and keeps its answer (the
\* allowedCurrentStatuses of every update).
THEOREM EndedStaysEnded == Spec => NothingReopens
<1>1. TypeOK /\ [Next]_vars => [EndsStay]_vars
  BY RowsMove
<1>2. Spec => [][EndsStay]_vars
  BY <1>1, InteractionsTypeCorrect, PTL DEF Spec
<1> QED  BY <1>2, PTL DEF NothingReopens, EndsStay

-----------------------------------------------------------------------------
(* What providers and plugins are told.                                    *)

\* A question whose row is left or interrupted, and whose answer and command are
\* left, stays consistent if the provider is told nothing new.
Untold(q) ==
    /\ row'[q] = row[q] \/ row'[q] = "interrupted" \/ (row[q] = "none" /\ row'[q] = "pending")
    /\ answer'[q] = answer[q] /\ command'[q] = command[q]
    /\ told'[q] \in Answers \/ told[q] \in Answers => told'[q] = told[q]

LEMMA UntoldStays ==
    ASSUME NEW q \in Request, CommandTold(q), Untold(q)
    PROVE  CommandTold(q)'
BY WordsAreNotAnswers DEF CommandTold, Untold

\* A step of one question leaves the commands of the others.
LEMMA RequestStepTold ==
    ASSUME TypeOK, CommandsTold, NEW r \in Request, RequestStep(r)
    PROVE  CommandsTold'
<1> USE WordsAreNotAnswers
<1>0. Request \subseteq Question
  BY DEF Question
<1>1. CASE Register(r) /\ (told' = told \/ told' = Refuse(r))
  <2>1. UNCHANGED <<answer, command>>
    BY <1>1 DEF Register
  <2>2. \A q \in Request : row'[q] = row[q] \/ (row[q] = "none" /\ row'[q] = "pending")
    BY <1>0, <1>1, RegisterRow
  <2>3. \A q \in Request : told'[q] \in Answers \/ told[q] \in Answers => told'[q] = told[q]
    BY <1>1, RefuseType
  <2> QED  BY <2>1, <2>2, <2>3, UntoldStays DEF Untold, CommandsTold
<1>2. CASE Attempt(r) \/ RegisterStray(r)
  BY <1>1, <1>2 DEF Attempt, RegisterStray
<1>3. CASE Ask(r) \/ AttemptFails(r) \/ RegistrationFails(r)
  <2>1. UNCHANGED <<row, answer, command>>
    BY <1>3 DEF Ask, AttemptFails, RegistrationFails, serverVars
  <2>2. CASE Ask(r)
    <3>1. \A q \in Request : told'[q] \in Answers \/ told[q] \in Answers => told'[q] = told[q]
      BY <2>2 DEF Ask, TypeOK
    <3> QED  BY <2>1, <3>1, UntoldStays DEF Untold, CommandsTold
  <2>3. CASE AttemptFails(r) \/ RegistrationFails(r)
    <3>1. \A q \in Request : told'[q] \in Answers \/ told[q] \in Answers => told'[q] = told[q]
      BY <2>3, RefuseType DEF AttemptFails, RegistrationFails
    <3> QED  BY <2>1, <3>1, UntoldStays DEF Untold, CommandsTold
  <2> QED  BY <1>3, <2>2, <2>3
<1>4. ASSUME NEW a \in Answers, Resolve(r, a) PROVE CommandsTold'
  <2> SUFFICES ASSUME NEW q \in Request PROVE CommandTold(q)'
    BY DEF CommandsTold
  <2>1. CommandTold(q) /\ CommandTold(r) /\ told' = told
    BY <1>4 DEF CommandsTold, Resolve, daemonVars
  <2>2. CASE q # r
    BY <1>0, <1>4, <2>1, <2>2 DEF Resolve, TypeOK, CommandTold
  <2>3. CASE q = r
    <3>1. row'[r] = "resolving" /\ answer'[r] = a /\ command'[r] = a
      BY <1>0, <1>4 DEF Resolve, TypeOK
    <3>2. row[r] = "pending"
      BY <1>4 DEF Resolve
    <3> QED  BY <1>4, <2>1, <2>3, <3>1, <3>2 DEF CommandTold
  <2> QED  BY <2>2, <2>3
<1>5. CASE Deliver(r)
  <2> SUFFICES ASSUME NEW q \in Request PROVE CommandTold(q)'
    BY DEF CommandsTold
  <2>1. /\ CommandTold(q) /\ CommandTold(r) /\ UNCHANGED <<row, answer>>
        /\ command[r] \in Answers
    BY <1>5 DEF CommandsTold, Deliver
  <2>2. CASE q # r
    <3>1. command'[q] = command[q] /\ told'[q] = told[q]
      BY <1>5, <2>2 DEF Deliver, TypeOK
    <3> QED  BY <2>1, <3>1 DEF CommandTold
  <2>3. CASE q = r /\ told[r] = "open"
    <3>1. command'[r] = "delivered" /\ told'[r] = command[r]
      BY <1>5, <2>3 DEF Deliver, TypeOK
    <3> QED  BY <2>1, <2>3, <3>1 DEF CommandTold
  <2>4. CASE q = r /\ told[r] # "open"
    <3>1. command'[r] = "stale" /\ told' = told
      BY <1>5, <2>4 DEF Deliver, TypeOK
    <3> QED  BY <2>1, <2>4, <3>1 DEF CommandTold
  <2> QED  BY <2>2, <2>3, <2>4
<1>6. CASE Settle(r) \/ CommandFails(r)
  <2> SUFFICES ASSUME NEW q \in Request PROVE CommandTold(q)'
    BY DEF CommandsTold
  <2>1. CommandTold(q) /\ UNCHANGED <<command, told>>
    BY <1>6 DEF CommandsTold, Settle, CommandFails, daemonVars
  <2>2. CASE row'[q] = row[q] /\ answer'[q] = answer[q]
    BY <2>1, <2>2 DEF CommandTold
  <2>3. CASE row'[q] = "interrupted" /\ answer'[q] = None
    BY <2>1, <2>3 DEF CommandTold
  <2>4. CASE /\ row'[q] = "resolved" /\ answer'[q] = answer[q]
             /\ Active(q) /\ command[q] = "delivered"
    BY <2>1, <2>4 DEF CommandTold, Active
  <2>5. \/ row'[q] = row[q] /\ answer'[q] = answer[q]
        \/ row'[q] = "interrupted" /\ answer'[q] = None
        \/ /\ row'[q] = "resolved" /\ answer'[q] = answer[q]
           /\ Active(q) /\ command[q] = "delivered"
    BY <1>0, <1>6 DEF Settle, CommandFails, Resolved, Interrupted, TypeOK, Active
  <2> QED  BY <2>2, <2>3, <2>4, <2>5
<1> QED  BY <1>2, <1>3, <1>4, <1>5, <1>6 DEF RequestStep

\* No other step tells a provider an answer.
LEMMA OtherStepsTellNothing ==
    ASSUME TypeOK, CommandsTold,
           InterruptStep \/ (\E p \in Prompt : PromptStep(p)) \/ ServerDies \/ DaemonDies \/ DaemonStarts
    PROVE  CommandsTold'
<1> USE WordsAreNotAnswers
<1>0. Request \subseteq Question /\ Prompt \subseteq Question
  BY DEF Question
<1>1. SUFFICES \A q \in Request : Untold(q)
  BY UntoldStays DEF CommandsTold
<1>2. ASSUME NEW S, S \subseteq Question, InterruptRows(S), told' = told
      PROVE  \A q \in Request : Untold(q)
  BY <1>0, <1>2, InterruptRowsRow DEF Untold
<1>3. CASE InterruptStep
  <2>1. CASE ProviderExits
    BY <2>1 DEF ProviderExits, serverVars, TypeOK, Untold
  <2>2. CASE InterruptPosted \/ InterruptFails
    BY <2>2 DEF InterruptPosted, InterruptFails, serverVars, Untold
  <2>3. CASE InterruptThread \/ InterruptPlugin \/ HandleExitEvent \/ \E k \in Reasons : HandleInterrupt(k)
    BY <1>0, <1>2, <2>3 DEF InterruptThread, InterruptPlugin, HandleExitEvent, HandleInterrupt, daemonVars
  <2> QED  BY <1>3, <2>1, <2>2, <2>3 DEF InterruptStep
<1>4. ASSUME NEW p \in Prompt, PromptStep(p) PROVE \A q \in Request : Untold(q)
  <2>1. UNCHANGED <<answer, command, told>>
    BY <1>4 DEF PromptStep, RequestPlugin, Respond, Cancel, daemonVars
  <2>2. \A q \in Request : row'[q] = row[q]
    BY <1>0, <1>4 DEF PromptStep, RequestPlugin, Respond, Cancel, TypeOK
  <2> QED  BY <2>1, <2>2 DEF Untold
<1>5. CASE ServerDies
  BY <1>0, <1>5 DEF ServerDies, Untold
<1>6. CASE DaemonDies
  BY <1>6 DEF DaemonDies, serverVars, TypeOK, Untold
<1>7. CASE DaemonStarts
  BY <1>2, <1>7 DEF DaemonStarts
<1> QED  BY <1>3, <1>4, <1>5, <1>6, <1>7

\* A resolved question was answered as recorded, and a provider is told only what
\* was recorded (resolvePendingInteraction, the reply of interactive.resolve).
THEOREM ProvidersToldAsRecorded == Spec => []ToldAsRecorded
<1>1. Init => CommandsTold
  BY WordsAreNotAnswers DEF Init, CommandsTold, CommandTold, Question
<1>2. TypeOK /\ CommandsTold /\ [Next]_vars => CommandsTold'
  <2> SUFFICES ASSUME TypeOK, CommandsTold, [Next]_vars PROVE CommandsTold'
    OBVIOUS
  <2>1. CASE UNCHANGED vars
    BY <2>1 DEF vars, serverVars, daemonVars, CommandsTold, CommandTold
  <2>2. CASE Next
    BY <2>2, RequestStepTold, OtherStepsTellNothing DEF Next
  <2> QED  BY <2>1, <2>2
<1>3. TypeOK /\ CommandsTold => ToldAsRecorded
  <2> SUFFICES ASSUME TypeOK, CommandsTold, NEW r \in Request
               PROVE  /\ row[r] = "resolved" => told[r] = answer[r]
                      /\ told[r] \in Answers => row[r] \in {"resolving", "resolved", "interrupted"}
                                                /\ answer[r] \in {told[r], None}
    BY DEF ToldAsRecorded
  <2>1. CommandTold(r) /\ r \in Question
    BY DEF CommandsTold, Question
  <2> QED  BY <2>1, WordsAreNotAnswers DEF TypeOK, CommandTold
<1> QED  BY <1>1, <1>2, <1>3, InteractionsTypeCorrect, PTL DEF Spec

\* Every plugin waits for an active row and learns how it ended (the settling of
\* pluginWaiters).
THEOREM PluginsToldAsRecorded == Spec => []PluginToldAsRecorded
<1> USE WordsAreNotAnswers
<1>0. Request \subseteq Question /\ Prompt \subseteq Question
  BY DEF Question
<1>1. Init => PluginToldAsRecorded
  BY <1>0 DEF Init, PluginToldAsRecorded, Active
<1>2. TypeOK /\ PluginToldAsRecorded /\ [Next]_vars => PluginToldAsRecorded'
  <2> DEFINE Told(p) == /\ waiter[p] = "waits" <=> Active(p)
                        /\ waiter[p] = "submitted" <=> row[p] = "resolved"
                        /\ waiter[p] \in {"cancelled", "lost"} <=> row[p] = "interrupted"
  <2> SUFFICES ASSUME TypeOK, PluginToldAsRecorded, [Next]_vars, NEW p \in Prompt
               PROVE  Told(p)'
    BY DEF PluginToldAsRecorded
  <2>0. Told(p) /\ p \in Question
    BY <1>0 DEF PluginToldAsRecorded
  <2>1. CASE UNCHANGED <<row[p], waiter[p]>>
    BY <2>0, <2>1 DEF Active
  <2>2. CASE UNCHANGED vars
    BY <2>1, <2>2 DEF vars, serverVars
  <2>3. ASSUME NEW r \in Request, RequestStep(r) PROVE Told(p)'
    <3>1. p # r /\ waiter' = waiter
      BY <2>3 DEF RequestStep, Ask, Attempt, AttemptFails, RegisterStray, RegistrationFails,
                  Register, Resolve, Deliver, Settle, CommandFails, serverVars
    <3>2. row'[p] = row[p]
      BY <2>0, <2>3, <3>1 DEF RequestStep, Ask, Attempt, AttemptFails, RegisterStray, RegistrationFails,
             Register, Resolve, Deliver, Settle, CommandFails, Resolved, Interrupted, serverVars, TypeOK
    <3> QED  BY <2>1, <3>1, <3>2
  <2>4. ASSUME NEW S, S \subseteq Question, InterruptRows(S) PROVE Told(p)'
    <3>1. \/ row'[p] = row[p] /\ waiter'[p] = waiter[p]
          \/ /\ Active(p) /\ row'[p] = "interrupted"
             /\ waiter'[p] = IF waiter[p] = "waits" THEN "cancelled" ELSE waiter[p]
      BY <2>4, InterruptRowsRow
    <3> QED  BY <2>0, <2>1, <3>1 DEF Active
  <2>5. CASE InterruptStep
    <3>1. CASE ProviderExits \/ InterruptPosted \/ InterruptFails
      BY <2>1, <3>1 DEF ProviderExits, InterruptPosted, InterruptFails, serverVars
    <3>2. CASE InterruptThread \/ InterruptPlugin \/ HandleExitEvent \/ \E k \in Reasons : HandleInterrupt(k)
      BY <1>0, <2>4, <3>2 DEF InterruptThread, InterruptPlugin, HandleExitEvent, HandleInterrupt
    <3> QED  BY <2>5, <3>1, <3>2 DEF InterruptStep
  <2>6. ASSUME NEW q \in Prompt, PromptStep(q) PROVE Told(p)'
    <3>1. CASE p # q
      <4>1. row'[p] = row[p] /\ waiter'[p] = waiter[p]
        BY <2>0, <2>6, <3>1 DEF PromptStep, RequestPlugin, Respond, Cancel, Cancelled, TypeOK
      <4> QED  BY <2>1, <4>1
    <3>2. CASE p = q /\ RequestPlugin(q)
      <4>1. \/ row'[p] = "pending" /\ waiter'[p] = "waits"
            \/ row'[p] = "interrupted" /\ waiter'[p] = "cancelled"
        BY <2>0, <3>2 DEF RequestPlugin, TypeOK
      <4> QED  BY <4>1 DEF Active
    <3>3. CASE p = q /\ Respond(q)
      <4>1. waiter[p] = "waits" /\ row'[p] = "resolved" /\ waiter'[p] = "submitted"
        BY <2>0, <3>3 DEF Respond, TypeOK, Active
      <4> QED  BY <4>1 DEF Active
    <3>4. CASE p = q /\ Cancel(q)
      <4>1. waiter[p] = "waits" /\ row'[p] = "interrupted" /\ waiter'[p] = "cancelled"
        BY <2>0, <3>4 DEF Cancel, Cancelled, TypeOK, Active
      <4> QED  BY <4>1 DEF Active
    <3> QED  BY <2>6, <3>1, <3>2, <3>3, <3>4 DEF PromptStep
  <2>7. CASE ServerDies
    <3>1. /\ row'[p] = IF Active(p) THEN "interrupted" ELSE row[p]
          /\ waiter'[p] = IF waiter[p] = "waits" THEN "lost" ELSE waiter[p]
      BY <2>0, <2>7 DEF ServerDies
    <3> QED  BY <2>0, <3>1 DEF Active
  <2>8. CASE DaemonDies
    BY <2>1, <2>8 DEF DaemonDies, serverVars
  <2>9. CASE DaemonStarts
    BY <2>4, <2>9 DEF DaemonStarts
  <2> QED  BY <2>2, <2>3, <2>5, <2>6, <2>7, <2>8, <2>9 DEF Next
<1> QED  BY <1>1, <1>2, InteractionsTypeCorrect, PTL DEF Spec

-----------------------------------------------------------------------------
(* What becomes of an answer.                                              *)

\* The server waits for the command of an answer as long as the row is resolving; it waits
\* for no other command, though the row may be interrupted before it is through waiting.  Only
\* a death leaves a row resolving whose command nobody waits for.
AnswerEnds(r) ==
    /\ r \in awaited => row[r] \in {"resolving", "interrupted"} /\ command[r] # "none"
    /\ row[r] = "resolving" => r \in awaited \/ deaths # 0

\* A row that is left or interrupted, whose command is left or moves on.
Unsettled(q) ==
    /\ row'[q] = row[q] \/ row'[q] = "interrupted" \/ (row[q] = "none" /\ row'[q] = "pending")
    /\ q \in awaited' <=> q \in awaited
    /\ command[q] # "none" => command'[q] # "none"
    /\ deaths # 0 => deaths' # 0

LEMMA UnsettledEnds ==
    ASSUME NEW q \in Request, AnswerEnds(q), Unsettled(q)
    PROVE  AnswerEnds(q)'
BY DEF AnswerEnds, Unsettled

LEMMA RequestStepEnds ==
    ASSUME TypeOK, NEW r \in Request, RequestStep(r), NEW q \in Request, AnswerEnds(q)
    PROVE  AnswerEnds(q)'
<1> USE WordsAreNotAnswers
<1>0. Request \subseteq Question /\ r \in Question /\ q \in Question /\ deaths' = deaths
  BY DEF Question, RequestStep, Ask, Attempt, AttemptFails, RegisterStray, RegistrationFails, Resolve,
         Deliver, Settle, CommandFails, bounds
<1>1. CASE Attempt(r) \/ RegisterStray(r)
  <2>1. Register(r)
    BY <1>1 DEF Attempt, RegisterStray
  <2>2. row'[q] = row[q] \/ (row[q] = "none" /\ row'[q] = "pending")
    BY <1>0, <2>1, RegisterRow
  <2> QED  BY <1>0, <2>1, <2>2, UnsettledEnds DEF Register, Unsettled
<1>2. CASE Ask(r) \/ AttemptFails(r) \/ RegistrationFails(r)
  BY <1>0, <1>2, UnsettledEnds DEF Ask, AttemptFails, RegistrationFails, serverVars, Unsettled
<1>3. ASSUME NEW a \in Answers, Resolve(r, a) PROVE AnswerEnds(q)'
  <2>1. CASE q # r
    BY <1>0, <1>3, <2>1, UnsettledEnds DEF Resolve, TypeOK, Unsettled
  <2>2. CASE q = r
    <3>1. row'[r] = "resolving" /\ command'[r] = a /\ r \in awaited'
      BY <1>0, <1>3 DEF Resolve, TypeOK
    <3> QED  BY <1>3, <2>2, <3>1 DEF AnswerEnds
  <2> QED  BY <2>1, <2>2
<1>4. CASE Deliver(r)
  <2>1. command[q] # "none" => command'[q] # "none"
    BY <1>4 DEF Deliver, TypeOK
  <2> QED  BY <1>0, <1>4, <2>1, UnsettledEnds DEF Deliver, Unsettled
<1>5. CASE Settle(r) \/ CommandFails(r)
  <2>1. CASE q # r
    <3>1. row'[q] = row[q]
      BY <1>0, <1>5, <2>1 DEF Settle, CommandFails, Resolved, Interrupted, TypeOK
    <3> QED  BY <1>0, <1>5, <2>1, <3>1, UnsettledEnds DEF Settle, CommandFails, Unsettled
  <2>2. CASE q = r
    <3>1. q \notin awaited' /\ row'[q] # "resolving"
      BY <1>0, <1>5, <2>2 DEF Settle, CommandFails, Resolved, Interrupted, TypeOK, Active
    <3> QED  BY <3>1 DEF AnswerEnds
  <2> QED  BY <2>1, <2>2
<1> QED  BY <1>1, <1>2, <1>3, <1>4, <1>5 DEF RequestStep

LEMMA OtherStepsEnd ==
    ASSUME TypeOK, NEW q \in Request, AnswerEnds(q),
           InterruptStep \/ (\E p \in Prompt : PromptStep(p)) \/ ServerDies \/ DaemonDies \/ DaemonStarts
    PROVE  AnswerEnds(q)'
<1> USE WordsAreNotAnswers
<1>0. Request \subseteq Question /\ Prompt \subseteq Question /\ deaths \in Nat
  BY DEF Question, TypeOK
<1>1. ASSUME NEW S, S \subseteq Question, InterruptRows(S), deaths' = deaths
      PROVE  Unsettled(q)
  BY <1>0, <1>1, InterruptRowsRow DEF Unsettled
<1>2. CASE ProviderExits \/ InterruptPosted \/ InterruptFails
  BY <1>2, UnsettledEnds DEF ProviderExits, InterruptPosted, InterruptFails, serverVars, bounds, Unsettled
<1>3. CASE InterruptThread \/ InterruptPlugin \/ HandleExitEvent \/ \E k \in Reasons : HandleInterrupt(k)
  BY <1>0, <1>1, <1>3, UnsettledEnds DEF InterruptThread, InterruptPlugin, HandleExitEvent, HandleInterrupt, bounds
<1>4. ASSUME NEW p \in Prompt, PromptStep(p) PROVE AnswerEnds(q)'
  <2>1. UNCHANGED <<command, awaited, deaths>>
    BY <1>4 DEF PromptStep, RequestPlugin, Respond, Cancel, bounds
  <2>2. row'[q] = row[q]
    BY <1>0, <1>4 DEF PromptStep, RequestPlugin, Respond, Cancel, TypeOK
  <2> QED  BY <2>1, <2>2, UnsettledEnds DEF Unsettled
<1>5. CASE ServerDies
  <2>1. q \notin awaited' /\ deaths' # 0
    BY <1>0, <1>5 DEF ServerDies
  <2> QED  BY <2>1 DEF AnswerEnds
<1>6. CASE DaemonDies
  BY <1>0, <1>6, UnsettledEnds DEF DaemonDies, serverVars, Unsettled
<1>7. CASE DaemonStarts
  BY <1>1, <1>7, UnsettledEnds DEF DaemonStarts
<1> QED  BY <1>2, <1>3, <1>4, <1>5, <1>6, <1>7 DEF InterruptStep

\* A user's answer never hangs while the server lives: its row is resolving no longer than the
\* server waits for the daemon, and a row that was interrupted meanwhile is not resolved
\* (queueInteractionResolutionCommand, settleInteractiveResolveCommandResultInTransaction).
THEOREM AnswersEnd == Spec => [](\A r \in Request : AnswerEnds(r))
<1>1. Init => \A r \in Request : AnswerEnds(r)
  BY DEF Init, AnswerEnds, Question
<1>2. TypeOK /\ (\A r \in Request : AnswerEnds(r)) /\ [Next]_vars => (\A r \in Request : AnswerEnds(r))'
  <2> SUFFICES ASSUME TypeOK, [Next]_vars, NEW r \in Request, AnswerEnds(r)
               PROVE  AnswerEnds(r)'
    OBVIOUS
  <2>1. CASE UNCHANGED vars
    BY <2>1 DEF vars, serverVars, bounds, AnswerEnds
  <2> QED  BY <2>1, RequestStepEnds, OtherStepsEnd DEF Next
<1> QED  BY <1>1, <1>2, InteractionsTypeCorrect, PTL DEF Spec
=============================================================================
