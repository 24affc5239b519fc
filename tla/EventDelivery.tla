---------------------------- MODULE EventDelivery ----------------------------
(***************************************************************************)
(* How the events of one thread get from its provider to the server: the   *)
(* event sink of the host daemon, which buffers them, posts the buffer in  *)
(* one batch and bisects what the server refuses; the server, which stores *)
(* a batch in one transaction and then applies its effects to the thread;  *)
(* and the network, which may lose an answer, so that a batch comes twice, *)
(* or late, while its successor is already there.                          *)
(*                                                                         *)
(* An event is its place in the order of emission, a turn the place of its *)
(* "started" event.  The buffer holds the places after `sent`.  Who calls  *)
(* flush, and when, is left open (timers, command results, tool calls, a   *)
(* new session).  Left out: items' own deduplication, events of other      *)
(* threads, delegated turns, stops, and what the server makes of the turns *)
(* of a daemon that died.                                                  *)
(***************************************************************************)
EXTENDS Integers, Sequences, FiniteSets, ThreadLifecycle

CONSTANTS
    MaxEvents,  \* bound: events the provider emits
    MaxStrays,  \* bound: requests the daemon gave up on and the server has not
    Extras,     \* the kinds of event a turn has beside its start and its end
    MayDie      \* whether the server and the daemon may die

ASSUME DeliveryAssumption ==
    /\ MaxEvents \in Nat /\ MaxStrays \in Nat
    /\ Extras \subseteq {"progress", "snapshot", "malformed"}
    /\ MayDie \in BOOLEAN

VARIABLES
    emitted,    \* the events so far: [kind, turn]
    work,       \* the provider has a request it has not started a turn for
    running,    \* the turn the provider runs, or 0
    open,       \* the daemon has a session with the server
    sent,       \* the daemon has dropped the events up to here from its buffer
    done,       \* within a drain: the events up to here are delivered
    cuts,       \* where the rest of the batch is cut into requests
    answer,     \* of the current request: "none" (no drain), "pending", "stored", "refused"
    strays,     \* requests <<from, upto>> the server may still execute
    stored,     \* the events in the server's log
    applied,    \* the events whose effect on the thread was applied
    status,     \* threads.status
    dropped,    \* (history) events the server will never accept, or skips
    lost,       \* (history) events that died with a daemon
    died        \* (history) a daemon died, and with it perhaps a run

provider == <<emitted, work, running>>
sink == <<sent, done, cuts, answer>>
server == <<stored, applied, status>>
vars == <<provider, open, sink, strays, server, dropped, lost, died>>

Emitted == 1..Len(emitted)
Ends == {n \in Emitted : emitted[n].kind \in {"completed", "failed"}}
Starts == {n \in Emitted : emitted[n].kind = "started"}

Init ==
    /\ emitted = <<>> /\ work = FALSE /\ running = 0
    /\ open = TRUE
    /\ sent = 0 /\ done = 0 /\ cuts = {} /\ answer = "none"
    /\ strays = {}
    /\ stored = {} /\ applied = {} /\ status = "idle"
    /\ dropped = {} /\ lost = {} /\ died = FALSE

-----------------------------------------------------------------------------
(* The run: the server asks for a turn, the provider takes it.             *)

Request ==
    /\ status \in {"idle", "error"} /\ ~ work
    /\ status' = After(status, "run.started")
    /\ work' = TRUE
    /\ UNCHANGED <<emitted, running, open, sink, strays, stored, applied, dropped, lost, died>>

\* The sink's emit, called by the provider's runtime.
Emit(kind, turn) ==
    /\ Len(emitted) < MaxEvents
    /\ emitted' = Append(emitted, [kind |-> kind, turn |-> turn])
    /\ UNCHANGED <<open, sink, strays, server, dropped, lost, died>>

StartTurn ==
    /\ work /\ running = 0
    /\ Emit("started", Len(emitted) + 1)
    /\ running' = Len(emitted) + 1
    /\ work' = FALSE

\* Between turns, an event that belongs to no turn the daemon has announced.
Progress ==
    /\ \E kind \in Extras : Emit(kind, running)
    /\ UNCHANGED <<work, running>>

EndTurn ==
    /\ running # 0
    /\ \E kind \in {"completed", "failed"} : Emit(kind, running)
    /\ running' = 0
    /\ UNCHANGED work

-----------------------------------------------------------------------------
(* The server handles a batch S of consecutive events (/session/events).   *)

\* The log has no turn/started for the turn of n, and neither has the batch.
Missing(n, S) == emitted[n].kind # "started" /\ emitted[n].turn \notin stored \union S

\* 400 for an event the schema does not know, 409 for one of a turn that never
\* started; nothing of the batch is stored then.  Snapshots may be skipped.
Unacceptable(S) ==
    \E n \in S : \/ emitted[n].kind = "malformed"
                 \/ emitted[n].kind # "snapshot" /\ Missing(n, S)

\* appendDaemonEventsInTransaction: of a turn/started the log keeps one; a
\* turn/completed that comes again is inserted again.
Skipped(S) == {n \in S : Missing(n, S)}
StoredWith(S) == stored \union (S \ Skipped(S))

\* shouldApplyEventEffect.  A start is stale if the log had the end of its turn
\* before this batch brought it again.
StaleStart(n, S) ==
    \E m \in Ends : emitted[m].turn = n /\ m \in stored \ S
\* Mutant: only a start that was inserted has an effect.
EffectOfInserted(n, S) ==
    CASE emitted[n].kind = "started" /\ n \notin stored -> "run.started"
      [] emitted[n].kind = "completed" -> "run.succeeded"
      [] emitted[n].kind = "failed" -> "run.failed"
      [] OTHER -> "none"
\* Mutant: a start that comes again starts the thread again.
EffectOfStale(n, S) ==
    CASE emitted[n].kind = "started" -> "run.started"
      [] emitted[n].kind = "completed" -> "run.succeeded"
      [] emitted[n].kind = "failed" -> "run.failed"
      [] OTHER -> "none"
Effect(n, S) ==
    CASE emitted[n].kind = "started" /\ ~ StaleStart(n, S) -> "run.started"
      [] emitted[n].kind = "completed" -> "run.succeeded"
      [] emitted[n].kind = "failed" -> "run.failed"
      [] OTHER -> "none"

\* applyEventEffects: the status after each event of the batch, in their order.
StatusAfter(from, upto) ==
    LET after[n \in from..upto] ==
            IF n = from THEN status
            ELSE After(after[n - 1], Effect(n, from + 1 .. upto))
    IN  after

StoreBatch(from, upto) ==
    LET S == from + 1 .. upto
    IN  /\ ~ Unacceptable(S)
        /\ stored' = StoredWith(S)
        /\ dropped' = dropped \union Skipped(S)

\* The transaction, and then the effects of the events up to m.
HandleUpTo(m, from, upto) ==
    /\ StoreBatch(from, upto)
    /\ applied' = applied \union
          {n \in from + 1 .. m : Effect(n, from + 1 .. upto) # "none"}
    /\ status' = StatusAfter(from, upto)[m]

Handle(from, upto) == HandleUpTo(upto, from, upto)

-----------------------------------------------------------------------------
(* The sink drains its buffer.                                             *)

\* The current request posts the events after `done` up to the first cut.
NextCut(e) == e \in cuts /\ \A c \in cuts : e <= c

StartDrain ==
    /\ answer = "none" /\ open /\ sent < Len(emitted)
    /\ done' = sent
    /\ cuts' = {Len(emitted)}
    /\ answer' = "pending"
    /\ UNCHANGED <<provider, open, sent, strays, server, dropped, lost, died>>

Accept ==
    /\ answer = "pending"
    /\ \E e \in cuts : NextCut(e) /\ Handle(done, e)
    /\ answer' = "stored"
    /\ UNCHANGED <<provider, open, sent, done, cuts, strays, lost, died>>

Refuse ==
    /\ answer = "pending"
    /\ \E e \in cuts : NextCut(e) /\ Unacceptable(done + 1 .. e)
    /\ answer' = "refused"
    /\ UNCHANGED <<provider, open, sent, done, cuts, strays, server, dropped, lost, died>>

\* One request of deliverBatch is over.  After the last one the batch leaves
\* the buffer, and the drain goes on with what has come since.
Advance(e) ==
    /\ done' = e
    /\ IF cuts # {e} THEN
          cuts' = cuts \ {e} /\ answer' = "pending" /\ UNCHANGED sent
       ELSE IF open /\ e < Len(emitted) THEN
          cuts' = {Len(emitted)} /\ answer' = "pending" /\ sent' = e
       ELSE cuts' = {} /\ answer' = "none" /\ sent' = e

Delivered ==
    /\ answer = "stored"
    /\ \E e \in cuts : NextCut(e) /\ Advance(e)
    /\ UNCHANGED <<provider, open, strays, server, dropped, lost, died>>

\* Permanently refused: alone an event is dropped, else the halves are posted.
Drop ==
    /\ answer = "refused"
    /\ \E e \in cuts :
          /\ NextCut(e) /\ e = done + 1
          /\ dropped' = dropped \union {e}
          /\ Advance(e)
    /\ UNCHANGED <<provider, open, strays, server, lost, died>>

\* Mutant: a single event is bisected too.
BisectToNothing ==
    /\ answer = "refused"
    /\ \E e \in cuts :
          /\ NextCut(e)
          /\ cuts' = cuts \union {done + (e - done) \div 2}
    /\ answer' = "pending"
    /\ UNCHANGED <<provider, open, sent, done, strays, server, dropped, lost, died>>

Bisect ==
    /\ answer = "refused"
    /\ \E e \in cuts :
          /\ NextCut(e) /\ e > done + 1
          /\ cuts' = cuts \union {done + (e - done) \div 2}
    /\ answer' = "pending"
    /\ UNCHANGED <<provider, open, sent, done, strays, server, dropped, lost, died>>

\* No answer, or one that asks for a retry: what was delivered leaves the buffer
\* and the rest waits for the next flush.  The server may still have the request.
Stray(S) ==
    \/ UNCHANGED strays
    \/ /\ answer = "pending"
       /\ Cardinality(strays) < MaxStrays
       /\ \E e \in cuts : NextCut(e) /\ strays' = strays \union {<<done, e>>}

EndDrain(delivered) ==
    /\ sent' = delivered
    /\ cuts' = {} /\ answer' = "none"
    /\ UNCHANGED done

\* Mutant: a half that failed is passed over, and the other half is posted.
GiveUpHalf ==
    /\ answer # "none"
    /\ \E e \in cuts : NextCut(e) /\ Advance(e)
    /\ UNCHANGED <<strays, provider, open, server, dropped, lost, died>>

GiveUp ==
    /\ answer # "none"
    /\ EndDrain(done)
    /\ Stray(strays)
    /\ UNCHANGED <<provider, open, server, dropped, lost, died>>

-----------------------------------------------------------------------------
(* The network, and death.                                                 *)

StrayHandled ==
    \E r \in strays :
       /\ strays' = strays \ {r}
       /\ \/ Handle(r[1], r[2])
          \/ UNCHANGED <<server, dropped>>
       /\ UNCHANGED <<provider, open, sink, lost, died>>

SessionChanges ==
    /\ open' = ~ open
    /\ UNCHANGED <<provider, sink, strays, server, dropped, lost, died>>

\* The server dies, perhaps while it handles a request: the batch is in the log,
\* and only the first of its events have had their effect.
ServerDies ==
    /\ MayDie
    /\ \/ /\ answer = "pending"
          /\ \E e \in cuts : NextCut(e) /\ \E m \in done .. e - 1 : HandleUpTo(m, done, e)
       \/ UNCHANGED <<server, dropped>>
    /\ strays' = {}
    /\ IF answer = "none" THEN UNCHANGED sink ELSE EndDrain(done)
    /\ UNCHANGED <<provider, open, lost, died>>

\* The daemon dies with its buffer and its providers.
DaemonDies ==
    /\ MayDie
    /\ lost' = lost \union (sent + 1 .. Len(emitted))
    /\ EndDrain(Len(emitted))
    /\ Stray(strays)
    /\ work' = FALSE /\ running' = 0
    /\ died' = TRUE
    /\ UNCHANGED <<emitted, open, server, dropped>>

-----------------------------------------------------------------------------
Next ==
    \/ Request
    \/ StartTurn
    \/ Progress
    \/ EndTurn
    \/ StartDrain
    \/ Accept
    \/ Refuse
    \/ Delivered
    \/ Drop
    \/ Bisect
    \/ GiveUp
    \/ StrayHandled
    \/ SessionChanges
    \/ ServerDies
    \/ DaemonDies

Spec == Init /\ [][Next]_vars
-----------------------------------------------------------------------------
(* Properties.                                                             *)

\* The shape of everything but the status.
Shape ==
    /\ emitted \in Seq([kind : {"started", "completed", "failed"} \union Extras, turn : Nat])
    /\ {work, open, died} \subseteq BOOLEAN
    /\ running \in Nat
    /\ {sent, done} \subseteq 0..Len(emitted)
    /\ cuts \subseteq Emitted
    /\ answer \in {"none", "pending", "stored", "refused"}
    /\ answer = "none" <=> cuts = {}
    /\ answer # "none" => sent <= done /\ \A c \in cuts : done < c
    /\ \A r \in strays : r[1] \in 0..Len(emitted) /\ r[2] \in Emitted /\ r[1] < r[2]
    /\ {stored, applied, dropped, lost} \subseteq SUBSET Emitted

\* The sink's cursor, the cuts of its batch and the places in the log stay within
\* what was emitted; every request posts at least one event and none twice in one
\* drain (drainQueue, deliverBatch).
TypeOK == Shape /\ status \in ThreadStatus

\* No event overtakes another on its way into the log: whatever comes before a
\* stored event is stored, was never acceptable, or died with a daemon, however
\* requests are bisected, retried and delayed (deliverBatch).
Gapless ==
    \A n \in stored : \A m \in 1 .. n - 1 : m \in stored \union dropped \union lost

\* What the daemon forgets, the server has seen to: the event is in the log, an
\* end of a turn has been applied to the thread, and so has its start unless the
\* end came first.  A server that dies between the log and the effects gets the
\* batch again (shouldApplyEventEffect).
SeenTo(n) ==
    \/ n \in dropped \union lost
    \/ /\ n \in stored
       /\ n \in Ends => n \in applied
       /\ n \in Starts => n \in applied \/ \E m \in Ends : emitted[m].turn = n /\ m \in stored
NothingForgotten == \A n \in 1..sent : SeenTo(n)

\* When everything has arrived and nothing runs, the thread is not active: no
\* late or repeated start has brought a finished run back to life (the test
\* "keeps a thread idle when a started/completed batch is posted again").
QuietWhenDone ==
    /\ answer = "none" /\ sent = Len(emitted) /\ strays = {}
    /\ ~ work /\ running = 0 /\ ~ died
    => status # "active"
=============================================================================
