--------------------------- MODULE ThreadLifecycle ---------------------------
(***************************************************************************)
(* The status of a thread and the events that change it.  Every writer of  *)
(* threads.status goes through this table and compares-and-sets the status *)
(* it has read, so an event either applies in full or changes nothing.     *)
(* Archived and deleted threads, which accept fewer events, are left out.  *)
(***************************************************************************)

ThreadStatus == {"pending", "idle", "starting", "active", "stopping", "error"}

\* THREAD_LIFECYCLE: <<status, event, next status>>; no triple, no transition.
Lifecycle ==
    {<<"pending", "run.preparing", "starting">>,
     <<"idle", "run.preparing", "starting">>,
     <<"error", "run.preparing", "starting">>,
     <<"idle", "run.started", "active">>,
     <<"error", "run.started", "active">>,
     <<"starting", "run.started", "active">>}
    \union {<<s, "run.succeeded", "idle">> : s \in {"starting", "active", "stopping"}}
    \union {<<s, "run.failed", "error">> : s \in {"starting", "active", "stopping"}}
    \union {<<s, "stop.requested", "stopping">> : s \in {"starting", "active"}}
    \union {<<"stopping", "stop.settled", "idle">>}

Applies(from, event) == \E t \in Lifecycle : t[1] = from /\ t[2] = event

\* applyThreadLifecycleEvent: the new status, or the old one if the event is a
\* no-op in it.
After(from, event) ==
    IF Applies(from, event)
    THEN (CHOOSE t \in Lifecycle : t[1] = from /\ t[2] = event)[3]
    ELSE from
=============================================================================
