-------------------------- MODULE EvaluatorHandler ---------------------------
(***************************************************************************)
(* The server thread: its start, and ConcreteEvaluatorHandler's six        *)
(* operations, which TSimpleServer calls one at a time.  resume_ and       *)
(* suspend_application_threads are steps of executeUntilEvent here.  As in *)
(* AppThreads, a critical section is one step unless somebody can see its  *)
(* middle: delBreakpoint's flush is a step of its own.                     *)
(***************************************************************************)
EXTENDS EvalState

Reply(r) ==
    /\ server' = "idle"
    /\ request' = None
    /\ resolved' = None
    /\ reply' = r

\* The handler moves on to label l of its operation.
GoTo(l) == server' = l /\ UNCHANGED <<request, resolved, reply>>

Ok(op)        == [op |-> op, status |-> "ok"]
OkValue(op,v) == [op |-> op, status |-> "ok", value |-> v]
Failed(op)    == [op |-> op, status |-> "exception"]

\* assert_helper (false, ...): throws, after an unlock where the caller asked
\* for one.  All callers hold the mutex then but executeUntilEvent's last.
assert_helper_locked(op) == mutex' = "server" /\ Reply(Failed(op))
assert_helper(op) == mutex' = "free" /\ Reply(Failed(op))

\* dr_mutex_unlock by a thread that does not own the mutex is undefined:
\* the mutex may look free, or may never be granted again.
UnlockNotOwned == mutex' \in {"free", "broken"}

-----------------------------------------------------------------------------
(* Suspending.                                                             *)

\* suspend_application_threads, up to the call of DynamoRIO.
suspend_application_threads(from, to) ==
    /\ server = from
    /\ proc' = IF NDEBUG \/ ~suspend_params THEN proc ELSE "aborted"
    /\ suspend_params' = TRUE
    /\ GoTo(to)
    /\ UNCHANGED <<mutex, tableVars, stop_events, stopVars, suspended, drVars, threadVars>>

\* dr_suspend_all_other_threads stops the threads one by one, each where it
\* can be stopped, and returns when it has all of them.
Suspending == server \in {"boot_suspend", "exec_suspend"}

SuspendThread(t) ==
    /\ Suspending
    /\ Running(t)
    /\ pc[t] \in SuspendPoints
    /\ suspended' = suspended \cup {t}
    /\ UNCHANGED <<mutex, tableVars, suspend_params, stop_events, stopVars, drVars, proc,
                   threadVars, serverVars>>

AllSuspended_some == suspended # {}
AllSuspended == \A t \in Threads : ~Running(t)

SuspendReturns(from, to) ==
    /\ server = from
    /\ AllSuspended
    /\ GoTo(to)
    /\ UNCHANGED <<mutex, tableVars, suspend_params, stop_events, stopVars, suspended,
                   drVars, proc, threadVars>>

\* DynamoRIO gives up on a thread it cannot stop, and DR_ASSERT ends the process.
SuspendFails ==
    /\ Suspending
    /\ ~AllSuspended
    /\ proc' = "aborted"
    /\ UNCHANGED <<mutex, tableVars, suspend_params, stop_events, stopVars, suspended,
                   drVars, threadVars, serverVars>>

\* server_thread: suspend the application, then serve.
server_thread ==
    \/ suspend_application_threads("boot", "boot_suspend")
    \/ SuspendReturns("boot_suspend", "idle")

\* A client's request reaches the handler.
Receive(r) ==
    /\ server = "idle"
    /\ server' = r.op
    /\ request' = r
    /\ reply' = None
    /\ UNCHANGED <<mutex, tableVars, suspend_params, stop_events, stopVars, suspended,
                   drVars, proc, threadVars, resolved>>

-----------------------------------------------------------------------------
(* The breakpoint tables.                                                  *)

otherThanTables == <<suspend_params, stop_events, stopVars, suspended, proc, threadVars>>

\* Both operations resolve the address before they take the mutex, and throw
\* without it if they cannot.
ResolveAddress(from, to) ==
    /\ server = from
    /\ IF Resolve(request.addr) = Unresolvable
       THEN Reply(Failed(request.op))
       ELSE /\ resolved' = Resolve(request.addr)
            /\ server' = to
            /\ UNCHANGED <<request, reply>>
    /\ UNCHANGED <<mutex, tableVars, drVars, otherThanTables>>

\* breakpoints.count (*addr) == 0 || breakpoints[*addr] == 0
MayAdd_always(a) == TRUE
MayAdd(a) == breakpoints[a] \in {None, 0}

addBreakpoint ==
    /\ server = "add_lock"
    /\ mutex = "free"
    /\ IF resolved # None
       THEN IF MayAdd(resolved)
            THEN /\ breakpoints' = [breakpoints EXCEPT ![resolved] = request.count]
                 /\ Reply(Ok(request.op))
                 /\ UNCHANGED <<mutex, deferred_breakpoints>>
            ELSE assert_helper(request.op) /\ UNCHANGED tableVars
       ELSE IF deferred_breakpoints[request.addr] = None
            THEN /\ deferred_breakpoints' =
                        [deferred_breakpoints EXCEPT ![request.addr] = request.count]
                 /\ Reply(Ok(request.op))
                 /\ UNCHANGED <<mutex, breakpoints>>
            ELSE assert_helper(request.op) /\ UNCHANGED tableVars
    /\ UNCHANGED <<drVars, otherThanTables>>

\* delBreakpoint erases a breakpoint and goes on to the flush with the mutex
\* in hand; a deferred one needs no flush.
delBreakpoint ==
    /\ server = "del_lock"
    /\ mutex = "free"
    /\ IF resolved # None
       THEN IF breakpoints[resolved] # None
            THEN /\ breakpoints' = [breakpoints EXCEPT ![resolved] = None]
                 /\ mutex' = "server"
                 /\ GoTo("del_flush")
                 /\ UNCHANGED deferred_breakpoints
            ELSE assert_helper(request.op) /\ UNCHANGED tableVars
       ELSE IF deferred_breakpoints[request.addr] # None
            THEN /\ deferred_breakpoints' =
                        [deferred_breakpoints EXCEPT ![request.addr] = None]
                 /\ Reply(Ok(request.op))
                 /\ UNCHANGED <<mutex, breakpoints>>
            ELSE assert_helper(request.op) /\ UNCHANGED tableVars
    /\ UNCHANGED <<drVars, otherThanTables>>

delBreakpoint_flush ==
    /\ server = "del_flush"
    /\ total_flush
    /\ mutex' = "free"
    /\ Reply(Ok(request.op))
    /\ UNCHANGED <<tableVars, cache, loaded, otherThanTables>>

getBreakpoints ==
    /\ server = "getBreakpoints"
    /\ mutex = "free"
    /\ Reply(OkValue(request.op,
             {p \in Addrs \X Count : breakpoints[p[1]] = p[2]}))
    /\ UNCHANGED <<mutex, tableVars, drVars, otherThanTables>>

-----------------------------------------------------------------------------
(* executeUntilEvent.                                                      *)

otherThanServer == <<tableVars, stopVars, suspended, drVars, threadVars>>

\* stop_events is assigned before the mutex is taken.
ExecStopEvents ==
    /\ server = "executeUntilEvent"
    /\ stop_events' = request.stopEvents
    /\ GoTo("exec_check")
    /\ UNCHANGED <<mutex, suspend_params, proc, otherThanServer>>

\* Lock, check that the application is suspended, unlock.
ExecRelease == UNCHANGED mutex

ExecCheck ==
    /\ server = "exec_check"
    /\ mutex = "free"
    /\ IF suspend_params THEN ExecRelease /\ GoTo("exec_flush")
                         ELSE assert_helper(request.op)
    /\ UNCHANGED <<suspend_params, stop_events, proc, otherThanServer>>

ExecFlush ==
    /\ server = "exec_flush"
    /\ total_flush
    /\ GoTo("exec_resume")
    /\ UNCHANGED <<mutex, suspend_params, stop_events, proc, tableVars, stopVars, suspended,
                   cache, loaded, threadVars>>

\* resume_application_threads: forget the last stop,
ClearStop_not == UNCHANGED <<stopped_context, stopped_block>>
ClearStop == stopped_context' = None /\ stopped_block' = None

ExecResume ==
    /\ server = "exec_resume"
    /\ proc' = IF NDEBUG \/ suspend_params THEN proc ELSE "aborted"
    /\ ClearStop
    /\ GoTo("exec_running")
    /\ UNCHANGED <<mutex, suspend_params, stop_events, tableVars, suspend_event, suspended,
                   drVars, threadVars>>

\* have DynamoRIO resume the threads (the call is an argument of assert, so an
\* NDEBUG build resumes nothing),
StillSuspended_all == suspended
StillSuspended == IF NDEBUG THEN suspended ELSE {}

ExecRunning ==
    /\ server = "exec_running"
    /\ suspended' = StillSuspended
    /\ GoTo("exec_unset")
    /\ UNCHANGED <<mutex, suspend_params, stop_events, proc, tableVars, stopVars,
                   drVars, threadVars>>

\* and only then forget their contexts.
ExecUnset ==
    /\ server = "exec_unset"
    /\ suspend_params' = FALSE
    /\ GoTo("exec_wait")
    /\ UNCHANGED <<mutex, stop_events, proc, otherThanServer>>

\* dr_event_wait: the event resets itself when a wait returns.
ExecWait ==
    /\ server = "exec_wait"
    /\ suspend_event
    /\ suspend_event' = FALSE
    /\ GoTo("exec_set")
    /\ UNCHANGED <<mutex, suspend_params, stop_events, proc, tableVars, stopped_context,
                   stopped_block, suspended, drVars, threadVars>>

\* The result: the event of the saved context.  If nothing was saved,
\* assert_helper unlocks a mutex this thread never locked; a debug build of
\* DynamoRIO dies there.
ExecResult ==
    /\ server = "exec_result"
    /\ \/ /\ stopped_context # None
          /\ Reply(OkValue(request.op, stopped_context.event))
          /\ UNCHANGED <<mutex, proc>>
       \/ /\ stopped_context = None
          /\ UnlockNotOwned
          /\ Reply(Failed(request.op))
          /\ UNCHANGED proc
       \/ /\ stopped_context = None
          /\ proc' = "aborted"
          /\ UNCHANGED <<mutex, serverVars>>
    /\ UNCHANGED <<suspend_params, stop_events, otherThanServer>>

-----------------------------------------------------------------------------
(* What the last stop left.                                                *)

getCodeBlock ==
    /\ server = "getCodeBlock"
    /\ mutex = "free"
    /\ IF stopped_block # None
       THEN Reply(OkValue(request.op, stopped_block)) /\ UNCHANGED mutex
       ELSE assert_helper(request.op)
    /\ UNCHANGED <<tableVars, drVars, otherThanTables>>

getContext ==
    /\ server = "getContext"
    /\ mutex = "free"
    /\ IF stopped_context # None
       THEN Reply(OkValue(request.op, stopped_context)) /\ UNCHANGED mutex
       ELSE assert_helper(request.op)
    /\ UNCHANGED <<tableVars, drVars, otherThanTables>>

-----------------------------------------------------------------------------

executeUntilEvent ==
    \/ ExecStopEvents \/ ExecCheck \/ ExecFlush
    \/ ExecResume \/ ExecRunning \/ ExecUnset \/ ExecWait
    \/ suspend_application_threads("exec_set", "exec_suspend")
    \/ SuspendReturns("exec_suspend", "exec_result")
    \/ ExecResult

\* The steps of the server thread once it has a request (or has to start).
HandlerStep ==
    \/ server_thread
    \/ ResolveAddress("addBreakpoint", "add_lock") \/ addBreakpoint
    \/ ResolveAddress("delBreakpoint", "del_lock") \/ delBreakpoint \/ delBreakpoint_flush
    \/ getBreakpoints \/ executeUntilEvent \/ getCodeBlock \/ getContext

=============================================================================
