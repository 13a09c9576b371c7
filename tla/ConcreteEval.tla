---------------------------- MODULE ConcreteEval -----------------------------
(***************************************************************************)
(* The whole client in a running process: application threads (AppThreads) *)
(* and the server thread (EvaluatorHandler) over the shared state of       *)
(* EvalState, with the correctness properties of their interaction.        *)
(***************************************************************************)
EXTENDS AppThreads, EvaluatorHandler

ThreadStep(t) == ClientStep(t) \/ AppStep(t) \/ SuspendThread(t)
ServerStep    == HandlerStep \/ SuspendFails \/ \E r \in Requests : Receive(r)

Next ==
    /\ proc = "up"
    /\ \/ \E t \in Threads : ThreadStep(t)
       \/ FlushCache
       \/ ServerStep

Spec == Init /\ [][Next]_vars

\* The operating system runs every thread, so code inside the client goes on;
\* DynamoRIO keeps retrying until it meets a thread where it can be stopped.
\* Nothing is assumed of the application, of clients, or of delayed flushes.
Fairness ==
    /\ WF_vars(proc = "up" /\ HandlerStep)
    /\ \A t \in Threads : WF_vars(proc = "up" /\ ClientStep(t))
    /\ \A t \in Threads : SF_vars(proc = "up" /\ SuspendThread(t))

FairSpec == Spec /\ Fairness

-----------------------------------------------------------------------------
(* Safety.                                                                 *)

\* The server's positions outside the stretch of executeUntilEvent (and of the
\* start) in which the application runs.
Stopped == server \notin {"boot", "boot_suspend", "exec_unset", "exec_wait",
                          "exec_set", "exec_suspend"}

\* While the server thread is anywhere but in that stretch, no application
\* thread can take a step: this is what lets executeUntilEvent, and the
\* resolution of addresses, touch shared state without the mutex.
HandlerExclusion == Stopped => \A t \in Threads : ~Running(t)

\* options.hpp: suspend_params is "set whenever threads are suspended", though
\* setting it, suspending, resuming and clearing it are four separate steps.
SuspendParamsSet == suspended # {} => suspend_params

\* When the server is ready for a request nobody holds the mutex, although
\* update_fastforward_count sleeps with it while it waits to be suspended; a
\* thread suspended there would block every later request.
StoppedMutexFree == server = "idle" => mutex \notin Threads \cup {"server"}

\* addBreakpoint and delBreakpoint resolve the address before they lock the
\* mutex; when they use the result it is still what resolving would give, so no
\* breakpoint is deferred for a module that is already loaded.
ResolvedStillCurrent ==
    server \in {"add_lock", "del_lock"} => resolved = Resolve(request.addr)

\* Once the application runs again and no flush is outstanding, every fragment
\* in the code cache calls the client wherever the tables and stop_events say:
\* no breakpoint added, activated or kept while it was stopped is skipped, and
\* neither is one of a module that was unloaded and came back.  The exception is
\* a deferred breakpoint at modinfo->end, which event_module_loaded accepts
\* though other code may begin there and run already: it does not flush.
EdgeTargets == {Target[r] : r \in {q \in RelAddrs : AtEnd(q)}}

CacheCoherent ==
    ~flush_pending /\ (\E t \in Threads : Running(t)) =>
        \A b \in Blocks :
            cache[b] # None => Instrumented(b) \subseteq cache[b] \cup EdgeTargets

\* No deferred breakpoint is stranded: while its module is loaded the callback
\* that will activate it is still to come, however loads and unloads interleave
\* with the requests that defer breakpoints.  (addBreakpoint decides to defer
\* before it takes the mutex, and only event_module_loaded looks again.)
NoneStranded ==
    \A r \in RelAddrs :
        deferred_breakpoints[r] # None /\ ModuleOf[r] \in loaded =>
            \E t \in Threads : loading[t] = ModuleOf[r]

\* executeUntilEvent only ever returns an event of its own stopEvents argument,
\* not one that an earlier call was waiting for.
ReplyInStopEvents ==
    reply # None /\ reply.op = "executeUntilEvent" /\ reply.status = "ok" =>
        reply.value \in stop_events

\* What getContext and getCodeBlock read after a stop belongs to one thread's
\* stop: suspend_helper writes the two globals in separate steps.
StopRecordConsistent ==
    Stopped => \/ stopped_context = None /\ stopped_block = None
               \/ /\ stopped_context # None
                  /\ stopped_context.block = stopped_block

\* A thread passes the breakpoint at a and takes one from its count: from 1 the
\* breakpoint is gone, from 0 the count wraps.
CountedByHit(a) ==
    /\ \E t \in Threads : /\ pc[t] = "hit_lock" /\ a \in calls[t]
                          /\ calls' = [calls EXCEPT ![t] = @ \ {a}]
    /\ breakpoints'[a] = IF breakpoints[a] = 1 THEN None
                         ELSE IF breakpoints[a] = 0 THEN CountMod - 1
                         ELSE breakpoints[a] - 1

\* The number of times a breakpoint can still be passed is what clients set less
\* what hits took: a breakpoint that exists changes only by a thread that passes
\* it, by a delBreakpoint that names it, or by an addBreakpoint if its count was
\* 0; no load, flush or other client's edit touches it.
CountsChangeBy ==
    \A a \in Addrs :
        breakpoints[a] \notin {None, breakpoints'[a]} =>
            \/ CountedByHit(a)
            \/ server = "del_lock" /\ resolved = a /\ breakpoints'[a] = None
            \/ server = "add_lock" /\ resolved = a /\ breakpoints[a] = 0
CountsKept == [][CountsChangeBy]_vars

-----------------------------------------------------------------------------
(* Refinement.                                                             *)

\* The program counts as running from the step that forgets the last stop.
Phase == IF Stopped /\ server # "exec_running" THEN "stopped" ELSE "running"

Service == INSTANCE StopService WITH
    Rels <- RelAddrs, Contexts <- Context, phase <- Phase,
    deferred <- deferred_breakpoints, context <- stopped_context, block <- stopped_block

\* The threads, the lock, the deferred suspension and the delayed flush together
\* implement the service: in particular no thread touches the tables or the
\* record of the stop between a reply to executeUntilEvent and the next resume.
ImplementsService == Service!Spec

-----------------------------------------------------------------------------
(* Liveness.                                                               *)

\* A handler no longer has to answer when the process is gone or a failed
\* assertion left the mutex unusable.
Lost == proc # "up" \/ mutex = "broken"

\* Every request but executeUntilEvent gets its answer, whatever the handlers
\* before it, or exceptions thrown by them, did to the mutex.
RequestAnswered ==
    (request # None /\ request.op # "executeUntilEvent") ~> (request = None \/ Lost)

\* executeUntilEvent returns once a thread has an event to stop for: the
\* signal is seen, and every thread, even one blocked on the mutex behind the
\* one that stopped, reaches a point where DynamoRIO can suspend it.
StopCompletes ==
    (server = "exec_wait" /\ \E t \in Threads : pc[t] = "context")
        ~> (server = "idle" \/ Lost)

-----------------------------------------------------------------------------
(* What assertions say, and the code does not keep.                        *)

\* EvaluatorHandler's assertion "Unable to locate stopped context.": when
\* executeUntilEvent has been woken, a thread has recorded its stop.
StopContextRecorded == server = "exec_result" => stopped_context # None

\* event_module_loaded's assertions: a deferred breakpoint resolves to an
\* address of its module when that module loads.
DeferredResolves ==
    \A t \in Threads : pc[t] = "load_lock" =>
        \A r \in DeferredIn(loading[t]) : InModule(r)

=============================================================================
