----------------------- MODULE ConcreteEvalRefinement ------------------------
(***************************************************************************)
(* ConcreteEval implements StopService, for every value of the constants.  *)
(* The steps of a thread are steps of the running program, because none    *)
(* happens while the server is Stopped; everything a handler changes in    *)
(* the tables it changes while the program is stopped, in one step.        *)
(***************************************************************************)
EXTENDS ConcreteEvalProofs

USE DEF tableVars, stopVars, drVars, threadVars, serverVars, otherThanTables, otherThanServer

LEMMA InitService == Init => Service!Init
BY DEF Init, Service!Init, Phase, Stopped

\* A step that leaves the tables and the record alone, and the phase.
LEMMA Stutter ==
    ASSUME UNCHANGED <<breakpoints, deferred_breakpoints, stopped_context, stopped_block>>,
           Phase' = Phase
    PROVE  UNCHANGED Service!vars
BY DEF Service!vars

\* A module's load activates its deferred breakpoints.
LEMMA LoadActivates ==
    ASSUME Typing, NEW t \in Threads, event_module_loaded(t), Phase = "running",
           Phase' = Phase
    PROVE  [Service!Next]_(Service!vars)
<1>1. CASE UNCHANGED tableVars
  BY <1>1, Stutter DEF event_module_loaded
<1>2. CASE /\ breakpoints' = Activated(DeferredIn(loading[t]))
           /\ deferred_breakpoints' =
                 [r \in RelAddrs |-> IF r \in DeferredIn(loading[t]) THEN None
                                     ELSE deferred_breakpoints[r]]
  <2> DEFINE D == DeferredIn(loading[t])
  <2>1. D \in SUBSET RelAddrs /\ \A r \in D : deferred_breakpoints[r] # None
    BY DEF DeferredIn
  <2>2. breakpoints' \in [Addrs -> Service!Count \cup {None}]
    BY <1>2, <2>1, ActivatedType DEF Typing, Service!Count, Count
  <2>3. ASSUME NEW a \in Addrs
        PROVE  \/ breakpoints'[a] = breakpoints[a]
               \/ \E r \in D : breakpoints'[a] = deferred_breakpoints[r]
    <3>1. LastAt(a, D) \subseteq D
      BY DEF LastAt
    <3>2. CASE LastAt(a, D) = {}
      BY <1>2, <3>2 DEF Activated
    <3>3. CASE LastAt(a, D) # {}
      <4>1. (CHOOSE r \in LastAt(a, D) : TRUE) \in D
        BY <3>1, <3>3
      <4>2. breakpoints'[a] = deferred_breakpoints[CHOOSE r \in LastAt(a, D) : TRUE]
        BY <1>2, <3>3 DEF Activated
      <4>3. QED
        BY <4>1, <4>2
    <3>4. QED
      BY <3>2, <3>3
  <2>4. UNCHANGED <<Phase, stopped_context, stopped_block>>
    BY DEF event_module_loaded
  <2>5. Service!Activate(D)
    BY <1>2, <2>1, <2>2, <2>3, <2>4 DEF Service!Activate
  <2>6. QED
    BY <2>1, <2>5 DEF Service!Next
<1>3. QED
  BY <1>1, <1>2 DEF event_module_loaded

\* A clean call counts its breakpoint down, or finds none.
LEMMA CallHits ==
    ASSUME Typing, NEW t \in Threads, update_fastforward_count(t), Phase = "running",
           Phase' = Phase
    PROVE  [Service!Next]_(Service!vars)
<1>1. UNCHANGED <<Phase, deferred_breakpoints, stopped_context, stopped_block>>
  BY DEF update_fastforward_count
<1>2. PICK a \in calls[t] :
         \/ breakpoints' = breakpoints
         \/ /\ breakpoints[a] # None
            /\ Decremented(breakpoints[a]) # 0
            /\ breakpoints' = [breakpoints EXCEPT ![a] = Decremented(@)]
         \/ /\ breakpoints[a] # None
            /\ Decremented(breakpoints[a]) = 0
            /\ breakpoints' = [breakpoints EXCEPT ![a] = None]
  BY DEF update_fastforward_count
<1>3. CASE breakpoints' = breakpoints
  BY <1>1, <1>3, Stutter
<1>4. CASE breakpoints' # breakpoints
  <2>1. a \in Addrs
    BY DEF update_fastforward_count, Typing, TypeOK, ThreadFits, Points
  <2>2. Service!Hit(a)
    BY <1>1, <1>2, <1>4 DEF Service!Hit, Decremented
  <2>3. QED
    BY <2>1, <2>2 DEF Service!Next
<1>5. QED
  BY <1>3, <1>4

LEMMA ThreadImplements ==
    ASSUME Typing, Exclusion, NEW t \in Threads, ThreadStep(t)
    PROVE  [Service!Next]_(Service!vars)
<1>1. Phase = "running" /\ Phase' = Phase
  BY ThreadsStepOnlyRunning DEF Phase, Stopped
<1>2. CASE event_module_loaded(t)
  BY <1>1, <1>2, LoadActivates
<1>3. CASE update_fastforward_count(t)
  BY <1>1, <1>3, CallHits
<1>4. CASE SaveContext(t)
  <2>1. [event |-> event[t], block |-> cur[t]] \in Context
    BY <1>4 DEF SaveContext, Context, Typing, ThreadFits
  <2>2. Service!RecordContext([event |-> event[t], block |-> cur[t]])
    BY <1>1, <1>4 DEF SaveContext, Service!RecordContext
  <2>3. QED
    BY <2>1, <2>2 DEF Service!Next
<1>5. CASE SaveBlock(t)
  <2>1. cur[t] \in Blocks
    BY <1>5 DEF SaveBlock, Typing, ThreadFits
  <2>2. Service!RecordBlock(cur[t])
    BY <1>1, <1>5 DEF SaveBlock, Service!RecordBlock
  <2>3. QED
    BY <2>1, <2>2 DEF Service!Next
<1>6. CASE AppStep(t) \/ SuspendThread(t)
  <2>1. UNCHANGED <<breakpoints, deferred_breakpoints, stopped_context, stopped_block>>
    BY <1>6 DEF AppStep, Spawn, Exit, EnterBlock, LoadModule, UnloadModule, event_exit,
                relevant_block_clean_call, ReachBreakpoint, SuspendThread
  <2>2. QED
    BY <1>1, <2>1, Stutter
<1>7. CASE \/ event_basic_block(t) \/ event_basic_block_unset(t) \/ FlushStale(t)
           \/ SignalSuspender(t) \/ WakeUp(t)
  <2>1. UNCHANGED <<breakpoints, deferred_breakpoints, stopped_context, stopped_block>>
    BY <1>7 DEF event_basic_block, event_basic_block_unset, FlushStale, SignalSuspender, WakeUp
  <2>2. QED
    BY <1>1, <2>1, Stutter
<1>8. QED
  BY <1>2, <1>3, <1>4, <1>5, <1>6, <1>7 DEF ThreadStep, ClientStep

-----------------------------------------------------------------------------
(* The server thread.                                                      *)

\* An edit of the tables is one step of the stopped program, or is refused.
LEMMA EditImplements ==
    ASSUME Typing, addBreakpoint \/ delBreakpoint
    PROVE  [Service!Next]_(Service!vars)
<1>1. Phase = "stopped" /\ Phase' = Phase
  BY DEF addBreakpoint, delBreakpoint, assert_helper, Reply, GoTo, Phase, Stopped
<1>2. UNCHANGED <<stopped_context, stopped_block>>
  BY DEF addBreakpoint, delBreakpoint
<1>3. CASE addBreakpoint
  <2>1. request.count \in Service!Count
    BY <1>3, ArgAssumption DEF addBreakpoint, Typing, RequestFits, Service!Count, Count
  <2>2. CASE UNCHANGED tableVars
    BY <1>1, <1>2, <2>2, Stutter
  <2>3. CASE resolved # None /\ ~UNCHANGED tableVars
    <3>1. resolved \in Addrs
      BY <2>3 DEF Typing, TypeOK
    <3>2. Service!SetBreakpoint(resolved, request.count)
      BY <1>1, <1>2, <1>3, <2>3 DEF addBreakpoint, MayAdd, Service!SetBreakpoint
    <3>3. QED
      BY <2>1, <3>1, <3>2 DEF Service!Next
  <2>4. CASE resolved = None /\ ~UNCHANGED tableVars
    <3>1. request.addr \in RelAddrs
      BY <1>3, <2>4 DEF addBreakpoint, Typing, RequestFits
    <3>2. Service!Defer(request.addr, request.count)
      BY <1>1, <1>2, <1>3, <2>4 DEF addBreakpoint, Service!Defer
    <3>3. QED
      BY <2>1, <3>1, <3>2 DEF Service!Next
  <2>5. QED
    BY <2>2, <2>3, <2>4
<1>4. CASE delBreakpoint
  <2>2. CASE UNCHANGED tableVars
    BY <1>1, <1>2, <2>2, Stutter
  <2>3. CASE resolved # None /\ ~UNCHANGED tableVars
    <3>1. resolved \in Addrs
      BY <2>3 DEF Typing, TypeOK
    <3>2. Service!RemoveBreakpoint(resolved)
      BY <1>1, <1>2, <1>4, <2>3 DEF delBreakpoint, Service!RemoveBreakpoint
    <3>3. QED
      BY <3>1, <3>2 DEF Service!Next
  <2>4. CASE resolved = None /\ ~UNCHANGED tableVars
    <3>1. request.addr \in RelAddrs
      BY <1>4, <2>4 DEF delBreakpoint, Typing, RequestFits
    <3>2. Service!Withdraw(request.addr)
      BY <1>1, <1>2, <1>4, <2>4 DEF delBreakpoint, Service!Withdraw
    <3>3. QED
      BY <3>1, <3>2 DEF Service!Next
  <2>5. QED
    BY <2>2, <2>3, <2>4
<1>5. QED
  BY <1>3, <1>4

LEMMA ServerImplements ==
    ASSUME Typing, ServerStep
    PROVE  [Service!Next]_(Service!vars)
<1> USE DEF Phase, Stopped, Reply, GoTo
<1>1. CASE addBreakpoint \/ delBreakpoint
  BY <1>1, EditImplements
<1>2. CASE \/ SuspendReturns("boot_suspend", "idle")
           \/ SuspendReturns("exec_suspend", "exec_result")
  <2>1. Service!Halt
    BY <1>2 DEF SuspendReturns, Service!Halt
  <2>2. QED
    BY <2>1 DEF Service!Next
<1>3. CASE ExecResume
  <2>1. Service!Go
    BY <1>3 DEF ExecResume, ClearStop, Service!Go
  <2>2. QED
    BY <2>1 DEF Service!Next
<1>4. CASE \E r \in Requests : Receive(r)
  BY <1>4, Stutter DEF Receive, Requests
<1>5. CASE \/ SuspendFails \/ suspend_application_threads("boot", "boot_suspend")
           \/ suspend_application_threads("exec_set", "exec_suspend")
  BY <1>5, Stutter DEF SuspendFails, suspend_application_threads
<1>6. CASE \/ ResolveAddress("addBreakpoint", "add_lock")
           \/ ResolveAddress("delBreakpoint", "del_lock")
           \/ delBreakpoint_flush \/ getBreakpoints \/ getCodeBlock \/ getContext
  BY <1>6, Stutter DEF ResolveAddress, delBreakpoint_flush, getBreakpoints, getCodeBlock,
                       getContext, assert_helper
<1>7. CASE \/ ExecStopEvents \/ ExecCheck \/ ExecFlush \/ ExecRunning \/ ExecUnset
           \/ ExecWait \/ ExecResult
  BY <1>7, Stutter DEF ExecStopEvents, ExecCheck, ExecFlush, ExecRunning, ExecUnset, ExecWait,
                       ExecResult, assert_helper
<1>8. QED
  BY <1>1, <1>2, <1>3, <1>4, <1>5, <1>6, <1>7
  DEF ServerStep, HandlerStep, server_thread, executeUntilEvent

-----------------------------------------------------------------------------

\* The client's threads, locks, deferred suspensions and delayed flushes keep the
\* promise of StopService: between a reply to executeUntilEvent and the next
\* resume, nothing but the client's own edits changes what it can ask about.
THEOREM ServiceImplemented == Spec => ImplementsService
<1>1. Init => Service!Init
  BY InitService
<1>2. Typing /\ Exclusion /\ [Next]_vars => [Service!Next]_(Service!vars)
  <2>1. CASE FlushCache \/ UNCHANGED vars
    BY <2>1, Stutter DEF FlushCache, vars, Phase, Stopped
  <2>2. QED
    BY <2>1, ThreadImplements, ServerImplements DEF Next
<1>3. QED
  BY <1>1, <1>2, TypeCorrect, ExclusionInvariant, PTL
  DEF Spec, ImplementsService, Service!Spec

=============================================================================
