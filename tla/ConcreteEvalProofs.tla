------------------------- MODULE ConcreteEvalProofs --------------------------
(***************************************************************************)
(* Safety of ConcreteEval, for every value of its constants.  The argument *)
(* has one centre: while the server is Stopped no thread is running        *)
(* (Exclusion), because a suspended thread sits where DynamoRIO suspends   *)
(* threads and every step of a thread starts elsewhere or needs it         *)
(* running.  What the handlers rely on without the mutex follows from it.  *)
(***************************************************************************)
EXTENDS ConcreteEvalTyping

USE DEF tableVars, stopVars, drVars, threadVars, serverVars, otherThanTables, otherThanServer

\* Suspended threads are where DynamoRIO can suspend them.
SuspendedFits == \A t \in suspended : pc[t] \in SuspendPoints

Exclusion == HandlerExclusion /\ SuspendedFits

LEMMA InitExclusion == Init => Exclusion
BY DEF Init, Exclusion, HandlerExclusion, SuspendedFits, Stopped

\* The centre: no thread takes a step while the server is Stopped.
LEMMA ThreadsStepOnlyRunning ==
    ASSUME Typing, Exclusion, NEW t \in Threads, ThreadStep(t)
    PROVE  ~Stopped /\ server' = server
<1> USE ThreadAssumption DEF Exclusion, SuspendedFits, Running, Live
<1>1. CASE SuspendThread(t)
  BY <1>1 DEF SuspendThread, Suspending, Stopped
<1>2. ASSUME AppStep(t)
      PROVE  (\E u \in Threads : Running(u)) /\ server' = server
  BY <1>2 DEF AppStep, InCache, Spawn, Exit, EnterBlock, LoadModule, UnloadModule, event_exit,
              relevant_block_clean_call, ReachBreakpoint
<1>3. ASSUME ClientStep(t)
      PROVE  Running(t) /\ server' = server
  <2>1. server' = server
    BY <1>3 DEF ClientStep, event_basic_block, event_basic_block_unset, event_module_loaded,
                update_fastforward_count, FlushStale, SaveContext, SaveBlock,
                SignalSuspender, WakeUp
  <2>2. CASE WakeUp(t)
    BY <2>1, <2>2 DEF WakeUp
  <2>3. CASE ~WakeUp(t)
    <3>1. pc[t] \in {"bb_lock", "load_lock", "hit_lock", "stale", "context", "block", "signal"}
      BY <1>3, <2>3 DEF ClientStep, event_basic_block, event_basic_block_unset,
                  event_module_loaded, update_fastforward_count, FlushStale, SaveContext,
                  SaveBlock, SignalSuspender
    <3>2. QED
      BY <2>1, <3>1
  <2>4. QED
    BY <2>2, <2>3
<1>4. QED
  BY <1>1, <1>2, <1>3 DEF ThreadStep, HandlerExclusion

\* What a thread's step does to positions and suspensions.
LEMMA ThreadStepFrame ==
    ASSUME Typing, Exclusion, NEW t \in Threads, ThreadStep(t)
    PROVE  /\ \A u \in Threads \ {t} : pc'[u] = pc[u]
           /\ \/ suspended' = suspended /\ t \notin suspended
              \/ suspended' = suspended /\ pc' = pc
              \/ suspended' = suspended \cup {t} /\ pc' = pc /\ pc[t] \in SuspendPoints
<1> USE ThreadAssumption DEF Typing, TypeOK, Exclusion, SuspendedFits, Running, Live
<1>1. CASE SuspendThread(t)
  BY <1>1 DEF SuspendThread
<1>2. CASE AppStep(t)
  BY <1>2 DEF AppStep, InCache, Spawn, Exit, EnterBlock, LoadModule, UnloadModule, event_exit,
              relevant_block_clean_call, ReachBreakpoint
<1>3. CASE ClientStep(t)
  BY <1>3 DEF ClientStep, event_basic_block, event_basic_block_unset, event_module_loaded,
              update_fastforward_count, FlushStale, SaveContext, SaveBlock,
              SignalSuspender, WakeUp
<1>4. QED
  BY <1>1, <1>2, <1>3 DEF ThreadStep

LEMMA ServerExclusion ==
    ASSUME Typing, Exclusion, ServerStep
    PROVE  Exclusion'
<1> USE DEF Exclusion, HandlerExclusion, SuspendedFits, Stopped, Running, Live, Reply, GoTo
<1>1. CASE \E r \in Requests : Receive(r)
  BY <1>1 DEF Receive, Requests
<1>2. CASE server_thread \/ SuspendFails
  BY <1>2 DEF server_thread, suspend_application_threads, SuspendReturns, AllSuspended,
              SuspendFails
<1>3. CASE \/ ResolveAddress("addBreakpoint", "add_lock")
           \/ ResolveAddress("delBreakpoint", "del_lock")
  BY <1>3 DEF ResolveAddress
<1>4. CASE addBreakpoint \/ delBreakpoint \/ delBreakpoint_flush
  BY <1>4 DEF addBreakpoint, delBreakpoint, delBreakpoint_flush, assert_helper
<1>5. CASE getBreakpoints \/ getCodeBlock \/ getContext
  BY <1>5 DEF getBreakpoints, getCodeBlock, getContext, assert_helper
<1>6. CASE executeUntilEvent
  <2>1. CASE ExecStopEvents \/ ExecCheck \/ ExecFlush \/ ExecResume
    BY <2>1 DEF ExecStopEvents, ExecCheck, ExecFlush, ExecResume, assert_helper
  <2>2. CASE ExecRunning \/ ExecUnset \/ ExecWait
    BY <2>2 DEF ExecRunning, StillSuspended, ExecUnset, ExecWait
  <2>3. CASE suspend_application_threads("exec_set", "exec_suspend")
    BY <2>3 DEF suspend_application_threads
  <2>4. CASE SuspendReturns("exec_suspend", "exec_result")
    BY <2>4 DEF SuspendReturns, AllSuspended
  <2>5. CASE ExecResult
    BY <2>5 DEF ExecResult
  <2>6. QED
    BY <1>6, <2>1, <2>2, <2>3, <2>4, <2>5 DEF executeUntilEvent
<1>7. QED
  BY <1>1, <1>2, <1>3, <1>4, <1>5, <1>6 DEF ServerStep, HandlerStep

LEMMA NextExclusion ==
    ASSUME Typing, Exclusion, [Next]_vars
    PROVE  Exclusion'
<1>1. ASSUME NEW t \in Threads, ThreadStep(t)
      PROVE  Exclusion'
  <2>1. HandlerExclusion'
    BY <1>1, ThreadsStepOnlyRunning DEF HandlerExclusion, Stopped
  <2>2. SuspendedFits'
    BY <1>1, ThreadStepFrame DEF Exclusion, SuspendedFits, Typing, TypeOK
  <2>3. QED
    BY <2>1, <2>2 DEF Exclusion
<1>2. CASE FlushCache
  BY <1>2 DEF FlushCache, Exclusion, HandlerExclusion, SuspendedFits, Stopped, Running, Live
<1>3. CASE UNCHANGED vars
  BY <1>3 DEF vars, Exclusion, HandlerExclusion, SuspendedFits, Stopped, Running, Live
<1>4. QED
  BY <1>1, <1>2, <1>3, ServerExclusion DEF Next

\* The inductive form of the next theorem.
THEOREM ExclusionInvariant == Spec => []Exclusion
<1>1. Init => Exclusion
  BY InitExclusion
<1>2. Typing /\ Exclusion /\ [Next]_vars => Exclusion'
  BY NextExclusion
<1>3. QED
  BY <1>1, <1>2, TypeCorrect, PTL DEF Spec

\* No application thread can take a step while the server thread is outside the
\* stretch of executeUntilEvent, or of the start, in which the application runs.
THEOREM HandlerExclusionHolds == Spec => []HandlerExclusion
<1>1. Exclusion => HandlerExclusion
  BY DEF Exclusion
<1>2. QED
  BY <1>1, ExclusionInvariant, PTL

-----------------------------------------------------------------------------
(* The edits' address resolution.                                          *)

\* loaded changes only when a thread runs, and the request only with server.
LEMMA NextResolved ==
    ASSUME Typing, Exclusion, ResolvedStillCurrent, [Next]_vars
    PROVE  ResolvedStillCurrent'
<1> USE DEF ResolvedStillCurrent, Resolve, Reply, GoTo
<1>1. ASSUME NEW t \in Threads, ThreadStep(t)
      PROVE  ResolvedStillCurrent'
  BY <1>1, ThreadsStepOnlyRunning DEF Stopped
<1>2. CASE FlushCache \/ UNCHANGED vars
  BY <1>2 DEF FlushCache, vars
<1>3. CASE \E r \in Requests : Receive(r)
  BY <1>3 DEF Receive, Requests
<1>4. CASE server_thread \/ SuspendFails
  BY <1>4 DEF server_thread, suspend_application_threads, SuspendReturns, SuspendFails
<1>5. CASE \/ ResolveAddress("addBreakpoint", "add_lock")
           \/ ResolveAddress("delBreakpoint", "del_lock")
  BY <1>5 DEF ResolveAddress
<1>6. CASE \/ addBreakpoint \/ delBreakpoint \/ delBreakpoint_flush
           \/ getBreakpoints \/ getCodeBlock \/ getContext
  BY <1>6 DEF addBreakpoint, delBreakpoint, delBreakpoint_flush, assert_helper,
              getBreakpoints, getCodeBlock, getContext
<1>7. CASE executeUntilEvent
  BY <1>7 DEF executeUntilEvent, ExecStopEvents, ExecCheck, ExecFlush, ExecResume,
              ExecRunning, ExecUnset, ExecWait, suspend_application_threads,
              SuspendReturns, ExecResult, assert_helper
<1>8. QED
  BY <1>1, <1>2, <1>3, <1>4, <1>5, <1>6, <1>7 DEF Next, ServerStep, HandlerStep

\* An edit uses what resolving the address would give at that moment, although
\* it resolved it before it took the mutex.
THEOREM ResolvedStillCurrentHolds == Spec => []ResolvedStillCurrent
<1>1. Init => ResolvedStillCurrent
  BY DEF Init, ResolvedStillCurrent
<1>2. Typing /\ Exclusion /\ ResolvedStillCurrent /\ [Next]_vars => ResolvedStillCurrent'
  BY NextResolved
<1>3. QED
  BY <1>1, <1>2, TypeCorrect, ExclusionInvariant, PTL DEF Spec

-----------------------------------------------------------------------------
(* The suspension record, in a build with assertions.                      *)

\* The four steps around a suspension are in the right order.
ParamsInv ==
    /\ SuspendParamsSet
    /\ Suspending => suspend_params
    /\ server = "exec_unset" => suspended = {}

LEMMA NextParams ==
    ASSUME ~NDEBUG, Typing, Exclusion, ParamsInv, [Next]_vars
    PROVE  ParamsInv'
<1> USE DEF ParamsInv, SuspendParamsSet, Suspending, Reply, GoTo
<1>1. ASSUME NEW t \in Threads, SuspendThread(t)
      PROVE  ParamsInv'
  BY <1>1 DEF SuspendThread
<1>2. ASSUME NEW t \in Threads, AppStep(t) \/ ClientStep(t)
      PROVE  ParamsInv'
  BY <1>2 DEF AppStep, Spawn, Exit, EnterBlock, LoadModule, UnloadModule, event_exit,
              relevant_block_clean_call, ReachBreakpoint,
              ClientStep, event_basic_block, event_basic_block_unset, event_module_loaded,
              update_fastforward_count, FlushStale, SaveContext, SaveBlock,
              SignalSuspender, WakeUp
<1>3. CASE FlushCache \/ UNCHANGED vars
  BY <1>3 DEF FlushCache, vars
<1>4. CASE \E r \in Requests : Receive(r)
  BY <1>4 DEF Receive, Requests
<1>5. CASE server_thread \/ SuspendFails
  BY <1>5 DEF server_thread, suspend_application_threads, SuspendReturns, SuspendFails
<1>6. CASE \/ ResolveAddress("addBreakpoint", "add_lock") \/ addBreakpoint
           \/ ResolveAddress("delBreakpoint", "del_lock") \/ delBreakpoint
           \/ delBreakpoint_flush \/ getBreakpoints \/ getCodeBlock \/ getContext
  BY <1>6 DEF ResolveAddress, addBreakpoint, delBreakpoint, delBreakpoint_flush,
              assert_helper, getBreakpoints, getCodeBlock, getContext
<1>7. CASE executeUntilEvent
  BY <1>7 DEF executeUntilEvent, ExecStopEvents, ExecCheck, ExecFlush, ExecResume,
              ExecRunning, StillSuspended, ExecUnset, ExecWait, suspend_application_threads,
              SuspendReturns, ExecResult, assert_helper
<1>8. QED
  BY <1>1, <1>2, <1>3, <1>4, <1>5, <1>6, <1>7 DEF Next, ThreadStep, ServerStep, HandlerStep

\* Unless the build drops assertions, suspend_params is engaged whenever any
\* thread is suspended.
THEOREM SuspendParamsSetHolds == ~NDEBUG => (Spec => []SuspendParamsSet)
<1> SUFFICES ASSUME ~NDEBUG
             PROVE  Spec => []SuspendParamsSet
  OBVIOUS
<1>1. Init => ParamsInv
  BY DEF Init, ParamsInv, SuspendParamsSet, Suspending
<1>2. Typing /\ Exclusion /\ ParamsInv /\ [Next]_vars => ParamsInv'
  BY NextParams
<1>3. ParamsInv => SuspendParamsSet
  BY DEF ParamsInv
<1>4. QED
  BY <1>1, <1>2, <1>3, TypeCorrect, ExclusionInvariant, PTL DEF Spec

-----------------------------------------------------------------------------
(* The mutex.                                                              *)

\* A thread that owns the mutex between two steps is stopping for a breakpoint;
\* the server owns it between two steps only in delBreakpoint.
MutexInv ==
    /\ \A t \in Threads : mutex = t =>
          pc[t] \in {"context", "block", "signal", "sleep"} /\ event[t] = "Breakpoint"
    /\ mutex = "server" => server = "del_flush"

LEMMA NextMutex ==
    ASSUME Typing, Exclusion, MutexInv, [Next]_vars
    PROVE  MutexInv'
<1> USE ThreadAssumption DEF MutexInv, Reply, GoTo
<1>1. ASSUME NEW t \in Threads, AppStep(t) \/ SuspendThread(t)
      PROVE  MutexInv'
  <2>1. /\ mutex' = mutex
        /\ server' = server
        /\ \A u \in Threads : pc[u] \notin {"unborn", "cache"} => pc'[u] = pc[u] /\ event'[u] = event[u]
    BY <1>1 DEF AppStep, InCache, Spawn, Exit, EnterBlock, LoadModule, UnloadModule, event_exit,
                relevant_block_clean_call, ReachBreakpoint, SuspendThread, Typing, TypeOK
  <2>2. QED
    BY <2>1
<1>2. ASSUME NEW t \in Threads, ClientStep(t)
      PROVE  MutexInv'
  <2>1. CASE event_basic_block(t) \/ event_basic_block_unset(t) \/ event_module_loaded(t)
    BY <1>2, <2>1 DEF event_basic_block, event_basic_block_unset, event_module_loaded
  <2>2. CASE update_fastforward_count(t)
    BY <2>2 DEF update_fastforward_count, HoldMutex, Typing, TypeOK
  <2>3. CASE FlushStale(t) \/ SaveContext(t) \/ SaveBlock(t) \/ SignalSuspender(t)
    BY <2>3 DEF FlushStale, SaveContext, SaveBlock, SignalSuspender, Typing, TypeOK
  <2>4. CASE WakeUp(t)
    BY <2>4 DEF WakeUp, Unlock, Typing, TypeOK
  <2>5. QED
    BY <1>2, <2>1, <2>2, <2>3, <2>4 DEF ClientStep
<1>3. CASE FlushCache \/ UNCHANGED vars
  BY <1>3 DEF FlushCache, vars
<1>4. CASE \E r \in Requests : Receive(r)
  BY <1>4 DEF Receive, Requests
<1>5. CASE server_thread \/ SuspendFails
  BY <1>5 DEF server_thread, suspend_application_threads, SuspendReturns, SuspendFails
<1>6. CASE \/ ResolveAddress("addBreakpoint", "add_lock") \/ addBreakpoint
           \/ ResolveAddress("delBreakpoint", "del_lock") \/ delBreakpoint
           \/ delBreakpoint_flush \/ getBreakpoints \/ getCodeBlock \/ getContext
  BY <1>6 DEF ResolveAddress, addBreakpoint, delBreakpoint, delBreakpoint_flush,
              assert_helper, getBreakpoints, getCodeBlock, getContext
<1>7. CASE executeUntilEvent
  BY <1>7 DEF executeUntilEvent, ExecStopEvents, ExecCheck, ExecRelease, ExecFlush, ExecResume,
              ExecRunning, ExecUnset, ExecWait, suspend_application_threads,
              SuspendReturns, ExecResult, UnlockNotOwned, assert_helper
<1>8. QED
  BY <1>1, <1>2, <1>3, <1>4, <1>5, <1>6, <1>7 DEF Next, ThreadStep, ServerStep, HandlerStep

\* If DynamoRIO suspends threads only in the code cache, a server ready for a
\* request finds the mutex held by nobody.
THEOREM StoppedMutexFreeHolds == SuspendPoints = {"cache"} => (Spec => []StoppedMutexFree)
<1> SUFFICES ASSUME SuspendPoints = {"cache"}
             PROVE  Spec => []StoppedMutexFree
  OBVIOUS
<1>1. Init => MutexInv
  BY ThreadAssumption DEF Init, MutexInv
<1>2. Typing /\ Exclusion /\ MutexInv /\ [Next]_vars => MutexInv'
  BY NextMutex
<1>3. Exclusion /\ MutexInv => StoppedMutexFree
  BY DEF Exclusion, HandlerExclusion, SuspendedFits, MutexInv, StoppedMutexFree, Stopped,
         Running, Live
<1>4. QED
  BY <1>1, <1>2, <1>3, TypeCorrect, ExclusionInvariant, PTL DEF Spec

-----------------------------------------------------------------------------
(* The code cache, in a build with assertions.                             *)

Coherent ==
    \A b \in Blocks : cache[b] # None => Instrumented(b) \subseteq cache[b] \cup EdgeTargets

\* The stretch in which the tables and stop_events are those the threads run
\* under: from the flush of executeUntilEvent to its end, and the start.
AppStretch ==
    server \in {"boot", "boot_suspend", "exec_resume", "exec_running", "exec_unset",
                "exec_wait", "exec_set", "exec_suspend"}

\* A block has a fragment, or is getting one, only if its module's load event
\* is over: so activating breakpoints there makes no fragment incomplete.
LoadedFirst ==
    \A b \in Blocks :
        (cache[b] # None \/ \E t \in Threads : pc[t] = "bb_lock" /\ cur[t] = b) =>
            /\ AddrModule[b[1]] # None => AddrModule[b[1]] \in loaded
            /\ \A t \in Threads : pc[t] = "load_lock" => loading[t] # AddrModule[b[1]]

CacheInv ==
    /\ AppStretch /\ ~flush_pending => Coherent
    /\ LoadedFirst
    /\ \A t \in Threads : pc[t] = "load_lock" => loading[t] \in loaded

\* Steps that leave the tables, the cache and the events to stop for alone, and
\* no thread about to build a fragment or to report a module.
LEMMA FrameCache ==
    ASSUME Typing, CacheInv,
           UNCHANGED <<breakpoints, stop_events, cache, loaded>>,
           flush_pending => flush_pending',
           AppStretch' => AppStretch \/ flush_pending',
           \A t \in Threads : pc'[t] \in {"bb_lock", "load_lock"} =>
               pc'[t] = pc[t] /\ cur'[t] = cur[t] /\ loading'[t] = loading[t]
    PROVE  CacheInv'
<1>1. Coherent' = Coherent
  BY DEF Coherent, Instrumented, StopsFor
<1>2. LoadedFirst'
  BY DEF CacheInv, LoadedFirst
<1>3. QED
  BY <1>1, <1>2 DEF CacheInv

LEMMA AppCache ==
    ASSUME Typing, Exclusion, CacheInv, NEW t \in Threads, AppStep(t) \/ SuspendThread(t)
    PROVE  CacheInv'
<1> USE DEF Typing, TypeOK, InCache
<1>1. CASE \/ Spawn(t) \/ Exit(t) \/ event_exit(t)
           \/ ReachBreakpoint(t) \/ relevant_block_clean_call(t)
  BY <1>1, FrameCache DEF Spawn, Exit, event_exit, ReachBreakpoint,
                          relevant_block_clean_call, AppStretch
<1>2. CASE SuspendThread(t)
  BY <1>2, FrameCache DEF SuspendThread, AppStretch
<1>3. ASSUME NEW b \in Blocks, EnterBlock(t, b)
      PROVE  CacheInv'
  <2>1. Coherent' = Coherent
    BY <1>3 DEF EnterBlock, Coherent, Instrumented, StopsFor
  <2>2. LoadedFirst'
    BY <1>3, AddrAssumption DEF EnterBlock, CacheInv, LoadedFirst, Executable, ThreadFits
  <2>3. QED
    BY <1>3, <2>1, <2>2 DEF EnterBlock, CacheInv, AppStretch
<1>4. ASSUME NEW m \in Modules, LoadModule(t, m)
      PROVE  CacheInv'
  <2>1. Coherent' = Coherent
    BY <1>4 DEF LoadModule, Coherent, Instrumented, StopsFor
  <2>2. LoadedFirst'
    BY <1>4, AddrAssumption DEF LoadModule, CacheInv, LoadedFirst
  <2>3. QED
    BY <1>4, <2>1, <2>2 DEF LoadModule, CacheInv, AppStretch
<1>5. ASSUME NEW m \in Modules, UnloadModule(t, m)
      PROVE  CacheInv'
  <2>1. Coherent => Coherent'
    <3>1. \A b \in Blocks : cache'[b] # None => cache'[b] = cache[b]
      BY <1>5 DEF UnloadModule
    <3>2. UNCHANGED <<breakpoints, stop_events>>
      BY <1>5 DEF UnloadModule
    <3>3. QED
      BY <3>1, <3>2 DEF Coherent, Instrumented, StopsFor
  <2>2. \A u \in Threads : pc[u] = "bb_lock" => AddrModule[cur[u][1]] # m
    BY <1>5, AddrAssumption DEF UnloadModule, Executing, ThreadFits
  <2>3. LoadedFirst'
    BY <1>5, <2>2 DEF UnloadModule, CacheInv, LoadedFirst
  <2>4. QED
    BY <1>5, <2>1, <2>3 DEF UnloadModule, CacheInv, AppStretch
<1>6. QED
  BY <1>1, <1>2, <1>3, <1>4, <1>5 DEF AppStep

LEMMA ClientCache ==
    ASSUME ~NDEBUG, Typing, Exclusion, CacheInv, NEW t \in Threads, ClientStep(t)
    PROVE  CacheInv'
<1> USE DEF Typing, TypeOK
<1>1. CASE event_basic_block(t)
  <2>1. cur[t] \in Blocks
    BY <1>1 DEF event_basic_block, ThreadFits
  <2>2. Coherent => Coherent'
    BY <1>1, <2>1 DEF event_basic_block, Coherent, Instrumented, StopsFor
  <2>3. LoadedFirst'
    BY <1>1, <2>1 DEF event_basic_block, CacheInv, LoadedFirst
  <2>4. QED
    BY <1>1, <2>2, <2>3 DEF event_basic_block, CacheInv, AppStretch
<1>2. CASE event_module_loaded(t)
  <2>1. CASE UNCHANGED <<tableVars, pc, loading>>
    BY <1>2, <2>1, FrameCache DEF event_module_loaded, AppStretch
  <2>2. CASE /\ \A r \in DeferredIn(loading[t]) : InModule(r)
             /\ breakpoints' = Activated(DeferredIn(loading[t]))
             /\ pc' = [pc EXCEPT ![t] = "cache"]
             /\ loading' = [loading EXCEPT ![t] = None]
    <3>1. \A a \in Addrs \ EdgeTargets :
             AddrModule[a] # loading[t] => breakpoints'[a] = breakpoints[a]
      BY <2>2 DEF Activated, LastAt, InModule, DeferredIn, EdgeTargets
    <3>2. \A b \in Blocks :
             cache[b] # None => Instrumented(b)' \subseteq Instrumented(b) \cup EdgeTargets
      BY <1>2, <3>1, BlockAssumption DEF event_module_loaded, CacheInv, LoadedFirst,
                                         Instrumented, Instrs, StopsFor
    <3>3. Coherent => Coherent'
      BY <1>2, <3>2 DEF event_module_loaded, Coherent
    <3>4. LoadedFirst'
      BY <1>2, <2>2 DEF event_module_loaded, CacheInv, LoadedFirst
    <3>5. QED
      BY <1>2, <2>2, <3>3, <3>4 DEF event_module_loaded, CacheInv, AppStretch
  <2>3. QED
    BY <1>2, <2>1, <2>2 DEF event_module_loaded
<1>3. CASE update_fastforward_count(t)
  <2>1. PICK hit \in calls[t] :
           \/ breakpoints' = breakpoints
           \/ /\ breakpoints[hit] # None
              /\ breakpoints' = [breakpoints EXCEPT ![hit] = Decremented(breakpoints[hit])]
           \/ breakpoints' = [breakpoints EXCEPT ![hit] = None]
    BY <1>3 DEF update_fastforward_count
  <2>5. \A a \in Addrs : breakpoints'[a] # None => breakpoints[a] # None
    BY <2>1
  <2>2. Coherent => Coherent'
    BY <1>3, <2>5 DEF update_fastforward_count, Coherent, Instrumented, Instrs, StopsFor
  <2>3. LoadedFirst'
    BY <1>3 DEF update_fastforward_count, CacheInv, LoadedFirst
  <2>4. QED
    BY <1>3, <2>2, <2>3 DEF update_fastforward_count, CacheInv, AppStretch
<1>4. CASE event_basic_block_unset(t) \/ FlushStale(t)
  BY <1>4, FrameCache DEF event_basic_block_unset, FlushStale, total_flush, AppStretch
<1>5. CASE SaveContext(t) \/ SaveBlock(t) \/ SignalSuspender(t) \/ WakeUp(t)
  BY <1>5, FrameCache DEF SaveContext, SaveBlock, SignalSuspender, WakeUp, AppStretch
<1>6. QED
  BY <1>1, <1>2, <1>3, <1>4, <1>5 DEF ClientStep

\* The server's steps matter only where they change what the threads run under:
\* always outside the stretch, which is entered through the flush.
LEMMA ServerCache ==
    ASSUME ~NDEBUG, Typing, Exclusion, CacheInv, ServerStep
    PROVE  CacheInv'
<1> USE DEF AppStretch, Reply, GoTo
<1>1. CASE \/ \E r \in Requests : Receive(r)
           \/ server_thread \/ SuspendFails
           \/ ResolveAddress("addBreakpoint", "add_lock")
           \/ ResolveAddress("delBreakpoint", "del_lock")
           \/ getBreakpoints \/ getCodeBlock \/ getContext
  BY <1>1, FrameCache DEF Receive, Requests, server_thread, suspend_application_threads,
       SuspendReturns, SuspendFails, ResolveAddress, getBreakpoints, getCodeBlock, getContext,
       assert_helper
<1>2. CASE addBreakpoint \/ delBreakpoint \/ delBreakpoint_flush \/ ExecStopEvents
  <2>1. LoadedFirst'
    BY <1>2 DEF CacheInv, LoadedFirst, addBreakpoint, delBreakpoint, delBreakpoint_flush,
                ExecStopEvents
  <2>2. QED
    BY <1>2, <2>1 DEF CacheInv, addBreakpoint, delBreakpoint, delBreakpoint_flush,
                ExecStopEvents, assert_helper
<1>3. CASE ExecFlush
  BY <1>3, FrameCache DEF ExecFlush, total_flush
<1>4. CASE \/ ExecCheck \/ ExecResume \/ ExecRunning \/ ExecUnset \/ ExecWait \/ ExecResult
           \/ suspend_application_threads("exec_set", "exec_suspend")
           \/ SuspendReturns("exec_suspend", "exec_result")
  BY <1>4, FrameCache DEF ExecCheck, ExecResume, ExecRunning, ExecUnset, ExecWait,
       ExecResult, suspend_application_threads, SuspendReturns, assert_helper
<1>5. QED
  BY <1>1, <1>2, <1>3, <1>4 DEF ServerStep, HandlerStep, executeUntilEvent

LEMMA NextCache ==
    ASSUME ~NDEBUG, Typing, Exclusion, CacheInv, [Next]_vars
    PROVE  CacheInv'
<1>1. CASE FlushCache
  <2>1. \A b \in Blocks : cache'[b] = None
    BY <1>1 DEF FlushCache
  <2>2. Coherent' /\ LoadedFirst'
    BY <1>1, <2>1 DEF FlushCache, CacheInv, LoadedFirst, Coherent
  <2>3. QED
    BY <1>1, <2>2 DEF FlushCache, CacheInv
<1>2. CASE UNCHANGED vars
  BY <1>2, FrameCache DEF vars, AppStretch
<1>3. QED
  BY <1>1, <1>2, AppCache, ClientCache, ServerCache DEF Next, ThreadStep

\* Unless the build drops assertions, a thread that runs while no flush is
\* outstanding finds every breakpoint and every relevant block instrumented.
THEOREM CacheCoherentHolds == ~NDEBUG => (Spec => []CacheCoherent)
<1> SUFFICES ASSUME ~NDEBUG
             PROVE  Spec => []CacheCoherent
  OBVIOUS
<1>1. Init => CacheInv
  BY DEF Init, CacheInv, Coherent, LoadedFirst
<1>2. Typing /\ Exclusion /\ CacheInv /\ [Next]_vars => CacheInv'
  BY NextCache
<1>3. Exclusion /\ Typing /\ CacheInv => CacheCoherent
  BY DEF Exclusion, HandlerExclusion, Typing, TypeOK, ServerPC, CacheInv, CacheCoherent,
         AppStretch, Stopped, Coherent
<1>4. QED
  BY <1>1, <1>2, <1>3, TypeCorrect, ExclusionInvariant, PTL DEF Spec

=============================================================================
