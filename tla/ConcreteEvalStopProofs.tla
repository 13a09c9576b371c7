----------------------- MODULE ConcreteEvalStopProofs ------------------------
(***************************************************************************)
(* What clients of ConcreteEval learn and keep, for every value of its     *)
(* constants: no deferred breakpoint is stranded, executeUntilEvent        *)
(* returns only events it was asked for, and the record of a stop is one   *)
(* thread's.  All of it rests on Exclusion: a step of a thread and the     *)
(* server's work outside the running stretch never mix.                    *)
(***************************************************************************)
EXTENDS ConcreteEvalProofs

USE DEF tableVars, stopVars, drVars, threadVars, serverVars, otherThanTables, otherThanServer

-----------------------------------------------------------------------------
(* Deferred breakpoints.                                                   *)

\* A module is being reported only by a thread that is in the callback.
Awaited ==
    /\ NoneStranded
    /\ \A t \in Threads : loading[t] # None => pc[t] = "load_lock"

\* Steps that defer nothing, load nothing and report nothing.
LEMMA FrameAwaited ==
    ASSUME Awaited, UNCHANGED <<deferred_breakpoints, loaded, loading>>,
           \A t \in Threads : pc[t] = "load_lock" => pc'[t] = "load_lock"
    PROVE  Awaited'
BY DEF Awaited, NoneStranded

LEMMA ThreadAwaited ==
    ASSUME Typing, Awaited, NEW t \in Threads, ThreadStep(t)
    PROVE  Awaited'
<1> USE DEF Typing, TypeOK, InCache
<1>1. CASE \/ Spawn(t) \/ Exit(t) \/ event_exit(t) \/ SuspendThread(t)
           \/ relevant_block_clean_call(t) \/ ReachBreakpoint(t)
  BY <1>1, FrameAwaited DEF Spawn, Exit, event_exit, SuspendThread,
                            relevant_block_clean_call, ReachBreakpoint
<1>2. ASSUME NEW b \in Blocks, EnterBlock(t, b)
      PROVE  Awaited'
  BY <1>2, FrameAwaited DEF EnterBlock
<1>3. ASSUME NEW m \in Modules, LoadModule(t, m)
      PROVE  Awaited'
  <2>1. loading[t] = None
    BY <1>3 DEF LoadModule, Awaited
  <2>2. /\ \A u \in Threads \ {t} : loading'[u] = loading[u] /\ pc'[u] = pc[u]
        /\ loading'[t] = m
        /\ pc'[t] = "load_lock"
    BY <1>3 DEF LoadModule
  <2>3. loaded' = loaded \cup {m} /\ deferred_breakpoints' = deferred_breakpoints
    BY <1>3 DEF LoadModule
  <2>4. ModuleOf \in [RelAddrs -> Modules] /\ None \notin Modules
    BY RelAssumption, AddrAssumption
  <2>5. NoneStranded'
    BY <2>1, <2>2, <2>3, <2>4 DEF Awaited, NoneStranded
  <2>6. QED
    BY <2>2, <2>5 DEF Awaited
<1>4. ASSUME NEW m \in Modules, UnloadModule(t, m)
      PROVE  Awaited'
  BY <1>4 DEF UnloadModule, Awaited, NoneStranded
<1>5. CASE event_module_loaded(t)
  <2>1. CASE UNCHANGED <<tableVars, pc, loading>>
    BY <1>5, <2>1, FrameAwaited DEF event_module_loaded
  <2>2. CASE /\ deferred_breakpoints' =
                   [r \in RelAddrs |-> IF r \in DeferredIn(loading[t]) THEN None
                                       ELSE deferred_breakpoints[r]]
             /\ pc' = [pc EXCEPT ![t] = "cache"]
             /\ loading' = [loading EXCEPT ![t] = None]
    <3>1. loaded' = loaded
      BY <1>5 DEF event_module_loaded
    <3>2. ASSUME NEW r \in RelAddrs, deferred_breakpoints'[r] # None, ModuleOf[r] \in loaded
          PROVE  \E u \in Threads : loading'[u] = ModuleOf[r]
      <4>1. deferred_breakpoints[r] # None /\ ModuleOf[r] # loading[t]
        BY <2>2, <3>2 DEF DeferredIn
      <4>2. PICK u \in Threads : loading[u] = ModuleOf[r]
        BY <3>2, <4>1 DEF Awaited, NoneStranded
      <4>3. loading'[u] = loading[u]
        BY <2>2, <4>1, <4>2
      <4>4. QED
        BY <4>2, <4>3
    <3>3. NoneStranded'
      BY <3>1, <3>2 DEF NoneStranded
    <3>4. QED
      BY <2>2, <3>3 DEF Awaited
  <2>3. QED
    BY <1>5, <2>1, <2>2 DEF event_module_loaded
<1>6. CASE event_basic_block(t) \/ event_basic_block_unset(t) \/ FlushStale(t)
  BY <1>6, FrameAwaited DEF event_basic_block, event_basic_block_unset, FlushStale
<1>7. CASE update_fastforward_count(t)
  BY <1>7, FrameAwaited DEF update_fastforward_count
<1>8. CASE SaveContext(t) \/ SaveBlock(t) \/ SignalSuspender(t) \/ WakeUp(t)
  BY <1>8, FrameAwaited DEF SaveContext, SaveBlock, SignalSuspender, WakeUp
<1>9. QED
  BY <1>1, <1>2, <1>3, <1>4, <1>5, <1>6, <1>7, <1>8 DEF ThreadStep, ClientStep, AppStep

\* addBreakpoint defers only what does not resolve at that moment.
LEMMA ServerAwaited ==
    ASSUME Typing, ResolvedStillCurrent, Awaited, ServerStep
    PROVE  Awaited'
<1>1. CASE addBreakpoint
  <2>1. UNCHANGED <<loaded, loading, pc>>
    BY <1>1 DEF addBreakpoint
  <2>2. CASE deferred_breakpoints' = deferred_breakpoints
    BY <2>1, <2>2, FrameAwaited
  <2>3. CASE deferred_breakpoints' # deferred_breakpoints
    <3>1. /\ resolved = None /\ server = "add_lock"
          /\ deferred_breakpoints' =
                [deferred_breakpoints EXCEPT ![request.addr] = request.count]
      BY <1>1, <2>3 DEF addBreakpoint
    <3>2. request.addr \in RelAddrs /\ Resolve(request.addr) = None
      BY <3>1 DEF Typing, RequestFits, ResolvedStillCurrent
    <3>3. ModuleOf[request.addr] \notin loaded
      <4>1. request.addr \notin Addrs /\ request.addr # None
        BY <3>2, RelAssumption
      <4>2. Target[request.addr] # None
        BY <3>2, RelAssumption
      <4>3. QED
        BY <3>2, <4>1, <4>2 DEF Resolve
    <3>4. \A r \in RelAddrs \ {request.addr} :
             deferred_breakpoints'[r] = deferred_breakpoints[r]
      BY <3>1 DEF Typing, TypeOK
    <3>5. NoneStranded'
      BY <2>1, <3>3, <3>4 DEF Awaited, NoneStranded
    <3>6. QED
      BY <2>1, <3>5 DEF Awaited
  <2>4. QED
    BY <2>2, <2>3
<1>2. CASE delBreakpoint
  <2>1. UNCHANGED <<loaded, loading, pc>>
    BY <1>2 DEF delBreakpoint
  <2>2. \A r \in RelAddrs : deferred_breakpoints'[r] # None => deferred_breakpoints[r] # None
    BY <1>2 DEF delBreakpoint, Typing, TypeOK
  <2>3. QED
    BY <2>1, <2>2 DEF Awaited, NoneStranded
<1>3. CASE ~addBreakpoint /\ ~delBreakpoint
  <2>1. UNCHANGED <<deferred_breakpoints, loaded, loading, pc>>
    BY <1>3 DEF ServerStep, HandlerStep, server_thread, executeUntilEvent, Receive, SuspendFails,
         ResolveAddress, delBreakpoint_flush, getBreakpoints, getCodeBlock, getContext,
         suspend_application_threads, SuspendReturns, ExecStopEvents, ExecCheck, ExecFlush,
         ExecResume, ExecRunning, ExecUnset, ExecWait, ExecResult
  <2>2. QED
    BY <2>1, FrameAwaited
<1>4. QED
  BY <1>1, <1>2, <1>3

\* Whatever modules come and go while breakpoints are deferred, a deferred one
\* is activated before its module can run: the callback for it is to come.
THEOREM NoneStrandedHolds == Spec => []NoneStranded
<1>1. Init => Awaited
  BY DEF Init, Awaited, NoneStranded
<1>2. Typing /\ ResolvedStillCurrent /\ Awaited /\ [Next]_vars => Awaited'
  <2>1. CASE FlushCache \/ UNCHANGED vars
    BY <2>1, FrameAwaited DEF FlushCache, vars
  <2>2. QED
    BY <2>1, ThreadAwaited, ServerAwaited DEF Next
<1>3. Awaited => NoneStranded
  BY DEF Awaited
<1>4. QED
  BY <1>1, <1>2, <1>3, TypeCorrect, ResolvedStillCurrentHolds, PTL DEF Spec

-----------------------------------------------------------------------------
(* The event a stop is for.                                                *)

\* The server's positions from the step that forgets the last stop to the reply.
NewStop == {"exec_running", "exec_unset", "exec_wait", "exec_set", "exec_suspend",
            "exec_result"}

\* A thread that stops does so for an event of the call in progress, and so does
\* the record of it; the last reply is gone before the next stopEvents are set.
AskedFor ==
    /\ ReplyInStopEvents
    /\ server \notin {"boot", "boot_suspend", "idle"} => reply = None
    /\ \A t \in Threads : pc[t] = "context" => event[t] \in stop_events
    /\ server \in NewStop /\ stopped_context # None => stopped_context.event \in stop_events

\* While the server is Stopped no thread is between its decision to stop and
\* its signal.
LEMMA StoppedQuiet ==
    ASSUME Exclusion, Stopped, NEW t \in Threads
    PROVE  pc[t] \in {"unborn", "cache", "sleep"}
BY ThreadAssumption DEF Exclusion, HandlerExclusion, SuspendedFits, Running, Live

LEMMA ThreadAskedFor ==
    ASSUME Typing, Exclusion, AskedFor, NEW t \in Threads, ThreadStep(t)
    PROVE  AskedFor'
<1>1. server' = server
  BY ThreadsStepOnlyRunning
<1> USE DEF Typing, TypeOK, AskedFor, ReplyInStopEvents, InCache
<1>2. CASE \/ Spawn(t) \/ Exit(t) \/ event_exit(t) \/ SuspendThread(t) \/ ReachBreakpoint(t)
  BY <1>1, <1>2 DEF Spawn, Exit, event_exit, SuspendThread, ReachBreakpoint
<1>3. ASSUME NEW b \in Blocks, EnterBlock(t, b)
      PROVE  AskedFor'
  BY <1>1, <1>3 DEF EnterBlock
<1>4. ASSUME NEW m \in Modules, LoadModule(t, m) \/ UnloadModule(t, m)
      PROVE  AskedFor'
  BY <1>1, <1>4 DEF LoadModule, UnloadModule
<1>5. CASE relevant_block_clean_call(t)
  BY <1>1, <1>5 DEF relevant_block_clean_call, StopsFor
<1>6. CASE update_fastforward_count(t)
  <2>1. UNCHANGED <<reply, stop_events, stopped_context>>
    BY <1>6 DEF update_fastforward_count
  <2>2. \/ event' = event /\ pc'[t] # "context"
        \/ event' = [event EXCEPT ![t] = "Breakpoint"] /\ StopsFor("Breakpoint")
    BY <1>6 DEF update_fastforward_count
  <2>3. \A u \in Threads \ {t} : pc'[u] = pc[u]
    BY <1>6, ThreadStepFrame DEF ThreadStep, ClientStep
  <2>4. \A u \in Threads : pc'[u] = "context" => event'[u] \in stop_events
    BY <2>2, <2>3 DEF StopsFor
  <2>5. QED
    BY <1>1, <2>1, <2>4
<1>7. CASE event_module_loaded(t)
  BY <1>1, <1>7 DEF event_module_loaded
<1>8. CASE event_basic_block(t) \/ event_basic_block_unset(t) \/ FlushStale(t)
  BY <1>1, <1>8 DEF event_basic_block, event_basic_block_unset, FlushStale
<1>9. CASE SaveContext(t)
  <2>1. stopped_context'.event = event[t] /\ event[t] \in stop_events
    BY <1>9 DEF SaveContext
  <2>2. QED
    BY <1>1, <1>9, <2>1 DEF SaveContext
<1>10. CASE SaveBlock(t) \/ SignalSuspender(t) \/ WakeUp(t)
  BY <1>1, <1>10 DEF SaveBlock, SignalSuspender, WakeUp
<1>11. QED
  BY <1>2, <1>3, <1>4, <1>5, <1>6, <1>7, <1>8, <1>9, <1>10 DEF ThreadStep, ClientStep, AppStep

LEMMA ServerAskedFor ==
    ASSUME Typing, Exclusion, AskedFor, ServerStep
    PROVE  AskedFor'
<1> USE DEF AskedFor, ReplyInStopEvents, NewStop, Reply, GoTo
<1>1. CASE \E r \in Requests : Receive(r)
  BY <1>1 DEF Receive, Requests
<1>2. CASE server_thread \/ SuspendFails
  BY <1>2 DEF server_thread, suspend_application_threads, SuspendReturns, SuspendFails
<1>3. CASE \/ ResolveAddress("addBreakpoint", "add_lock") \/ addBreakpoint
           \/ ResolveAddress("delBreakpoint", "del_lock") \/ delBreakpoint
           \/ delBreakpoint_flush \/ getBreakpoints \/ getCodeBlock \/ getContext
  <2>1. request.op # "executeUntilEvent"
    BY <1>3 DEF Typing, RequestFits, ResolveAddress, addBreakpoint, delBreakpoint,
                delBreakpoint_flush, getBreakpoints, getCodeBlock, getContext
  <2>2. QED
    BY <1>3, <2>1 DEF ResolveAddress, addBreakpoint, delBreakpoint, delBreakpoint_flush,
              assert_helper, getBreakpoints, getCodeBlock, getContext, Ok, OkValue, Failed
<1>4. CASE ExecStopEvents
  <2>1. \A t \in Threads : pc[t] # "context"
    BY <1>4, StoppedQuiet DEF ExecStopEvents, Stopped
  <2>2. QED
    BY <1>4, <2>1 DEF ExecStopEvents
<1>5. CASE ExecCheck \/ ExecFlush \/ ExecRunning \/ ExecUnset \/ ExecWait
  BY <1>5 DEF ExecCheck, assert_helper, Failed, ExecFlush, ExecRunning, ExecUnset, ExecWait
<1>6. CASE ExecResume
  BY <1>6 DEF ExecResume, ClearStop
<1>7. CASE \/ suspend_application_threads("exec_set", "exec_suspend")
           \/ SuspendReturns("exec_suspend", "exec_result")
  BY <1>7 DEF suspend_application_threads, SuspendReturns
<1>8. CASE ExecResult
  BY <1>8 DEF ExecResult, Failed, OkValue
<1>9. QED
  BY <1>1, <1>2, <1>3, <1>4, <1>5, <1>6, <1>7, <1>8 DEF ServerStep, HandlerStep, executeUntilEvent

\* executeUntilEvent returns an event of its own stopEvents, however late the
\* threads of an earlier stop are.
THEOREM ReplyInStopEventsHolds == Spec => []ReplyInStopEvents
<1>1. Init => AskedFor
  BY DEF Init, AskedFor, ReplyInStopEvents, NewStop
<1>2. Typing /\ Exclusion /\ AskedFor /\ [Next]_vars => AskedFor'
  <2>1. ASSUME AskedFor, FlushCache \/ UNCHANGED vars
        PROVE  AskedFor'
    BY <2>1 DEF FlushCache, vars, AskedFor, ReplyInStopEvents
  <2>2. QED
    BY <2>1, ThreadAskedFor, ServerAskedFor DEF Next
<1>3. AskedFor => ReplyInStopEvents
  BY DEF AskedFor
<1>4. QED
  BY <1>1, <1>2, <1>3, TypeCorrect, ExclusionInvariant, PTL DEF Spec

-----------------------------------------------------------------------------
(* The record of a stop, when only breakpoints stop execution.             *)

OnlyBreakpointsStop ==
    SuspendPoints = {"cache"} /\ \A S \in StopSets : "RelevantBlock" \notin S

RecordWhole ==
    \/ stopped_context = None /\ stopped_block = None
    \/ stopped_context # None /\ stopped_context.block = stopped_block

\* Whoever writes the record owns the mutex, so the two halves are one thread's
\* but while it is between them.
RecordInv ==
    /\ \A t \in Threads : pc[t] \in {"context", "block", "signal", "sleep"} =>
          mutex = t /\ event[t] = "Breakpoint"
    /\ \A t \in Threads : pc[t] = "block" =>
          stopped_context # None /\ stopped_context.block = cur[t]
    /\ (\A t \in Threads : pc[t] # "block") => RecordWhole

\* Steps of a thread that is not stopping and does not begin to.
LEMMA FrameRecord ==
    ASSUME RecordInv, UNCHANGED <<mutex, stopped_context, stopped_block>>,
           \A t \in Threads :
              \/ pc'[t] \notin {"context", "block", "signal", "sleep"} /\ pc[t] # "block"
              \/ pc'[t] = pc[t] /\ event'[t] = event[t] /\ cur'[t] = cur[t]
    PROVE  RecordInv'
BY DEF RecordInv, RecordWhole

LEMMA ThreadRecord ==
    ASSUME OnlyBreakpointsStop, Typing, RecordInv, NEW t \in Threads, ThreadStep(t)
    PROVE  RecordInv'
<1> USE DEF Typing, TypeOK, InCache
<1>1. CASE \/ Spawn(t) \/ Exit(t) \/ event_exit(t) \/ SuspendThread(t) \/ ReachBreakpoint(t)
  BY <1>1, FrameRecord DEF Spawn, Exit, event_exit, SuspendThread, ReachBreakpoint
<1>2. ASSUME NEW b \in Blocks, EnterBlock(t, b)
      PROVE  RecordInv'
  BY <1>2, FrameRecord DEF EnterBlock
<1>3. ASSUME NEW m \in Modules, LoadModule(t, m) \/ UnloadModule(t, m)
      PROVE  RecordInv'
  BY <1>3, FrameRecord DEF LoadModule, UnloadModule
<1>4. CASE relevant_block_clean_call(t)
  <2>1. ~StopsFor("RelevantBlock")
    BY DEF StopsFor, OnlyBreakpointsStop
  <2>2. QED
    BY <1>4, <2>1, FrameRecord DEF relevant_block_clean_call
<1>5. CASE event_basic_block(t) \/ event_basic_block_unset(t) \/ FlushStale(t)
  BY <1>5, FrameRecord DEF event_basic_block, event_basic_block_unset, FlushStale
<1>6. CASE event_module_loaded(t)
  BY <1>6, FrameRecord DEF event_module_loaded
<1>7. CASE update_fastforward_count(t)
  <2>1. /\ pc[t] = "hit_lock" /\ mutex = "free"
        /\ UNCHANGED <<stopped_context, stopped_block, cur>>
        /\ \/ pc' = [pc EXCEPT ![t] = "stale"] /\ UNCHANGED <<mutex, event>>
           \/ pc' = [pc EXCEPT ![t] = "cache"] /\ UNCHANGED <<mutex, event>>
           \/ /\ pc' = [pc EXCEPT ![t] = "context"]
              /\ event' = [event EXCEPT ![t] = "Breakpoint"]
              /\ mutex' = t
    BY <1>7 DEF update_fastforward_count, HoldMutex
  <2>2. \A u \in Threads : pc[u] \notin {"context", "block", "signal", "sleep"}
    BY <2>1, ThreadAssumption DEF RecordInv
  <2>3. QED
    BY <2>1, <2>2 DEF RecordInv, RecordWhole
<1>8. CASE SaveContext(t)
  <2>1. \A u \in Threads \ {t} : pc[u] \notin {"context", "block", "signal", "sleep"}
    BY <1>8 DEF SaveContext, RecordInv
  <2>2. stopped_context' # None /\ stopped_context'.block = cur[t]
    <3>1. [event |-> event[t], block |-> cur[t]] \in Context
      BY <1>8 DEF SaveContext, ThreadFits, Context
    <3>2. QED
      BY <1>8, <3>1, ContextAssumption DEF SaveContext
  <2>3. pc'[t] = "block" /\ \A u \in Threads \ {t} : pc'[u] = pc[u]
    BY <1>8 DEF SaveContext
  <2>4. UNCHANGED <<mutex, event, cur>>
    BY <1>8 DEF SaveContext
  <2>5. mutex = t /\ event[t] = "Breakpoint"
    BY <1>8 DEF SaveContext, RecordInv
  <2>6. QED
    BY <2>1, <2>2, <2>3, <2>4, <2>5 DEF RecordInv
<1>9. CASE SaveBlock(t)
  <2>1. UNCHANGED <<mutex, event, cur, stopped_context>> /\ stopped_block' = cur[t]
    BY <1>9 DEF SaveBlock
  <2>2. pc'[t] = "signal" /\ \A u \in Threads \ {t} : pc'[u] = pc[u]
    BY <1>9 DEF SaveBlock
  <2>3. pc[t] = "block"
    BY <1>9 DEF SaveBlock
  <2>4. QED
    BY <2>1, <2>2, <2>3 DEF RecordInv, RecordWhole
<1>10. CASE SignalSuspender(t)
  <2>1. UNCHANGED <<mutex, event, cur, stopped_context, stopped_block>>
    BY <1>10 DEF SignalSuspender
  <2>2. /\ pc[t] = "signal" /\ pc'[t] = "sleep"
        /\ \A u \in Threads \ {t} : pc'[u] = pc[u]
    BY <1>10 DEF SignalSuspender
  <2>3. QED
    BY <2>1, <2>2 DEF RecordInv, RecordWhole
<1>11. CASE WakeUp(t)
  <2>1. \A u \in Threads \ {t} : pc[u] \notin {"context", "block", "signal", "sleep"}
    BY <1>11 DEF WakeUp, RecordInv
  <2>2. /\ pc[t] = "sleep" /\ pc'[t] = "cache"
        /\ \A u \in Threads \ {t} : pc'[u] = pc[u]
    BY <1>11 DEF WakeUp
  <2>3. UNCHANGED <<stopped_context, stopped_block>>
    BY <1>11 DEF WakeUp
  <2>4. QED
    BY <2>1, <2>2, <2>3 DEF RecordInv, RecordWhole
<1>12. QED
  BY <1>1, <1>2, <1>3, <1>4, <1>5, <1>6, <1>7, <1>8, <1>9, <1>10, <1>11
  DEF ThreadStep, ClientStep, AppStep

\* The server takes and releases the mutex, and forgets the record, only while
\* it is Stopped: then nobody is stopping.
LEMMA ServerRecord ==
    ASSUME OnlyBreakpointsStop, Typing, Exclusion, RecordInv, ServerStep
    PROVE  RecordInv'
<1>1. UNCHANGED <<pc, event, cur>>
  BY DEF ServerStep, HandlerStep, server_thread, executeUntilEvent, Receive, SuspendFails,
     ResolveAddress, addBreakpoint, delBreakpoint, delBreakpoint_flush, getBreakpoints,
     getCodeBlock, getContext, suspend_application_threads, SuspendReturns, ExecStopEvents,
     ExecCheck, ExecFlush, ExecResume, ExecRunning, ExecUnset, ExecWait, ExecResult
<1>2. CASE UNCHANGED <<mutex, stopped_context, stopped_block>>
  BY <1>1, <1>2 DEF RecordInv, RecordWhole
<1>3. CASE ~UNCHANGED <<mutex, stopped_context, stopped_block>>
  <2>1. \/ addBreakpoint \/ delBreakpoint \/ delBreakpoint_flush \/ getBreakpoints
        \/ getCodeBlock \/ getContext \/ ExecCheck \/ ExecResume \/ ExecResult
    BY <1>3 DEF ServerStep, HandlerStep, server_thread, executeUntilEvent, Receive,
       SuspendFails, ResolveAddress, suspend_application_threads, SuspendReturns,
       ExecStopEvents, ExecFlush, ExecRunning, ExecUnset, ExecWait
  <2>2. /\ Stopped
        /\ \/ UNCHANGED <<stopped_context, stopped_block>>
           \/ stopped_context' = None /\ stopped_block' = None
    BY <2>1 DEF Stopped, addBreakpoint, delBreakpoint, delBreakpoint_flush, getBreakpoints,
       getCodeBlock, getContext, ExecCheck, ExecResume, ClearStop, ExecResult
  <2>3. \A t \in Threads : pc[t] \notin {"context", "block", "signal", "sleep"}
    BY <2>2 DEF OnlyBreakpointsStop, Exclusion, HandlerExclusion, SuspendedFits, Running, Live
  <2>4. QED
    BY <1>1, <2>2, <2>3 DEF RecordInv, RecordWhole
<1>4. QED
  BY <1>2, <1>3

\* Without RelevantBlock stops, and if DynamoRIO suspends threads in the code
\* cache only, the context and the block that clients read are one stop's.
THEOREM StopRecordConsistentHolds == OnlyBreakpointsStop => (Spec => []StopRecordConsistent)
<1> SUFFICES ASSUME OnlyBreakpointsStop
             PROVE  Spec => []StopRecordConsistent
  OBVIOUS
<1>1. Init => RecordInv
  BY DEF Init, RecordInv, RecordWhole
<1>2. Typing /\ Exclusion /\ RecordInv /\ [Next]_vars => RecordInv'
  <2>1. ASSUME RecordInv, FlushCache \/ UNCHANGED vars
        PROVE  RecordInv'
    BY <2>1 DEF FlushCache, vars, RecordInv, RecordWhole
  <2>2. QED
    BY <2>1, ThreadRecord, ServerRecord DEF Next
<1>3. Exclusion /\ RecordInv => StopRecordConsistent
  BY StoppedQuiet DEF RecordInv, RecordWhole, StopRecordConsistent
<1>4. QED
  BY <1>1, <1>2, <1>3, TypeCorrect, ExclusionInvariant, PTL DEF Spec

-----------------------------------------------------------------------------
(* Counts, when no breakpoint is deferred.                                 *)

\* If clients use no relative addresses, the count of a breakpoint goes down by
\* one at a time (and round at 0), and only by the threads that pass it, until a
\* client deletes it: in particular not by the edit of another client, which
\* addBreakpoint refuses.
THEOREM CountsKeptHolds == RelAddrs = {} => (Spec => CountsKept)
<1> SUFFICES ASSUME RelAddrs = {}
             PROVE  Spec => CountsKept
  OBVIOUS
<1>1. Typing /\ [Next]_vars => [CountsChangeBy]_vars
  <2> SUFFICES ASSUME Typing, Next, NEW a \in Addrs, breakpoints[a] \notin {None, breakpoints'[a]}
               PROVE  \/ CountedByHit(a)
                      \/ server = "del_lock" /\ resolved = a /\ breakpoints'[a] = None
                      \/ server = "add_lock" /\ resolved = a /\ breakpoints[a] = 0
    BY DEF CountsChangeBy
  <2>1. breakpoints' # breakpoints
    OBVIOUS
  <2>2. ASSUME NEW t \in Threads, event_module_loaded(t)
        PROVE  breakpoints'[a] = breakpoints[a]
    BY <2>2 DEF event_module_loaded, Activated, LastAt, DeferredIn
  <2>3. ASSUME NEW t \in Threads, update_fastforward_count(t)
        PROVE  CountedByHit(a)
    <3>1. PICK hit \in calls[t] :
             /\ calls' = [calls EXCEPT ![t] = @ \ {hit}]
             /\ \/ breakpoints' = breakpoints
                \/ /\ Decremented(breakpoints[hit]) # 0
                   /\ breakpoints' = [breakpoints EXCEPT ![hit] = Decremented(breakpoints[hit])]
                \/ /\ Decremented(breakpoints[hit]) = 0
                   /\ breakpoints' = [breakpoints EXCEPT ![hit] = None]
      BY <2>3 DEF update_fastforward_count
    <3>2. hit = a
      BY <2>1, <3>1 DEF Typing, TypeOK
    <3>3. breakpoints[a] \in Count
      BY DEF Typing, TypeOK
    <3>4. /\ CountMod \in Nat /\ CountMod > 1
          /\ breakpoints[a] \in Nat /\ breakpoints[a] < CountMod
      BY <3>3, ArgAssumption DEF Count
    <3>5. Decremented(breakpoints[a]) =
             IF breakpoints[a] = 0 THEN CountMod - 1 ELSE breakpoints[a] - 1
      BY <3>4 DEF Decremented
    <3>6. breakpoints'[a] = IF breakpoints[a] = 1 THEN None
                            ELSE IF breakpoints[a] = 0 THEN CountMod - 1
                            ELSE breakpoints[a] - 1
      <4>1. \/ Decremented(breakpoints[a]) # 0 /\ breakpoints'[a] = Decremented(breakpoints[a])
            \/ Decremented(breakpoints[a]) = 0 /\ breakpoints'[a] = None
        BY <2>1, <3>1, <3>2 DEF Typing, TypeOK
      <4>2. Decremented(breakpoints[a]) = 0 <=> breakpoints[a] = 1
        BY <3>4, <3>5
      <4>3. QED
        BY <3>5, <4>1, <4>2
    <3>7. pc[t] = "hit_lock"
      BY <2>3 DEF update_fastforward_count
    <3>8. QED
      BY <3>1, <3>2, <3>6, <3>7 DEF CountedByHit
  <2>4. ASSUME addBreakpoint \/ delBreakpoint
        PROVE  \/ server = "del_lock" /\ resolved = a /\ breakpoints'[a] = None
               \/ server = "add_lock" /\ resolved = a /\ breakpoints[a] = 0
    BY <2>1, <2>4 DEF addBreakpoint, delBreakpoint, MayAdd, Typing, TypeOK
  <2>5. breakpoints' = breakpoints \/ addBreakpoint \/ delBreakpoint
        \/ \E t \in Threads : event_module_loaded(t) \/ update_fastforward_count(t)
    BY DEF Next, FlushCache, ThreadStep, ClientStep, AppStep, SuspendThread,
       Spawn, Exit, EnterBlock, LoadModule, UnloadModule, event_exit,
       relevant_block_clean_call, ReachBreakpoint, event_basic_block,
       event_basic_block_unset, FlushStale, SaveContext, SaveBlock, SignalSuspender, WakeUp,
       ServerStep, HandlerStep, server_thread, executeUntilEvent, Receive, SuspendFails,
       ResolveAddress, delBreakpoint_flush, getBreakpoints, getCodeBlock, getContext,
       suspend_application_threads, SuspendReturns, ExecStopEvents, ExecCheck, ExecFlush,
       ExecResume, ExecRunning, ExecUnset, ExecWait, ExecResult
  <2>6. QED
    BY <2>1, <2>2, <2>3, <2>4, <2>5
<1>2. QED
  BY <1>1, TypeCorrect, PTL DEF Spec, CountsKept

=============================================================================
