------------------------- MODULE ConcreteEvalTyping --------------------------
(***************************************************************************)
(* Type correctness of ConcreteEval, for every value of its constants.     *)
(* TypeOK alone is not inductive: an operation's steps are typed only      *)
(* because its request is of its kind, and a thread's because it is in a   *)
(* block (or reports a module) while it is in the client's code.           *)
(***************************************************************************)
EXTENDS ConcreteEval, TLAPS

\* Where a handler runs, the request is one for it; between the two steps of
\* an edit the address is resolved, or is one that can be deferred.
RequestFits ==
    /\ server \in {"addBreakpoint", "add_lock"} =>
          request \in [op : {"addBreakpoint"}, addr : BpArgs, count : Counts]
    /\ server \in {"delBreakpoint", "del_lock", "del_flush"} =>
          request \in [op : {"delBreakpoint"}, addr : BpArgs]
    /\ server \in {"add_lock", "del_lock"} => (resolved = None => request.addr \in RelAddrs)
    /\ server \in {"executeUntilEvent", "exec_check", "exec_flush", "exec_resume",
                   "exec_running", "exec_unset", "exec_wait", "exec_set", "exec_suspend",
                   "exec_result"} =>
          request \in [op : {"executeUntilEvent"}, stopEvents : StopSets]
    /\ server \in {"getBreakpoints", "getCodeBlock", "getContext"} => request = [op |-> server]

\* What a thread in the client's code holds.
ThreadFits ==
    \A t \in Threads :
        /\ pc[t] \in {"bb_lock", "context", "block"} => cur[t] \in Blocks
        /\ calls[t] # {} => cur[t] \in Blocks
        /\ pc[t] = "hit_lock" => Relevant \notin calls[t]
        /\ pc[t] = "context" => event[t] \in EventType
        /\ pc[t] = "load_lock" => loading[t] \in Modules

Typing == TypeOK /\ RequestFits /\ ThreadFits

USE DEF tableVars, stopVars, drVars, threadVars, serverVars, otherThanTables, otherThanServer

-----------------------------------------------------------------------------

\* Counting down stays within size_t.
LEMMA DecrementedType ==
    ASSUME NEW n \in Count
    PROVE  Decremented(n) \in Count
BY ArgAssumption DEF Decremented, Count

\* A relative address is neither absolute nor absent, and resolves to an
\* address, to nothing yet, or throws.
LEMMA ResolveType ==
    ASSUME TypeOK, NEW arg \in BpArgs
    PROVE  /\ Resolve(arg) \in Addrs \cup {None, Unresolvable}
           /\ Resolve(arg) = None => arg \in RelAddrs
BY RelAssumption, ArgAssumption DEF Resolve, TypeOK

\* A fragment's instrumented points are points.
LEMMA InstrumentedType ==
    ASSUME NEW b \in Blocks
    PROVE  Instrumented(b) \subseteq Points
BY DEF Instrumented, Instrs, Points

\* Activation gives addresses the counts of deferred breakpoints.
LEMMA ActivatedType ==
    ASSUME TypeOK, NEW D \in SUBSET RelAddrs
    PROVE  Activated(D) \in [Addrs -> Count \cup {None}]
<1>1. \A a \in Addrs : LastAt(a, D) \subseteq RelAddrs
  BY DEF LastAt
<1>2. ASSUME NEW a \in Addrs, LastAt(a, D) # {}
      PROVE  deferred_breakpoints[CHOOSE r \in LastAt(a, D) : TRUE] \in Count \cup {None}
  BY <1>1, <1>2 DEF TypeOK
<1>3. QED
  BY <1>2 DEF Activated, TypeOK

-----------------------------------------------------------------------------
(* The server thread's steps.                                              *)

\* The ways a handler ends, and the way it goes on, are typed.
LEMMA ReplyTypes ==
    /\ \A op \in {"addBreakpoint", "delBreakpoint"} : Ok(op) \in Replies
    /\ \A op \in {"addBreakpoint", "delBreakpoint", "executeUntilEvent", "getCodeBlock",
                  "getContext"} : Failed(op) \in Replies
    /\ \A v \in SUBSET (Addrs \X Count) : OkValue("getBreakpoints", v) \in Replies
    /\ \A v \in EventType : OkValue("executeUntilEvent", v) \in Replies
    /\ \A v \in Blocks : OkValue("getCodeBlock", v) \in Replies
    /\ \A v \in Context : OkValue("getContext", v) \in Replies
BY DEF Ok, Failed, OkValue, Replies

\* Starting to serve.
LEMMA ReceiveTyping ==
    ASSUME Typing, NEW r \in Requests, Receive(r)
    PROVE  Typing'
BY DEF Typing, TypeOK, RequestFits, ThreadFits, Receive, Requests, ServerPC

\* The edits of the tables.
LEMMA EditTyping ==
    ASSUME Typing,
           \/ ResolveAddress("addBreakpoint", "add_lock") \/ addBreakpoint
           \/ ResolveAddress("delBreakpoint", "del_lock") \/ delBreakpoint
           \/ delBreakpoint_flush \/ getBreakpoints
    PROVE  Typing'
<1> USE ReplyTypes DEF Typing, RequestFits, ThreadFits, Reply, GoTo, ServerPC
<1>1. CASE ResolveAddress("addBreakpoint", "add_lock")
  <2>1. request.addr \in BpArgs /\ request.op = "addBreakpoint"
    BY <1>1 DEF ResolveAddress
  <2>2. QED
    BY <1>1, <2>1, ResolveType DEF ResolveAddress, TypeOK
<1>2. CASE ResolveAddress("delBreakpoint", "del_lock")
  <2>1. request.addr \in BpArgs /\ request.op = "delBreakpoint"
    BY <1>2 DEF ResolveAddress
  <2>2. QED
    BY <1>2, <2>1, ResolveType DEF ResolveAddress, TypeOK
<1>3. CASE addBreakpoint
  <2>1. request.op = "addBreakpoint" /\ request.count \in Count
    BY <1>3, ArgAssumption DEF addBreakpoint
  <2>2. QED
    BY <1>3, <2>1 DEF addBreakpoint, assert_helper, TypeOK
<1>4. CASE delBreakpoint
  <2>1. request.op = "delBreakpoint"
    BY <1>4 DEF delBreakpoint
  <2>2. QED
    BY <1>4, <2>1 DEF delBreakpoint, assert_helper, TypeOK
<1>5. CASE delBreakpoint_flush
  BY <1>5 DEF delBreakpoint_flush, total_flush, TypeOK
<1>6. CASE getBreakpoints
  <2>1. request.op = "getBreakpoints"
    BY <1>6 DEF getBreakpoints
  <2>2. QED
    BY <1>6, <2>1 DEF getBreakpoints, TypeOK
<1>7. QED
  BY <1>1, <1>2, <1>3, <1>4, <1>5, <1>6

\* The start, the suspensions, and executeUntilEvent.
LEMMA ExecuteTyping ==
    ASSUME Typing, server_thread \/ executeUntilEvent \/ SuspendFails
    PROVE  Typing'
<1> USE ReplyTypes DEF Typing, RequestFits, ThreadFits, Reply, GoTo, ServerPC
<1>1. CASE server_thread
  BY <1>1 DEF server_thread, suspend_application_threads, SuspendReturns, TypeOK
<1>2. CASE suspend_application_threads("exec_set", "exec_suspend")
  BY <1>2 DEF suspend_application_threads, TypeOK
<1>8. CASE SuspendReturns("exec_suspend", "exec_result")
  BY <1>8 DEF SuspendReturns, TypeOK
<1>9. CASE SuspendFails
  BY <1>9 DEF SuspendFails, TypeOK
<1>3. CASE ExecStopEvents
  <2>1. request.stopEvents \in StopSets
    BY <1>3 DEF ExecStopEvents
  <2>2. QED
    BY <1>3, <2>1 DEF ExecStopEvents, TypeOK
<1>4. CASE ExecCheck
  <2>1. request.op = "executeUntilEvent"
    BY <1>4 DEF ExecCheck
  <2>2. QED
    BY <1>4, <2>1 DEF ExecCheck, ExecRelease, assert_helper, TypeOK
<1>5. CASE ExecFlush
  BY <1>5 DEF ExecFlush, total_flush, TypeOK
<1>6. CASE ExecResume \/ ExecRunning \/ ExecUnset \/ ExecWait
  BY <1>6 DEF ExecResume, ClearStop, ExecRunning, StillSuspended, ExecUnset, ExecWait, TypeOK
<1>7. CASE ExecResult
  <2>1. request.op = "executeUntilEvent"
    BY <1>7 DEF ExecResult
  <2>2. stopped_context # None => stopped_context.event \in EventType
    BY DEF TypeOK, Context
  <2>3. QED
    BY <1>7, <2>1, <2>2 DEF ExecResult, UnlockNotOwned, TypeOK
<1>10. QED
  BY <1>1, <1>2, <1>3, <1>4, <1>5, <1>6, <1>7, <1>8, <1>9 DEF executeUntilEvent

\* Reading the last stop.
LEMMA ReadTyping ==
    ASSUME Typing, getCodeBlock \/ getContext
    PROVE  Typing'
<1> USE ReplyTypes DEF Typing, RequestFits, ThreadFits, Reply, ServerPC
<1>1. CASE getCodeBlock
  <2>1. request.op = "getCodeBlock"
    BY <1>1 DEF getCodeBlock
  <2>2. QED
    BY <1>1, <2>1 DEF getCodeBlock, assert_helper, TypeOK
<1>2. CASE getContext
  <2>1. request.op = "getContext"
    BY <1>2 DEF getContext
  <2>2. QED
    BY <1>2, <2>1 DEF getContext, assert_helper, TypeOK
<1>3. QED
  BY <1>1, <1>2

LEMMA ServerTyping ==
    ASSUME Typing, ServerStep
    PROVE  Typing'
BY ReceiveTyping, EditTyping, ExecuteTyping, ReadTyping DEF ServerStep, HandlerStep

-----------------------------------------------------------------------------
(* The threads' steps.                                                     *)

\* What the application and DynamoRIO do.
LEMMA AppTyping ==
    ASSUME Typing, NEW t \in Threads, AppStep(t) \/ SuspendThread(t)
    PROVE  Typing'
<1> USE DEF Typing, RequestFits, ThreadFits, ThreadPC, InCache
<1>1. CASE Spawn(t) \/ Exit(t) \/ event_exit(t) \/ ReachBreakpoint(t)
  BY <1>1 DEF Spawn, Exit, event_exit, ReachBreakpoint, TypeOK
<1>2. ASSUME NEW b \in Blocks, EnterBlock(t, b)
      PROVE  Typing'
  BY <1>2 DEF EnterBlock, TypeOK
<1>3. ASSUME NEW m \in Modules, LoadModule(t, m)
      PROVE  Typing'
  BY <1>3 DEF LoadModule, TypeOK
<1>7. ASSUME NEW m \in Modules, UnloadModule(t, m)
      PROVE  Typing'
  BY <1>7 DEF UnloadModule, TypeOK
<1>4. CASE relevant_block_clean_call(t)
  <2>1. "RelevantBlock" \in EventType
    BY DEF EventType
  <2>2. QED
    BY <1>4, <2>1 DEF relevant_block_clean_call, TypeOK
<1>5. CASE SuspendThread(t)
  BY <1>5 DEF SuspendThread, TypeOK
<1>6. QED
  BY <1>1, <1>2, <1>3, <1>4, <1>5, <1>7 DEF AppStep

LEMMA FlushTyping ==
    ASSUME Typing, FlushCache
    PROVE  Typing'
<1>1. TypeOK'
  <2>1. cache' \in [Blocks -> (SUBSET Points) \cup {None}]
    BY DEF FlushCache
  <2>2. flush_pending' \in BOOLEAN
    BY DEF FlushCache
  <2>3. UNCHANGED <<mutex, tableVars, suspend_params, stop_events, stopVars, suspended,
                    loaded, proc, threadVars, serverVars>>
    BY DEF FlushCache
  <2>4. QED
    BY <2>1, <2>2, <2>3 DEF Typing, TypeOK
<1>2. RequestFits' /\ ThreadFits'
  BY DEF Typing, RequestFits, ThreadFits, FlushCache
<1>3. QED
  BY <1>1, <1>2 DEF Typing

\* What a thread does in the client.
LEMMA ClientTyping ==
    ASSUME Typing, NEW t \in Threads, ClientStep(t)
    PROVE  Typing'
<1> USE DEF Typing, RequestFits, ThreadFits, ThreadPC
<1>1. CASE event_basic_block(t) \/ event_basic_block_unset(t)
  <2>1. cur[t] \in Blocks
    BY <1>1 DEF event_basic_block, event_basic_block_unset
  <2>2. QED
    BY <1>1, <2>1, InstrumentedType
    DEF event_basic_block, event_basic_block_unset, TypeOK
<1>2. CASE event_module_loaded(t)
  <2>1. DeferredIn(loading[t]) \in SUBSET RelAddrs
    BY DEF DeferredIn
  <2>2. Activated(DeferredIn(loading[t])) \in [Addrs -> Count \cup {None}]
    BY <2>1, ActivatedType
  <2>3. QED
    BY <1>2, <2>1, <2>2 DEF event_module_loaded, TypeOK
<1>3. CASE update_fastforward_count(t)
  <2>1. PICK a \in calls[t] :
          /\ calls' = [calls EXCEPT ![t] = @ \ {a}]
          /\ \/ /\ pc' = [pc EXCEPT ![t] = "stale"]
                /\ UNCHANGED <<breakpoints, mutex, event>>
             \/ /\ breakpoints[a] # None
                /\ \/ breakpoints' = [breakpoints EXCEPT ![a] = Decremented(@)]
                   \/ breakpoints' = [breakpoints EXCEPT ![a] = None]
                /\ \/ /\ pc' = [pc EXCEPT ![t] = "cache"]
                      /\ UNCHANGED <<mutex, event>>
                   \/ /\ event' = [event EXCEPT ![t] = "Breakpoint"]
                      /\ pc' = [pc EXCEPT ![t] = "context"]
                      /\ mutex' = t
    BY <1>3 DEF update_fastforward_count, HoldMutex
  <2>2. a \in Addrs /\ cur[t] \in Blocks
    BY <1>3, <2>1 DEF update_fastforward_count, TypeOK, Points
  <2>3. breakpoints[a] # None => Decremented(breakpoints[a]) \in Count
    BY <2>2, DecrementedType DEF TypeOK
  <2>4. "Breakpoint" \in EventType
    BY DEF EventType
  <2>5. QED
    BY <1>3, <2>1, <2>2, <2>3, <2>4 DEF update_fastforward_count, TypeOK
<1>4. CASE FlushStale(t)
  BY <1>4 DEF FlushStale, total_flush, TypeOK
<1>5. CASE SaveContext(t)
  <2>1. [event |-> event[t], block |-> cur[t]] \in Context
    BY <1>5 DEF SaveContext, Context
  <2>2. QED
    BY <1>5, <2>1 DEF SaveContext, TypeOK
<1>8. CASE SaveBlock(t)
  BY <1>8 DEF SaveBlock, TypeOK
<1>9. CASE SignalSuspender(t)
  BY <1>9 DEF SignalSuspender, TypeOK
<1>6. CASE WakeUp(t)
  BY <1>6 DEF WakeUp, Unlock, TypeOK
<1>7. QED
  BY <1>1, <1>2, <1>3, <1>4, <1>5, <1>6, <1>8, <1>9 DEF ClientStep

-----------------------------------------------------------------------------

LEMMA InitTyping == Init => Typing
BY DEF Init, Typing, TypeOK, RequestFits, ThreadFits, ServerPC, ThreadPC

LEMMA NextTyping == Typing /\ [Next]_vars => Typing'
<1> SUFFICES ASSUME Typing, [Next]_vars
             PROVE  Typing'
  OBVIOUS
<1>1. CASE UNCHANGED vars
  BY <1>1 DEF vars, Typing, TypeOK, RequestFits, ThreadFits
<1>2. CASE Next
  BY <1>2, ServerTyping, AppTyping, FlushTyping, ClientTyping DEF Next, ThreadStep
<1>3. QED
  BY <1>1, <1>2

\* The globals, DynamoRIO's state and every thread's position keep their types,
\* whatever the program, its modules and its clients: no count leaves size_t,
\* and no operation sees a request or a block of the wrong kind.
THEOREM TypeCorrect == Spec => []Typing
<1>1. Init => Typing
  BY InitTyping
<1>2. Typing /\ [Next]_vars => Typing'
  BY NextTyping
<1>3. QED
  BY <1>1, <1>2, PTL DEF Spec

THEOREM TypeOKHolds == Spec => []TypeOK
<1>1. Typing => TypeOK
  BY DEF Typing
<1>2. QED
  BY <1>1, TypeCorrect, PTL

=============================================================================
