----------------------------- MODULE AppThreads ------------------------------
(***************************************************************************)
(* The application's threads: the code they run in DynamoRIO's cache, the  *)
(* callbacks that instrument it, the clean calls the instrumentation       *)
(* makes, and what DynamoRIO does to the threads behind the client's back. *)
(*                                                                         *)
(* A critical section that no other actor can observe in the middle is one *)
(* step that needs the mutex free; update_fastforward_count, which sleeps  *)
(* with the mutex held, takes and releases it in different steps.          *)
(***************************************************************************)
EXTENDS EvalState

InCache(t) == pc[t] = "cache" /\ Running(t)

\* What event_basic_block inserts into block b: a call to
\* update_fastforward_count before each instruction that has a breakpoint, and
\* one to relevant_block_clean_call at the start if every block is relevant.
\* (The any_of over the block's range is a filter that lets all of them pass.)
Instrumented(b) ==
    {a \in Instrs(b) : breakpoints[a] # None}
      \cup {p \in {Relevant} : StopsFor("RelevantBlock")}

\* Code of a module runs only once the callback that reports its load is over.
Executable(b) ==
    LET m == AddrModule[b[1]]
    IN  \/ m = None
        \/ m \in loaded /\ \A t \in Threads : loading[t] # m

-----------------------------------------------------------------------------
(* DynamoRIO and the application.                                          *)

\* The application creates another thread.
Spawn(t) ==
    /\ pc[t] = "unborn"
    /\ \E u \in Threads : InCache(u)
    /\ pc' = [pc EXCEPT ![t] = "cache"]
    /\ UNCHANGED <<mutex, tableVars, suspend_params, stop_events, stopVars, suspended,
                   drVars, proc, cur, calls, event, loading, serverVars>>

\* A thread ends; its last code is behind it.
Exit(t) ==
    /\ InCache(t)
    /\ calls[t] = {}
    /\ \E u \in Threads \ {t} : Live(u)
    /\ pc' = [pc EXCEPT ![t] = "unborn"]
    /\ cur' = [cur EXCEPT ![t] = None]
    /\ UNCHANGED <<mutex, tableVars, suspend_params, stop_events, stopVars, suspended,
                   drVars, proc, calls, event, loading, serverVars>>

\* A thread reaches block b.  DynamoRIO executes its fragment, or calls
\* event_basic_block first: when it has none, and again at any time when it makes
\* the block part of a trace (for_trace), which replaces the fragment.
EnterBlock(t, b) ==
    /\ InCache(t)
    /\ calls[t] = {}
    /\ Executable(b)
    /\ cur' = [cur EXCEPT ![t] = b]
    /\ \/ /\ pc' = [pc EXCEPT ![t] = "bb_lock"]
          /\ UNCHANGED calls
       \/ /\ cache[b] # None
          /\ calls' = [calls EXCEPT ![t] = cache[b]]
          /\ UNCHANGED pc
    /\ UNCHANGED <<mutex, tableVars, suspend_params, stop_events, stopVars, suspended,
                   drVars, proc, event, loading, serverVars>>

\* A thread loads module m; DynamoRIO calls event_module_loaded.
LoadModule(t, m) ==
    /\ InCache(t)
    /\ calls[t] = {}
    /\ m \notin loaded
    /\ loaded' = loaded \cup {m}
    /\ loading' = [loading EXCEPT ![t] = m]
    /\ pc' = [pc EXCEPT ![t] = "load_lock"]
    /\ UNCHANGED <<mutex, tableVars, suspend_params, stop_events, stopVars, suspended,
                   cache, flush_pending, proc, cur, calls, event, serverVars>>

\* A thread unloads module m, which nobody reports or executes any more, and
\* DynamoRIO drops its fragments.  The client has no callback for this: what it
\* activated in the module stays in breakpoints.
Executing(u, m) ==
    cur[u] # None /\ AddrModule[cur[u][1]] = m /\ (pc[u] # "cache" \/ calls[u] # {})

UnloadModule(t, m) ==
    /\ InCache(t)
    /\ calls[t] = {}
    /\ m \in loaded
    /\ \A u \in Threads : loading[u] # m /\ ~Executing(u, m)
    /\ loaded' = loaded \ {m}
    /\ cache' = [b \in Blocks |-> IF AddrModule[b[1]] = m THEN None ELSE cache[b]]
    /\ UNCHANGED <<mutex, tableVars, suspend_params, stop_events, stopVars, suspended,
                   flush_pending, proc, threadVars, serverVars>>

\* DynamoRIO performs the delayed flush: every fragment goes.  A thread inside
\* an old fragment still finishes its pass.
FlushCache ==
    /\ flush_pending
    /\ cache' = [b \in Blocks |-> None]
    /\ flush_pending' = FALSE
    /\ UNCHANGED <<mutex, tableVars, suspend_params, stop_events, stopVars, suspended,
                   loaded, proc, threadVars, serverVars>>

\* The application exits: event_exit calls exit(0) at once.
event_exit(t) ==
    /\ InCache(t)
    /\ proc' = "exited"
    /\ UNCHANGED <<mutex, tableVars, suspend_params, stop_events, stopVars, suspended,
                   drVars, threadVars, serverVars>>

-----------------------------------------------------------------------------
(* Callbacks.                                                              *)

\* event_basic_block: instruments the new fragment from the tables, under the
\* mutex.
event_basic_block(t) ==
    /\ pc[t] = "bb_lock"
    /\ mutex = "free"
    /\ cache' = [cache EXCEPT ![cur[t]] = Instrumented(cur[t])]
    /\ pc' = [pc EXCEPT ![t] = "cache"]
    /\ UNCHANGED <<mutex, tableVars, suspend_params, stop_events, stopVars, suspended,
                   flush_pending, loaded, proc, cur, calls, event, loading, serverVars>>

\* The other outcome of reading stop_events while it is empty: the standard
\* library's assertions end the process.
event_basic_block_unset(t) ==
    /\ pc[t] = "bb_lock"
    /\ mutex = "free"
    /\ stop_events = None
    /\ proc' = "aborted"
    /\ UNCHANGED <<mutex, tableVars, suspend_params, stop_events, stopVars, suspended,
                   drVars, threadVars, serverVars>>

\* The deferred breakpoints of module m, and whether all of them resolve to an
\* address the assertion lets pass, one of the module or its end: if one does
\* not, an exception leaves the callback or DR_ASSERT_MSG fails, and the process
\* dies.
DeferredIn_at_unset(m) ==
    {r \in RelAddrs : /\ deferred_breakpoints[r] # None /\ ModuleOf[r] = m
                      /\ Target[r] \in Addrs => breakpoints[Target[r]] = None}
DeferredIn(m) == {r \in RelAddrs : deferred_breakpoints[r] # None /\ ModuleOf[r] = m}
AtEnd(r)    == Target[r] = ModuleEnd[ModuleOf[r]]
InModule(r) == Target[r] \in Addrs /\ (AddrModule[Target[r]] = ModuleOf[r] \/ AtEnd(r))

\* breakpoints after the loop of event_module_loaded: each deferred breakpoint
\* is assigned to its address in key order, so the last one of an address wins.
LastAt(a, D) ==
    {r \in D : Target[r] = a /\ \A q \in D : Target[q] = a => KeyRank[q] <= KeyRank[r]}

Activated(D) ==
    [a \in Addrs |-> IF LastAt(a, D) = {} THEN breakpoints[a]
                     ELSE deferred_breakpoints[CHOOSE r \in LastAt(a, D) : TRUE]]

event_module_loaded(t) ==
    /\ pc[t] = "load_lock"
    /\ mutex = "free"
    /\ LET D == DeferredIn(loading[t])
       IN  \/ /\ \A r \in D : InModule(r)
              /\ breakpoints' = Activated(D)
              /\ deferred_breakpoints' =
                    [r \in RelAddrs |-> IF r \in D THEN None ELSE deferred_breakpoints[r]]
              /\ pc' = [pc EXCEPT ![t] = "cache"]
              /\ loading' = [loading EXCEPT ![t] = None]
              /\ UNCHANGED proc
           \/ /\ \E r \in D : ~InModule(r)
              /\ proc' = "aborted"
              /\ UNCHANGED <<tableVars, pc, loading>>
    /\ UNCHANGED <<mutex, suspend_params, stop_events, stopVars, suspended,
                   drVars, cur, calls, event, serverVars>>

-----------------------------------------------------------------------------
(* Clean calls, made in address order within a block.                      *)

\* relevant_block_clean_call: takes no lock; old instrumentation is ignored.
relevant_block_clean_call(t) ==
    /\ InCache(t)
    /\ Relevant \in calls[t]
    /\ calls' = [calls EXCEPT ![t] = @ \ {Relevant}]
    /\ \/ /\ StopsFor("RelevantBlock")
          /\ event' = [event EXCEPT ![t] = "RelevantBlock"]
          /\ pc' = [pc EXCEPT ![t] = "context"]
       \/ /\ ~StopsFor("RelevantBlock")
          /\ UNCHANGED <<event, pc>>
    /\ UNCHANGED <<mutex, tableVars, suspend_params, stop_events, stopVars, suspended,
                   drVars, proc, cur, loading, serverVars>>

\* A thread reaches an instrumented instruction and calls
\* update_fastforward_count, which waits for the mutex.
ReachBreakpoint(t) ==
    /\ InCache(t)
    /\ calls[t] # {}
    /\ Relevant \notin calls[t]
    /\ pc' = [pc EXCEPT ![t] = "hit_lock"]
    /\ UNCHANGED <<mutex, tableVars, suspend_params, stop_events, stopVars, suspended,
                   drVars, proc, cur, calls, event, loading, serverVars>>

\* --breakpoints.at(addr), in size_t arithmetic.
Decremented_unbounded(n) == n - 1
Decremented(n) == (n - 1) % CountMod

\* suspend_helper runs with update_fastforward_count's mutex.
HoldMutex_not(t) == UNCHANGED mutex
HoldMutex(t) == mutex' = t

\* update_fastforward_count with the mutex: count down, stop at zero with the
\* mutex still held if breakpoints stop execution, or find no breakpoint and
\* leave with stale = true.
update_fastforward_count(t) ==
    /\ pc[t] = "hit_lock"
    /\ mutex = "free"
    /\ \E a \in calls[t] :
          /\ \A q \in calls[t] : a <= q
          /\ calls' = [calls EXCEPT ![t] = @ \ {a}]
          /\ \/ /\ breakpoints[a] = None
                /\ pc' = [pc EXCEPT ![t] = "stale"]
                /\ UNCHANGED <<breakpoints, mutex, event>>
             \/ /\ breakpoints[a] # None
                /\ Decremented(breakpoints[a]) # 0
                /\ breakpoints' = [breakpoints EXCEPT ![a] = Decremented(@)]
                /\ pc' = [pc EXCEPT ![t] = "cache"]
                /\ UNCHANGED <<mutex, event>>
             \/ /\ breakpoints[a] # None
                /\ Decremented(breakpoints[a]) = 0
                /\ breakpoints' = [breakpoints EXCEPT ![a] = None]
                /\ IF StopsFor("Breakpoint")
                   THEN /\ event' = [event EXCEPT ![t] = "Breakpoint"]
                        /\ pc' = [pc EXCEPT ![t] = "context"]
                        /\ HoldMutex(t)
                   ELSE /\ pc' = [pc EXCEPT ![t] = "cache"]
                        /\ UNCHANGED <<mutex, event>>
    /\ UNCHANGED <<deferred_breakpoints, suspend_params, stop_events, stopVars, suspended,
                   drVars, proc, cur, loading, serverVars>>

\* The end of update_fastforward_count on stale instrumentation: the flush,
\* after the unlock.
FlushStale(t) ==
    /\ pc[t] = "stale"
    /\ total_flush
    /\ pc' = [pc EXCEPT ![t] = "cache"]
    /\ UNCHANGED <<mutex, tableVars, suspend_params, stop_events, stopVars, suspended,
                   cache, loaded, proc, cur, calls, event, loading, serverVars>>

-----------------------------------------------------------------------------
(* suspend_helper, a step per access to a shared global.                   *)

SaveContext(t) ==
    /\ pc[t] = "context"
    /\ stopped_context' = [event |-> event[t], block |-> cur[t]]
    /\ pc' = [pc EXCEPT ![t] = "block"]
    /\ UNCHANGED <<mutex, tableVars, suspend_params, stop_events, stopped_block,
                   suspend_event, suspended, drVars, proc, cur, calls, event, loading,
                   serverVars>>

SaveBlock(t) ==
    /\ pc[t] = "block"
    /\ stopped_block' = cur[t]
    /\ pc' = [pc EXCEPT ![t] = "signal"]
    /\ UNCHANGED <<mutex, tableVars, suspend_params, stop_events, stopped_context,
                   suspend_event, suspended, drVars, proc, cur, calls, event, loading,
                   serverVars>>

SignalSuspender(t) ==
    /\ pc[t] = "signal"
    /\ suspend_event' = TRUE
    /\ pc' = [pc EXCEPT ![t] = "sleep"]
    /\ UNCHANGED <<mutex, tableVars, suspend_params, stop_events, stopped_context,
                   stopped_block, suspended, drVars, proc, cur, calls, event, loading,
                   serverVars>>

\* dr_sleep returns, whether or not the thread was suspended meanwhile; a
\* breakpoint's clean call then unlocks the mutex.
Unlock_never(t) == UNCHANGED mutex
Unlock(t) == mutex' = IF event[t] = "Breakpoint" THEN "free" ELSE mutex

WakeUp(t) ==
    /\ pc[t] = "sleep"
    /\ Running(t)
    /\ Unlock(t)
    /\ event' = [event EXCEPT ![t] = None]
    /\ pc' = [pc EXCEPT ![t] = "cache"]
    /\ UNCHANGED <<tableVars, suspend_params, stop_events, stopVars, suspended,
                   drVars, proc, cur, calls, loading, serverVars>>

-----------------------------------------------------------------------------

\* The steps a thread takes inside the client, which DynamoRIO always lets it
\* finish.
ClientStep(t) ==
    \/ event_basic_block(t) \/ event_basic_block_unset(t) \/ event_module_loaded(t)
    \/ update_fastforward_count(t) \/ FlushStale(t)
    \/ SaveContext(t) \/ SaveBlock(t) \/ SignalSuspender(t) \/ WakeUp(t)

\* The steps it takes in the application's code.
AppStep(t) ==
    \/ Spawn(t) \/ Exit(t)
    \/ \E b \in Blocks : EnterBlock(t, b)
    \/ \E m \in Modules : LoadModule(t, m) \/ UnloadModule(t, m)
    \/ event_exit(t)
    \/ relevant_block_clean_call(t) \/ ReachBreakpoint(t)

=============================================================================
