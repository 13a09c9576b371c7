------------------------------ MODULE EvalState ------------------------------
(***************************************************************************)
(* The state the concrete_eval client shares between the application's     *)
(* threads (its DynamoRIO callbacks) and the thread that serves RPCs: the  *)
(* globals of options.cpp, DynamoRIO's view of the process, and the        *)
(* position of every thread.  AppThreads and EvaluatorHandler define the   *)
(* two sides' actions on it; ConcreteEval composes them.                   *)
(*                                                                         *)
(* Addresses are naturals, as app_pc values are; a basic block is the pair *)
(* <<start, end>> that stopped_block keeps, end exclusive.                 *)
(***************************************************************************)
EXTENDS Integers, FiniteSets

CONSTANTS
    Threads,        \* application threads
    Addrs,          \* addresses of the instructions of the application
    Blocks,         \* the basic blocks DynamoRIO may build, <<start, end>>
    Modules,        \* modules the application may load
    AddrModule,     \* [Addrs -> Modules \cup {None}]: the module an address is in
    ModuleEnd,      \* [Modules -> Addrs \cup {None}]: modinfo->end, one past a module's last
                    \* byte, if some other code of the application begins there
    RelAddrs,       \* relative addresses a client may use (keys of type RelAddr)
    ModuleOf,       \* [RelAddrs -> Modules]: their modulename
    Target,         \* [RelAddrs -> Addrs \cup {Unresolvable}]: start + offset, or the symbol
    KeyRank,        \* [RelAddrs -> Nat]: their order in std::map (RelAddr::operator<)
    BpArgs,         \* the addresses clients name: of Addrs \cup RelAddrs, or None (neither set)
    Counts,         \* the counts clients give
    CountMod,       \* 2^64 in the code: size_t arithmetic is modulo CountMod
    StopSets,       \* the stopEvents arguments clients give
    SuspendPoints,  \* where DynamoRIO can suspend a thread: the code cache, maybe dr_sleep
    NDEBUG,         \* is the client built with assert() compiled out?
    None,           \* a disengaged std::optional, a null pointer, an absent map entry
    Unresolvable    \* an address whose resolution throws

EventType == {"Breakpoint", "Timeout", "Termination", "RelevantBlock",
              "BeforeSystemCall", "AfterSystemCall"}

\* The point of a block where the RelevantBlock clean call sits: before every
\* instruction, so before every address.
Relevant == 0
Points   == Addrs \cup {Relevant}
Count    == 0 .. CountMod - 1

ASSUME AddrAssumption ==
    /\ Addrs \subseteq Nat \ {Relevant}
    /\ Blocks \subseteq Addrs \X Nat
    /\ AddrModule \in [Addrs -> Modules \cup {None}]
    /\ ModuleEnd \in [Modules -> Addrs \cup {None}]
    /\ None \notin Modules \cup Blocks

\* A basic block does not run from one module into another.
ASSUME BlockAssumption ==
    \A b \in Blocks, a \in Addrs :
        b[1] <= a /\ a < b[2] => AddrModule[a] = AddrModule[b[1]]

ASSUME RelAssumption ==
    /\ ModuleOf \in [RelAddrs -> Modules]
    /\ Target \in [RelAddrs -> Addrs \cup {Unresolvable}]
    /\ KeyRank \in [RelAddrs -> Nat]
    /\ RelAddrs \cap Addrs = {}
    /\ None \notin Addrs \cup RelAddrs
    /\ Unresolvable \notin Addrs \cup {None}

ASSUME ArgAssumption ==
    /\ BpArgs \subseteq Addrs \cup RelAddrs \cup {None}
    /\ CountMod \in Nat \ {0, 1}
    /\ Counts \subseteq Count
    /\ None \notin Count
    /\ StopSets \subseteq SUBSET EventType
    /\ None \notin StopSets

ASSUME ThreadAssumption ==
    /\ Threads \cap {"free", "server", "broken"} = {}
    /\ SuspendPoints \subseteq {"cache", "sleep"}
    /\ NDEBUG \in BOOLEAN

VARIABLES
    \* The globals of options.cpp.
    mutex,                  \* owner of the mutex; "broken" after an unlock by a non-owner
    deferred_breakpoints,   \* [RelAddrs -> Count \cup {None}]
    breakpoints,            \* [Addrs -> Count \cup {None}]
    suspend_params,         \* is the optional engaged?
    suspend_event,          \* is the auto-reset event signalled?
    stop_events,            \* a set of events, or None
    stopped_context,        \* the event, and the block whose register context was saved, or None
    stopped_block,          \* a block, or None
    \* DynamoRIO and the process.
    suspended,              \* the threads DynamoRIO holds suspended
    cache,                  \* [Blocks -> instrumented points of the fragment, or None]
    flush_pending,          \* a delayed flush was requested and is still to be done
    loaded,                 \* the modules dr_lookup_module_by_name finds
    proc,                   \* "up", "exited" or "aborted"
    \* The application's threads.
    pc,                     \* where a thread is
    cur,                    \* the block it builds or executes
    calls,                  \* instrumented points still to come in its pass over the block
    event,                  \* the event it is stopping for, in suspend_helper
    loading,                \* the module whose load it is reporting
    \* The server thread.
    server,                 \* where it is
    request,                \* the request it serves
    resolved,               \* the result of AbsOrRelAddr_to_AbsAddr it holds
    reply                   \* the last reply it sent

tableVars  == <<breakpoints, deferred_breakpoints>>
stopVars   == <<stopped_context, stopped_block, suspend_event>>
drVars     == <<cache, flush_pending, loaded>>
threadVars == <<pc, cur, calls, event, loading>>
serverVars == <<server, request, resolved, reply>>
vars == <<mutex, tableVars, suspend_params, stop_events, stopVars, suspended,
          drVars, proc, threadVars, serverVars>>

-----------------------------------------------------------------------------

Requests ==
    [op : {"addBreakpoint"}, addr : BpArgs, count : Counts]
      \cup [op : {"delBreakpoint"}, addr : BpArgs]
      \cup [op : {"executeUntilEvent"}, stopEvents : StopSets]
      \cup [op : {"getBreakpoints", "getCodeBlock", "getContext"}]

ThreadPC == {"unborn", "cache", "bb_lock", "load_lock", "hit_lock", "stale",
             "context", "block", "signal", "sleep"}

ServerPC == {"boot", "boot_suspend", "idle", "addBreakpoint", "add_lock",
             "delBreakpoint", "del_lock", "del_flush", "getBreakpoints",
             "executeUntilEvent", "exec_check", "exec_flush", "exec_resume",
             "exec_running", "exec_unset", "exec_wait", "exec_set", "exec_suspend",
             "exec_result", "getCodeBlock", "getContext"}

Context == [event : EventType, block : Blocks]

\* An optional that is empty is told from one that is engaged.
ASSUME ContextAssumption == None \notin Context

\* The state dr_client_main leaves behind when the application starts: the
\* globals as options.cpp defines them, the server thread created but not yet
\* run, one application thread about to execute.
Init ==
    /\ mutex = "free"
    /\ deferred_breakpoints = [r \in RelAddrs |-> None]
    /\ breakpoints = [a \in Addrs |-> None]
    /\ suspend_params = FALSE
    /\ suspend_event = FALSE
    /\ stop_events = None
    /\ stopped_context = None
    /\ stopped_block = None
    /\ suspended = {}
    /\ cache = [b \in Blocks |-> None]
    /\ flush_pending = FALSE
    /\ loaded = {}
    /\ proc = "up"
    /\ \E main \in Threads :
          pc = [t \in Threads |-> IF t = main THEN "cache" ELSE "unborn"]
    /\ cur = [t \in Threads |-> None]
    /\ calls = [t \in Threads |-> {}]
    /\ event = [t \in Threads |-> None]
    /\ loading = [t \in Threads |-> None]
    /\ server = "boot"
    /\ request = None
    /\ resolved = None
    /\ reply = None

Replies ==
    [op : {"addBreakpoint", "delBreakpoint"}, status : {"ok", "exception"}]
      \cup [op : {"getBreakpoints"}, status : {"ok"}, value : SUBSET (Addrs \X Count)]
      \cup [op : {"executeUntilEvent"}, status : {"ok"}, value : EventType]
      \cup [op : {"getCodeBlock"}, status : {"ok"}, value : Blocks]
      \cup [op : {"getContext"}, status : {"ok"}, value : Context]
      \cup [op : {"executeUntilEvent", "getCodeBlock", "getContext"}, status : {"exception"}]

\* Every variable has its type.
TypeOK ==
    /\ mutex \in Threads \cup {"free", "server", "broken"}
    /\ deferred_breakpoints \in [RelAddrs -> Count \cup {None}]
    /\ breakpoints \in [Addrs -> Count \cup {None}]
    /\ suspend_params \in BOOLEAN
    /\ suspend_event \in BOOLEAN
    /\ stop_events \in StopSets \cup {None}
    /\ stopped_context \in Context \cup {None}
    /\ stopped_block \in Blocks \cup {None}
    /\ suspended \subseteq Threads
    /\ cache \in [Blocks -> (SUBSET Points) \cup {None}]
    /\ flush_pending \in BOOLEAN
    /\ loaded \subseteq Modules
    /\ proc \in {"up", "exited", "aborted"}
    /\ pc \in [Threads -> ThreadPC]
    /\ cur \in [Threads -> Blocks \cup {None}]
    /\ calls \in [Threads -> SUBSET Points]
    /\ event \in [Threads -> EventType \cup {None}]
    /\ loading \in [Threads -> Modules \cup {None}]
    /\ server \in ServerPC
    /\ request \in Requests \cup {None}
    /\ resolved \in Addrs \cup {None}
    /\ reply \in Replies \cup {None}

-----------------------------------------------------------------------------

\* A thread exists, and may take steps, when it was created and DynamoRIO does
\* not hold it.
Live(t)    == pc[t] # "unborn"
Running(t) == Live(t) /\ t \notin suspended

\* The instructions of a block.
Instrs(b) == {a \in Addrs : b[1] <= a /\ a < b[2]}

\* stop_events->count(e).  Before the first executeUntilEvent the optional is
\* empty and the read is undefined: the zeroed storage reads as an empty set,
\* or a checking library aborts (event_basic_block is the only caller then).
StopsFor(e) == stop_events # None /\ e \in stop_events

\* total_flush: the call sits inside assert(), so an NDEBUG build drops it.
total_flush_dropped == UNCHANGED flush_pending
total_flush == flush_pending' = (flush_pending \/ ~NDEBUG)

\* AbsOrRelAddr_to_AbsAddr: an absolute address as it is; a relative one once
\* its module is loaded (None, std::nullopt, before); Unresolvable is the
\* exception for a missing symbol or a structure with no field set.
Resolve(arg) ==
    IF arg \in Addrs THEN arg
    ELSE IF arg = None THEN Unresolvable
    ELSE IF ModuleOf[arg] \in loaded THEN Target[arg]
    ELSE None

=============================================================================
