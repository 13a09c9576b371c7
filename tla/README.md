# A TLA+ model of the concrete evaluator

The repository is a DynamoRIO client, `concrete_eval`, that lets another program (a concolic
executor) drive an application through a Thrift service: set breakpoints, run until an event,
read the code block and the registers where the application stopped. This directory holds
TLA+ modules that model the client, the TLC configurations that check them, and proofs checked
by TLAPS.

All paths below are relative to `src/`.

## 1. The system

### Components

| component | code | state | operations |
|---|---|---|---|
| shared evaluator state | `options.cpp`, `options.hpp` | `mutex`, `breakpoints`, `deferred_breakpoints`, `suspend_params`, `suspend_event`, `stop_events`, `stopped_context`, `stopped_block` | read and written by everything below |
| DynamoRIO callbacks and clean calls | `concrete_eval.cpp` | the code cache's instrumentation | `event_basic_block`, `event_module_loaded`, `event_exit`, `update_fastforward_count`, `relevant_block_clean_call` |
| suspension helpers | `helpers.hpp` | – | `suspend_helper`, `suspend_application_threads`, `resume_application_threads`, `total_flush`, `assert_helper`, `AbsOrRelAddr_to_AbsAddr` |
| RPC handler | `gen-cpp/ConcreteEvaluator_server.cpp` | – (uses the shared state) | `addBreakpoint`, `delBreakpoint`, `getBreakpoints`, `executeUntilEvent`, `getCodeBlock`, `getContext` |
| address orders | `helpers.cpp`, `gen-cpp/concolic_types.h`, the casts of `gen-cpp/ConcreteEvaluator_server.cpp` | the keys of `deferred_breakpoints`, the set that `getBreakpoints` answers with | `operator<`, `operator==` of `OffsetOrSymbol`, `RelAddr`, `AbsOrRelAddr`, `Breakpoint` |
| wire format | `gen-cpp/concolic_types.cpp`, the argument and result structures of `gen-cpp/ConcreteEvaluator.cpp` | a structure and its `__isset` | `read`, `write` |
| plain client, processor, server loop | `gen-cpp/ConcreteEvaluator.cpp`, `start_server` | connections, the call in progress | `send_`, `recv_`, `dispatchCall`, `process_` |
| concurrent client | the last part of `gen-cpp/ConcreteEvaluator.cpp` | sequence numbers, read mutex, pending header | `send_`, `recv_` |
| start, option parsing, build | `dr_client_main`, `CMakeLists.txt` | – | – |

### How they interact

The application's threads execute code that DynamoRIO copied into its code cache. When
DynamoRIO builds a fragment it calls `event_basic_block`, which inserts clean calls; when the
application loads a module it calls `event_module_loaded`, which turns deferred breakpoints
into breakpoints. A clean call that decides to stop goes into `suspend_helper`: it writes the
record of the stop (`stopped_context`, then `stopped_block`), signals `suspend_event` and
sleeps, expecting to be suspended there or soon after. The server thread, a client thread of
DynamoRIO, serves RPCs one at a time. `executeUntilEvent` sets `stop_events`, flushes the code
cache, clears the record, resumes all threads, waits for the event, suspends all threads, and
returns the event in the record. The other operations run while the application is suspended.
A client program reaches the server thread through Thrift over one TCP connection at a time.

### What is hard

- One mutex covers the tables, but much state (`stop_events`, the record of the stop,
  `suspend_params`, address resolution) is used without it and is protected only by threads being
  suspended at that time.
- `suspend_helper` sleeps *with the mutex held* (breakpoints) or without it (relevant blocks).
- The event is auto-reset and may be signalled by several threads, or twice by one.
- The code cache lags behind the tables until a delayed flush is performed.
- Suspension is not instantaneous: threads are stopped one by one where they can be stopped.
- Essential calls are arguments of `assert()`.
- There is no callback for a module's unload: what was activated in it stays in the table, and the
  module may come back.
- DynamoRIO calls `event_basic_block` again for a block that already has a fragment (for a trace),
  from tables that may have changed.
- The orders of addresses compare values whether they are set or not, `operator==` what is set.
- Replies are tied to calls by nothing but their place in the byte stream (plain client), or are
  read by a thread that does not own them (concurrent client).

### What makes each part correct

| component | properties |
|---|---|
| shared state, callbacks, handler together | `HandlerExclusion`, `SuspendParamsSet`, `StoppedMutexFree`, `ResolvedStillCurrent`, `CacheCoherent`, `NoneStranded`, `ReplyInStopEvents`, `StopRecordConsistent`, `CountsKept`, `RequestAnswered`, `StopCompletes`, and the abstract service `StopService` (`ImplementsService`) |
| address orders | `MapAgrees`, `AnswerComplete`, `RelLessIsWeakOrder`, `BreakpointLessIsTotalOrder` |
| wire format | `RoundTrip`, `Framing`, `ReadEnds` |
| RPC session | `OwnReply`, `OutcomeFaithful`, `ServedCallEnds`, `CallEndsWithProcess`, and the abstract service `CallService` (`ImplementsCalls`) |
| concurrent client | `ReplyToOwner`, `HeaderThenBody`, `DeadForAReason`, `CallEnds` |

`PROJECT.json` lists the hazards, each at its line, with the properties that would notice it.

## 2. The modules

```
EvalState ── AppThreads ───────┐
        └─── EvaluatorHandler ─┴─ ConcreteEval ── MCConcreteEval
                                   │   │ (implements) ─► StopService
                                   └─ ConcreteEvalTyping ── ConcreteEvalProofs
                                                              ├─ ConcreteEvalStopProofs
                                                              └─ ConcreteEvalRefinement
RpcSession ── RpcSessionProofs        ConcurrentClient ── ConcurrentClientProofs
    │ (implements) ─► CallService     AddressOrder ── AddressOrderProofs
                                      StructCodec ── StructCodecProofs
```

**EvalState** declares the constants and the state: each global of `options.cpp` is a variable
of the same name, beside DynamoRIO's own state (`suspended`, `cache`, `flush_pending`, `loaded`),
the process (`proc`), the position of each thread (`pc`, `cur`, `calls`, `event`, `loading`) and of
the server thread (`server`, `request`, `resolved`, `reply`). It also has the helpers both sides
use: `total_flush`, `Resolve` (`AbsOrRelAddr_to_AbsAddr`), `StopsFor`.

**AppThreads** has an action for each callback and clean call, and the environment of the
application: threads that start and end, entering a block (executing its fragment, or having it
built, or built again), modules that are loaded and unloaded, the process exiting, DynamoRIO performing
the delayed flush. `suspend_helper` is three steps (context, block, signal) and a sleep.

**EvaluatorHandler** is the server thread: its start, the six operations, and suspension of the
threads one by one. `executeUntilEvent` is ten steps, one for each access to shared state.

**ConcreteEval** composes the two, states the properties, and instantiates **StopService**, the
abstract specification: while the program is stopped only client requests change the tables, one
entry at a time, and the record of the stop is frozen; while it runs only hits and activations
change the tables.

**AddressOrder** is the two containers that look things up by the hand-written `operator<` while
clients mean the generated `operator==`. `deferred_breakpoints`, a `std::map`, is a sequence of keys
beside the set of addresses that clients stored. The address of a module that is not loaded is
deferred before anyone looks at its offset, so `RelAddr` has every address a message can hold: an offset,
a symbol (the empty one too), both or neither. `operator<` compares their values only, so the map has
one entry for all the addresses of one value (`SameKey`): the first that was deferred. `MapAgrees` says
that this is all that can be shared. The `std::set` of `getBreakpoints` is built from
entries whose pointers and counts were cast to the IDL's signed integers; the address that a client
casts back must be the one in the table.

**StructCodec** writes any message of the IDL and reads it back as the generated readers do. The
`read` and `write` functions of nested structures call one another; here a step handles one field,
and a path of fields from the message down (`path`, `into`) stands for the stack of calls. The writer
may be that of another version: it may order fields differently and put fields the schema does not
have, one in another, anywhere. The connection may be lost at any place. A scalar or a container is
one token with the header of its field, and an object is the function on the members that are set,
`__isset` being its domain.

**RpcSession** has clients that connect, call, give up and connect again, the TSimpleServer loop,
the processor, the handler's outcome, and the process that may end at any time. It implements
**CallService**, which knows nothing of connections, messages or queues: a call is executed at most
once, the calls of a client in the order it made them (those it gave up included), and a call that is
answered was executed before and ends the way its execution did.

**ConcurrentClient** has threads that share one connection.

### Modelling decisions

- *Addresses* are numbers, a block is `<<start, end>>`; the point of the RelevantBlock call is
  `Relevant` (0), before every address. A register context is abstracted to the event and block of
  the thread it was saved for, which is what tells one stop from another.
- *Critical sections* that nobody can see the middle of are one step that needs the mutex free.
  The two that others do see, `update_fastforward_count` while it stops and `delBreakpoint`'s
  flush, take and release the mutex in separate steps.
- *Suspension*: `SuspendPoints` says where DynamoRIO can suspend a thread. `{"cache"}` (in
  the code cache, not inside a client's clean call) is what the checks and the mutex theorem take. With
  `"sleep"` added, a thread suspended inside `dr_sleep` keeps the mutex and `StoppedMutexFree` fails;
  whether that can happen is for DynamoRIO to say, not for this code.
- *The event* resets when a wait returns and remembers one signal.
- *Unlocking a mutex one does not own* (`assert_helper` at
  `gen-cpp/ConcreteEvaluator_server.cpp:117`) leaves it free or broken, or ends the process.
- *`assert()`* is dropped with `NDEBUG`; `DR_ASSERT` is kept. `CMakeLists.txt` sets no build type, so the
  default build keeps `assert()`.
- *Reading the empty `stop_events`* in `event_basic_block` before the first `executeUntilEvent` is
  undefined: an empty set, or an abort.
- *Application*: code of a module runs only after its load event; a module is unloaded when nobody
  executes or reports it, and DynamoRIO then drops its fragments; it may be loaded again, at the same
  place. A thread ends between two blocks, and its identity may be taken by a later one. Client
  threads of DynamoRIO exist from the start of the application.
- *Instrumentation twice*: a thread that reaches a block may have it built although it has a fragment,
  as DynamoRIO does for a trace; the new fragment replaces the old one. The calls that only
  translate a fault (`translating`) change nothing and are left out.
- *The end of a module*: `event_module_loaded` accepts a resolved address equal to `modinfo->end`
  (`AtEnd`). `CacheCoherent` excludes such addresses (`EdgeTargets`): code that begins there belongs
  to no module that is being loaded, and may run in fragments that nothing flushes.
- The relative addresses of the core (`RelAddrs`) differ in a value, so each is a key of its own; those
  that differ only in what is set are in AddressOrder.
- `size_t` counts are modulo `CountMod`, at least 2.

## 3. The runs

| run | question | instance |
|---|---|---|
| `MCStop` | type, exclusion, mutex, record and counts, with breakpoint stops | 2 threads, a block of 2 instructions and one that starts at its second, counts 0 and 1, modulus 3 |
| `MCModules` | current addresses, cache coherence, no stranded breakpoint, the right event, and that ConcreteEval implements StopService | 2 threads, 2 blocks, one in a module that loads and unloads; a deferred breakpoint that resolves and one that does not; both kinds of stop |
| `MCLive` | every request is answered, every stop completes | `MCStop` with the first block and count 1, under `Fairness`, no symmetry |
| `MCAddressOrder` | the map finds the values that were stored; the set loses and alters nothing | 2 module names, 2 offsets, 2 symbols, each set or not: 9 addresses of a module for 4 keys, all 8100 contents of the map; words of 4 bits with 3 pointers and 2 counts: all 27 tables |
| `MCStructCodec` | round trip, framing, termination | all 12 messages, with every choice of the members that are set; up to two deviations (`MaxDeviations`: foreign fields, one in the other among them, or fields out of order), every cut |
| `MCRpcSession` | calls get their own outcome, and end, also when the process does; RpcSession implements CallService | 2 clients, 2 connections, 3 calls, all methods and an unknown one |
| `MCConcurrentClient` | replies reach their owners, the stream stays framed, calls end | 3 callers, 3 calls |
| `MCStale`, `MCTorn`, `MCOverwrite`, `MCOutside`, `MCNdebug` | the disagreements of section 5 | 1 or 2 threads |

**Why the bounds are enough.** Races here are between one stopping thread and another thread, or
between threads and the single server thread: two application threads have all of them (a thread
that stops and one that waits for the mutex, one that stops too, one that has not been suspended
yet). A block of two instructions lets a thread take a second hit in the pass in which it took the
first; a second block that overlaps it gives two stops at one address different records. Modulus 3 makes a count of 0 wrap to 2, so that wrapping, counting and reaching zero differ.
One module that comes and goes shows every order of deferring, loading, hitting and unloading; a second
only repeats it. The pointers 7, 8 and 15 of 4-bit words are on both sides of the sign and at the top,
which is where a cast or a signed comparison can go wrong. Two values of each field, 0 (what a field
holds that is not set) and another, give every pair of addresses that tie and every pair that does not. No layout of the runs has code at a module's end
(`ModuleEnd` is `None` throughout): that case is in the theorems only.
For the RPC side three calls are the least with which a call, an abandoned one before it and one on
the other connection coexist; for the shared connection three callers are the least with
which a thread reads a reply for a second while a third sleeps. `MaxConns`, `MaxCalls`, `MaxSeq` and
`MaxDeviations` bound counters by guards; nothing else is bounded. Two deviations are the least with
which a foreign structure holds a field, or one deviation follows another in the message. There is one value
(`Value`), so TLC would not see two members' values exchanged; the theorem has any set of values.

**Symmetry** of application threads is used in the runs for safety and refinement only; no constant but
`Threads` is permuted and nothing distinguishes the threads.

**CHECK_DEADLOCK FALSE** is stated where the system really may stop: the process exits or aborts, the
mutex breaks, all calls of a bounded run are made, a message has been read.

**Fairness.** `ConcreteEval`: weak fairness of the server thread's steps and of each
thread's steps inside the client, because the operating system runs every thread and client code
never blocks but on the mutex, the event and the sleep, whose conditions are in the guards; strong
fairness of suspending a thread, because DynamoRIO retries while the thread moves in and out of the
places where it can be stopped. Nothing is assumed of the application, clients, or delayed
flushes, and `SuspendFails` (DynamoRIO gives up, `DR_ASSERT`) is possible at any time.
`RpcSession`: the server loop runs, handlers other than `executeUntilEvent` end, waiting clients
read; no client has to call or hang up. `ConcurrentClient`: threads run, the server answers.
`StructCodec`: the writer writes (it stops deviating at the bound, having a finite message), and the reader,
which finds a whole message before it or an exception, reads.

## 4. What is proved

For every value of the constants that satisfies the named assumptions of the module the theorem
is about (`AddrAssumption` … `ContextAssumption` in `EvalState`, `OrderAssumption` and
`WordAssumption` in `AddressOrder`, `BoundAssumption` and `NoneAssumption` in `RpcSession`,
`SeqAssumption` in `ConcurrentClient`, `BoundAssumption` in `StructCodec`), and the hypotheses in the
last column:

| theorem | what it says | hypotheses |
|---|---|---|
| **core** (`ConcreteEval`) | | |
| `TypeOKHolds` | every variable keeps its type | |
| `HandlerExclusionHolds` | no thread can take a step while the server is outside the running stretch | |
| `ResolvedStillCurrentHolds` | an address resolved before locking is still current when used | |
| `SuspendParamsSetHolds` | `suspend_params` is set whenever a thread is suspended | `~NDEBUG` |
| `StoppedMutexFreeHolds` | nobody holds the mutex when the server is ready for a request | `SuspendPoints = {"cache"}` |
| `CacheCoherentHolds` | without an outstanding flush, fragments call wherever the tables say, except at the address just past a module's end (`EdgeTargets`) | `~NDEBUG` |
| `NoneStrandedHolds` | a deferred breakpoint of a loaded module exists only while its load is being reported | |
| `ReplyInStopEventsHolds` | `executeUntilEvent` answers with an event of its own stop set, or an exception | |
| `StopRecordConsistentHolds` | context and block of a stop are one thread's | `OnlyBreakpointsStop`: `SuspendPoints = {"cache"}`, no stop set with `RelevantBlock` |
| `CountsKeptHolds` | a count changes only by the threads that pass the breakpoint, one at a time and round at 0, until a client deletes it | `RelAddrs = {}` |
| `ServiceImplemented` | `Spec => ImplementsService`: the core implements `StopService` | |
| **address orders** | | |
| `RelLessIsWeakOrder` | `RelAddr::operator<` is a strict weak order on every relative address; two are equivalent exactly when their values agree | |
| `IDLAddressesTie` | of addresses with exactly one field set, only offset 0 and the empty symbol of one module are different and equivalent | |
| `BreakpointLessIsTotalOrder` | `Breakpoint::operator<` is a strict total order on breakpoints with an absolute address, the only ones `getBreakpoints` makes | |
| `MapAgreesHolds` | the map holds what clients stored, and finds an address when one with its values was stored | |
| `AnswerCompleteHolds` | `getBreakpoints` answers with every breakpoint of the table, address and count unharmed | |
| **wire format** | | |
| `RoundTripHolds` | what is read is what was written, through any order of fields and any foreign ones | |
| `FramingHolds` | a message is consumed exactly, and no more than it has is asked for | |
| **RPC session** | | |
| `TypeOKHolds` | every variable keeps its type | |
| `OwnReplyHolds` | a client takes a reply for the answer to a call only when it is | |
| `OutcomeFaithfulHolds` | what a call returns or throws is what its handler did, or a failure of the transport | |
| `CallsImplemented` | `Spec => ImplementsCalls`: sessions implement `CallService` | |
| **concurrent client** | | |
| `ReplyToOwnerHolds`, `HeaderThenBodyHolds` | a caller's reply is its own; one header at a time is out | |
| `DeadForAReasonHolds` | a client is declared dead only for a lost connection or a senseless reply | |

Of the hypotheses on the core, TLC refutes the statements without `~NDEBUG` (`MCNdebug`, for `SuspendParamsSet`), without
the one on stop sets (`MCTorn`) and without `RelAddrs = {}` (`MCOverwrite`); a configuration with
`SuspendPoints = {"cache", "sleep"}` would refute the one on the mutex.

The proofs are in a module beside each component's: `ConcreteEvalTyping` (types),
`ConcreteEvalProofs` (exclusion to cache coherence), `ConcreteEvalStopProofs` (stranded breakpoints,
events, record, counts), `ConcreteEvalRefinement`, `AddressOrderProofs`, `RpcSessionProofs`,
`ConcurrentClientProofs`, `StructCodecProofs`.

### The argument

**Core.** `TypeOK` is not inductive: `addBreakpoint` stores `request.count`, so a handler's
position must determine the kind of its request (`RequestFits`), and a thread in the client's code
must have a block or a module (`ThreadFits`); their conjunction `Typing` is. `Exclusion` adds to
`HandlerExclusion` that suspended threads are where they can be suspended (`SuspendedFits`), so that no
thread is held in the middle of a callback: the lemma `ThreadsStepOnlyRunning` then says that a thread's
step implies the server is in its running stretch, and most other proofs dismiss all thread steps with
it. `ParamsInv` puts the four steps around a suspension in order. `MutexInv` says who can
hold the mutex: a thread stopping for a breakpoint, or `delBreakpoint` at its flush. `CacheInv` needs
`LoadedFirst`, that no fragment of a module exists before its load event is over, because activating
a breakpoint does not flush; and it is an invariant only of the stretch after
`executeUntilEvent`'s flush, since the tables change before it.

`Awaited` strengthens `NoneStranded` with where the exception is allowed: a module is being loaded
only by a thread in the callback. Its other half is `ResolvedStillCurrent`: `addBreakpoint` defers
under an answer that it got before it locked. `AskedFor` follows an event from the thread that
chose it, through the record, to the reply, all within one `stop_events`; once a new stop begins
(`NewStop`), the record is empty or of the new set. `RecordInv` says that whoever writes the record
owns the mutex, which only breakpoint stops do.

**Refinement of `StopService`.** The mapping sends the server's position to the phase of
the service. A step of a thread is a step of the running phase, because no thread can step in
another one; a handler changes the tables in one step, in the phase of its request; a resume clears
the record and starts the running phase; every other step stutters.

**Address map.** `MapInv`: the keys are a sorted sequence, and its elements are what was stored.
That the lower bound exists is the least position of the sequence (`WellFoundedInduction`). That an entry
found there has the key's values, and that no other has (`OneHasKey`), is the weak order; insertion
and removal at that position keep the order.

**Breakpoint set.** `BreakpointLessIsTotalOrder`, hence `InsertAdds`: the order tells two absolute breakpoints apart, so an insertion drops
none. `InsertAll` then says that the fold of insertions over a finite set is the set. The fold is the
chosen function that satisfies its recursive equation; the identity satisfies it, so the chosen function
does, and a subset of least size on which it is not the identity is impossible. `BreakpointsInv` types
the table and `CastsBack` undoes the casts.

**Wire format.** The invariant says that there is a trace `t` of where the writer was (path, members
written, depth in a foreign field) before each token, each token leading from one entry to the next
(`Trace`), and that the reader stands where the writer stood before the token it reads next, with those
members that were complete by then (`Follows`): written, and not still open (`Open`). A token fits
one kind of step only, because a number belongs to one field of a structure (`GoodSchema`, which the schemas
satisfy) and a foreign field matches none; and only the last token of the message ends it (`Ends`). It
remains that the writer leaves nothing out. `Ahead` says that a member still to be written is inside a structure
that is open or still to be written; at the end only the message is open and it has nothing left, so
a shortest member still to be written would be in a shorter one (`WellFoundedInduction`).

**RPC session.** The invariant has a part that outlives the process (`Always`: connections are
numbered apart, a client's call is its last, handled calls were made, unread replies fit the calls
they answer) and one that holds while it is up (`Alive`): connections are served in the order they
were opened and those done with are hung up and empty (`InOrder`); at most one request is sent or being
handled on a connection, and none beside an unread reply (`OnePerConn`, `RepliesFit`); and it is for
the call that the client of that connection is waiting for, or for one given up (`RequestsFit`). A client that gives a call up abandons its connection with
it: that is why no sequence number is needed.

**Concurrent client.** `IInv` is the discipline of the read mutex: whoever reads or holds a
header owns it (`ReadersLock`), and headers are held only there, none while one is pending
(`HeaderHeld`). `FlightInv` adds where sequence numbers can be: each is given out once, and while the
client is alive it is in at most one place (request, reply, or a header that is out) and still has a
monitor there.

### Model-checked only

- Liveness, which is outside the prover's reach: `RequestAnswered`, `StopCompletes`, `ServedCallEnds`,
  `CallEndsWithProcess`, `CallEnds`, `ReadEnds`.
- The counterexamples of section 5, which only a run can show.

Every safety property of a passing run is a theorem, under the hypotheses of the table.

## 5. Where code and comments disagree

Each has a run in which TLC finds the violation.

- `MCStale`: `executeUntilEvent`'s assertion "Unable to locate stopped context." fails: a signal left
  from an earlier stop wakes the next call before anything stopped.
- `MCTorn`: `stopped_context` and `stopped_block` mix two threads' stops on relevant blocks, where no
  mutex is held. (`StopRecordConsistent` holds when stops are for breakpoints: `MCStop`.)
- `MCOverwrite`: a deferred breakpoint replaces the count of an existing one when its module
  loads. (`CountsKept` holds without deferred breakpoints: `MCStop`.)
- `MCOutside`: a deferred breakpoint that the service accepted fails the assertion of
  `event_module_loaded` that it lies in its module.
- `MCNdebug`: with `NDEBUG` the resume disappears with its `assert()`.

One more has no run of its own, because `AddressOrder` states what the code does instead. "Exactly one
must be set" (`concolic.thrift:10`) is not checked before an address is deferred, and the orders at
`helpers.cpp:9`-`19` look at values: with `{offset = 0}` of an unloaded module deferred, `addBreakpoint`
of its `{symbol = ""}`, or of an address with neither field set, throws "Breakpoint already exists"
(`ConcreteEvaluator_server.cpp:43`) although `operator==` tells them apart, and `delBreakpoint` of either
removes the first (`:67`-`:68`). `IDLAddressesTie` says that of the addresses the IDL allows, only those
two tie.

Comments that the code does not follow, without a run because nothing observable depends on them:
"MUST LOCK" at `helpers.hpp:4` and `helpers.hpp:13` (the caller holds no lock, and
`HandlerExclusion` is why that works), and "We need to flush without holding the lock" at
`concrete_eval.cpp:137` (`delBreakpoint` flushes with it).

## 6. What is not modelled

- Null, multiface, factory and skeleton classes: generated, never instantiated.
- Option parsing, `HexTo`, logging, `printTo`, and the parts of `dr_client_main` that register
  callbacks: no state that anything else reads. Only the state they leave is modelled (`Init`).
- Two modules with one name: `dr_lookup_module_by_name` answers with one of them, and which is not in
  this code. `Resolve` takes names to be unique.
- Calls of `event_basic_block` that only translate a fault (`translating`), and what `DR_EMIT_DEFAULT`
  promises about them: DynamoRIO compares them with what was built; the code does not.
- Thrift's event-handler hooks in the processor: no handler is ever set.
- The element loops of containers on the wire, and the register bytes of `getContext`: one value.
- Thrift's and DynamoRIO's internals: actions marked external in `PROJECT.json`, modelled from how the
  code uses them.

## 7. Plan

Done, in order of importance: the core with its safety, liveness and refinement; modules that unload
and come back, threads that end, blocks instrumented again; the address orders with both containers;
the wire format; the RPC session with `CallService`; the concurrent client; and the proofs of section 4,
which cover every safety property of every run.

What could follow, in order:

1. `CallService` with the handlers of `ConcreteEval` in place of its opaque executions, so that what a client
   sees over a broken connection is stated of breakpoints. The two state spaces multiply: it needs
   `StopService` as the server, not the core.
2. A relation in place of the function `Resolve`, for modules that share a name.
3. The bytes of `StructCodec`'s scalars and the elements of its containers, as far as a property needs them.
