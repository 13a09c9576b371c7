----------------------------- MODULE StopService -----------------------------
(***************************************************************************)
(* What the evaluator promises a client that knows nothing of threads,     *)
(* locks and flushes.  The program is stopped or running.  While it is     *)
(* stopped, only the client's edits change the tables, one entry at a      *)
(* time, and the record of the last stop is frozen.  While it runs, only   *)
(* hits and activations change the tables, and a new record is made.       *)
(***************************************************************************)
EXTENDS Integers

CONSTANTS Addrs, Rels, CountMod, Contexts, Blocks, None

VARIABLES phase, breakpoints, deferred, context, block

vars == <<phase, breakpoints, deferred, context, block>>

Count == 0 .. CountMod - 1

Init ==
    /\ phase = "running"
    /\ breakpoints = [a \in Addrs |-> None]
    /\ deferred = [r \in Rels |-> None]
    /\ context = None
    /\ block = None

-----------------------------------------------------------------------------
(* The program is stopped: requests.                                       *)

SetBreakpoint(a, n) ==
    /\ phase = "stopped"
    /\ breakpoints[a] \in {None, 0}
    /\ breakpoints' = [breakpoints EXCEPT ![a] = n]
    /\ UNCHANGED <<phase, deferred, context, block>>

RemoveBreakpoint(a) ==
    /\ phase = "stopped"
    /\ breakpoints[a] # None
    /\ breakpoints' = [breakpoints EXCEPT ![a] = None]
    /\ UNCHANGED <<phase, deferred, context, block>>

Defer(r, n) ==
    /\ phase = "stopped"
    /\ deferred[r] = None
    /\ deferred' = [deferred EXCEPT ![r] = n]
    /\ UNCHANGED <<phase, breakpoints, context, block>>

Withdraw(r) ==
    /\ phase = "stopped"
    /\ deferred[r] # None
    /\ deferred' = [deferred EXCEPT ![r] = None]
    /\ UNCHANGED <<phase, breakpoints, context, block>>

Go ==
    /\ phase = "stopped"
    /\ phase' = "running"
    /\ context' = None
    /\ block' = None
    /\ UNCHANGED <<breakpoints, deferred>>

-----------------------------------------------------------------------------
(* The program runs.                                                       *)

Hit(a) ==
    /\ phase = "running"
    /\ breakpoints[a] # None
    /\ LET left == (breakpoints[a] - 1) % CountMod
       IN  breakpoints' = [breakpoints EXCEPT ![a] = IF left = 0 THEN None ELSE left]
    /\ UNCHANGED <<phase, deferred, context, block>>

\* The deferred breakpoints of D become breakpoints, at addresses and in an
\* order of precedence the client does not see.
Activate(D) ==
    /\ phase = "running"
    /\ \A r \in D : deferred[r] # None
    /\ deferred' = [r \in Rels |-> IF r \in D THEN None ELSE deferred[r]]
    /\ breakpoints' \in [Addrs -> Count \cup {None}]
    /\ \A a \in Addrs :
          \/ breakpoints'[a] = breakpoints[a]
          \/ \E r \in D : breakpoints'[a] = deferred[r]
    /\ UNCHANGED <<phase, context, block>>

RecordContext(c) ==
    /\ phase = "running"
    /\ context' = c
    /\ UNCHANGED <<phase, breakpoints, deferred, block>>

RecordBlock(b) ==
    /\ phase = "running"
    /\ block' = b
    /\ UNCHANGED <<phase, breakpoints, deferred, context>>

Halt ==
    /\ phase = "running"
    /\ phase' = "stopped"
    /\ UNCHANGED <<breakpoints, deferred, context, block>>

-----------------------------------------------------------------------------

Next ==
    \/ \E a \in Addrs : \/ \E n \in Count : SetBreakpoint(a, n)
                        \/ RemoveBreakpoint(a)
                        \/ Hit(a)
    \/ \E r \in Rels : (\E n \in Count : Defer(r, n)) \/ Withdraw(r)
    \/ \E D \in SUBSET Rels : Activate(D)
    \/ \E c \in Contexts : RecordContext(c)
    \/ \E b \in Blocks : RecordBlock(b)
    \/ Go \/ Halt

Spec == Init /\ [][Next]_vars

=============================================================================
