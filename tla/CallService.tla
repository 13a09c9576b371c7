---------------------------- MODULE CallService ------------------------------
(***************************************************************************)
(* What a client of the evaluator may believe about its calls without      *)
(* knowing of connections, messages or the server's queue: an invoked      *)
(* method is executed at most once, as one step; the calls of one client   *)
(* are executed in the order it made them, also those it gave up; a call   *)
(* that ends with an answer was executed before and ends the way its       *)
(* execution did.                                                          *)
(***************************************************************************)
EXTENDS Integers

CONSTANTS Clients,
          Ids,          \* a call is the n-th of its client, <<client, n>>
          Methods,      \* what clients may call
          Known,        \* the methods the service has
          None

VARIABLES made,       \* [Clients -> Nat]: how many calls a client made
          call,       \* the call a client waits for, or None
          outcome,    \* how its last call ended, or None
          handled     \* [Ids -> {None, "returned", "threw"}]

vars == <<made, call, outcome, handled>>

Init ==
    /\ made = [c \in Clients |-> 0]
    /\ call = [c \in Clients |-> None]
    /\ outcome = [c \in Clients |-> None]
    /\ handled = [i \in Ids |-> None]

Invoke(c, m) ==
    /\ call[c] = None
    /\ made' = [made EXCEPT ![c] = @ + 1]
    /\ call' = [call EXCEPT ![c] = [id |-> <<c, made[c] + 1>>, method |-> m]]
    /\ outcome' = [outcome EXCEPT ![c] = None]
    /\ UNCHANGED handled

\* The method of a call, as long as its client has not made another.
MethodIs(i, M) ==
    LET c == i[1]
    IN  /\ call[c] # None /\ call[c].id = i => call[c].method \in M
        /\ outcome[c] # None /\ outcome[c].id = i => outcome[c].method \in M

Execute(i, how) ==
    /\ i[2] <= made[i[1]]
    /\ \A j \in Ids : j[1] = i[1] /\ i[2] <= j[2] => handled[j] = None
    /\ MethodIs(i, Known)
    /\ handled' = [handled EXCEPT ![i] = how]
    /\ UNCHANGED <<made, call, outcome>>

\* How a call may end once its execution went as it did.
EndsAs(how) ==
    CASE how = "returned" -> {"returned"}
      [] how = "threw"    -> {"Exception", "TApplicationException"}
      [] how = None       -> {"TApplicationException"}

End(c, end, of) ==
    /\ call[c] # None
    /\ outcome' = [outcome EXCEPT ![c] =
                      [id |-> call[c].id, method |-> call[c].method, end |-> end, of |-> of]]
    /\ call' = [call EXCEPT ![c] = None]
    /\ UNCHANGED <<made, handled>>

Answer(c) ==
    /\ handled[call[c].id] = None => call[c].method \notin Known
    /\ \E end \in EndsAs(handled[call[c].id]) : End(c, end, call[c].id)

GiveUp(c) == End(c, "TTransportException", None)

Next ==
    \/ \E c \in Clients :
          \/ \E m \in Methods : Invoke(c, m)
          \/ call[c] # None /\ (Answer(c) \/ GiveUp(c))
    \/ \E i \in Ids, how \in {"returned", "threw"} : Execute(i, how)

Spec == Init /\ [][Next]_vars

=============================================================================
