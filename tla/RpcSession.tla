----------------------------- MODULE RpcSession ------------------------------
(***************************************************************************)
(* Calls between clients of concolic.thrift (the generated                 *)
(* ConcreteEvaluatorClient) and the server thread: start_server's          *)
(* TSimpleServer, which serves one connection until it ends, the generated *)
(* processor, and the handler as the processor sees it.  Clients connect,  *)
(* call, give up and connect again; the process may die.                   *)
(*                                                                         *)
(* The plain client sends and ignores sequence number 0: what ties a reply *)
(* to its call is only its place in the connection's byte stream.  Every   *)
(* message therefore carries, invisible to the code, the call it is about. *)
(***************************************************************************)
EXTENDS Integers, Sequences, FiniteSets

CONSTANTS Clients,
          MaxConns,     \* bound on the connections opened
          MaxCalls,     \* bound on the calls made
          None

ASSUME BoundAssumption == MaxConns \in Nat \ {0} /\ MaxCalls \in Nat \ {0}

\* Methods of the service, of which some declare Exception and some are void;
\* a client built from another version of the IDL may call one more.
DeclareException == {"addBreakpoint", "delBreakpoint", "getCodeBlock", "getContext"}
Void             == {"addBreakpoint", "delBreakpoint"}
ProcessMap       == DeclareException \cup {"getBreakpoints", "executeUntilEvent"}
Methods          == ProcessMap \cup {"otherVersion"}

\* Handlers that throw Exception, through assert_helper.
MayThrow == ProcessMap \ {"getBreakpoints"}

Conns == 1 .. MaxConns
Ids   == Clients \X (1 .. MaxCalls)     \* the n-th call of a client

VARIABLES
    opened,     \* number of connections opened
    conn,       \* a client's connection, or None
    requests,   \* messages on their way to the server, by connection
    replies,    \* messages on their way to the client
    backlog,    \* connections not accepted yet
    serving,    \* the connection being served, or None
    busy,       \* the request whose handler runs, or None
    made,       \* how many calls a client made
    call,       \* the call a client waits for, or None
    outcome,    \* how its last call ended
    handled,    \* what the handler did for a call: None, "returned" or "threw"
    up          \* is the process alive?

netVars    == <<opened, conn, backlog>>
serverVars == <<serving, busy, handled>>
clientVars == <<made, call, outcome>>
vars == <<netVars, requests, replies, serverVars, clientVars, up>>

Call    == [id : Ids, method : Methods]
Outcome == [id : Ids, method : Methods,
            end : {"returned", "Exception", "TApplicationException",
                   "TTransportException", "garbled"},
            of : Ids \cup {None}]
Message == [name : Methods, type : {"reply"}, success : BOOLEAN, exc : BOOLEAN, of : Ids]
             \cup [name : Methods, type : {"exception"}, of : Ids]

ASSUME NoneAssumption == None \notin Conns \cup Call \cup Outcome \cup {"returned", "threw"}

Init ==
    /\ opened = 0
    /\ conn = [c \in Clients |-> None]
    /\ requests = [k \in Conns |-> <<>>]
    /\ replies = [k \in Conns |-> <<>>]
    /\ backlog = <<>>
    /\ serving = None
    /\ busy = None
    /\ made = [c \in Clients |-> 0]
    /\ call = [c \in Clients |-> None]
    /\ outcome = [c \in Clients |-> None]
    /\ handled = [i \in Ids |-> None]
    /\ up = TRUE

TypeOK ==
    /\ opened \in 0 .. MaxConns
    /\ conn \in [Clients -> Conns \cup {None}]
    /\ requests \in [Conns -> Seq(Call)]
    /\ replies \in [Conns -> Seq(Message)]
    /\ backlog \in Seq(Conns)
    /\ serving \in Conns \cup {None}
    /\ busy \in Call \cup {None}
    /\ made \in [Clients -> 0 .. MaxCalls]
    /\ call \in [Clients -> Call \cup {None}]
    /\ outcome \in [Clients -> Outcome \cup {None}]
    /\ handled \in [Ids -> {None, "returned", "threw"}]
    /\ up \in BOOLEAN

\* Has the client closed its end?
Hangup(k) == \A c \in Clients : conn[c] # k

-----------------------------------------------------------------------------
(* Clients.                                                                *)

Connect(c) ==
    /\ conn[c] = None
    /\ opened < MaxConns
    /\ opened' = opened + 1
    /\ conn' = [conn EXCEPT ![c] = opened + 1]
    /\ backlog' = Append(backlog, opened + 1)
    /\ UNCHANGED <<requests, replies, serverVars, clientVars, up>>

\* send_: a client does one call at a time.
Send(c) ==
    /\ conn[c] # None
    /\ call[c] = None
    /\ made[c] < MaxCalls
    /\ Cardinality({i \in Ids : i[2] <= made[i[1]]}) < MaxCalls
    /\ made' = [made EXCEPT ![c] = @ + 1]
    /\ \E m \in Methods :
          LET r == [id |-> <<c, made[c] + 1>>, method |-> m]
          IN  /\ call' = [call EXCEPT ![c] = r]
              /\ requests' = [requests EXCEPT ![conn[c]] = Append(@, r)]
    /\ outcome' = [outcome EXCEPT ![c] = None]
    /\ UNCHANGED <<netVars, replies, serverVars, up>>

\* How recv_ of method m ends on message r: an exception of the framework is
\* thrown as it is; a result has the value, the declared exception, or neither,
\* which is how a void method returns and how the others fail.
ReceivedAs_no_exc(m, r) ==
    IF r.type = "exception" THEN "TApplicationException"
    ELSE IF r.name # m THEN "garbled"
    ELSE IF r.success \/ m \in Void THEN "returned"
    ELSE "TApplicationException"
ReceivedAs(m, r) ==
    IF r.type = "exception" THEN "TApplicationException"
    ELSE IF r.name # m THEN "garbled"
    ELSE IF m \notin Void /\ r.success THEN "returned"
    ELSE IF m \in DeclareException /\ r.exc THEN "Exception"
    ELSE IF m \in Void THEN "returned"
    ELSE "TApplicationException"

Ended_swallowed(c, end, of) ==
    /\ end # "TTransportException"
    /\ outcome' = [outcome EXCEPT ![c] =
                      [id |-> call[c].id, method |-> call[c].method, end |-> end, of |-> of]]
    /\ call' = [call EXCEPT ![c] = None]

Ended(c, end, of) ==
    /\ outcome' = [outcome EXCEPT ![c] =
                      [id |-> call[c].id, method |-> call[c].method, end |-> end, of |-> of]]
    /\ call' = [call EXCEPT ![c] = None]

Receive(c) ==
    /\ call[c] # None
    /\ replies[conn[c]] # <<>>
    /\ LET r == Head(replies[conn[c]])
       IN  Ended(c, ReceivedAs(call[c].method, r), r.of)
    /\ replies' = [replies EXCEPT ![conn[c]] = Tail(@)]
    /\ UNCHANGED <<netVars, requests, serverVars, made, up>>

\* The client gives up: it closes its connection, in the middle of a call or
\* between two.  What it sent may still be read, what it was sent is gone.
Disconnect(c) ==
    /\ conn[c] # None
    /\ conn' = [conn EXCEPT ![c] = None]
    /\ replies' = [replies EXCEPT ![conn[c]] = <<>>]
    /\ IF call[c] # None
       THEN Ended(c, "TTransportException", None)
       ELSE UNCHANGED <<call, outcome>>
    /\ UNCHANGED <<opened, backlog, requests, serverVars, made, up>>

\* A client that waits for a dead process gets an exception of its transport.
ReceiveFails(c) ==
    /\ ~up
    /\ call[c] # None
    /\ replies[conn[c]] = <<>>
    /\ Ended(c, "TTransportException", None)
    /\ UNCHANGED <<netVars, requests, replies, serverVars, made, up>>

-----------------------------------------------------------------------------
(* The server.                                                             *)

\* TSimpleServer::serve takes the next connection when the last has ended.
Accept_newest ==
    /\ up
    /\ serving = None
    /\ backlog # <<>>
    /\ serving' = backlog[Len(backlog)]
    /\ backlog' = SubSeq(backlog, 1, Len(backlog) - 1)
    /\ UNCHANGED <<opened, conn, requests, replies, busy, handled, clientVars, up>>

Accept ==
    /\ up
    /\ serving = None
    /\ backlog # <<>>
    /\ serving' = Head(backlog)
    /\ backlog' = Tail(backlog)
    /\ UNCHANGED <<opened, conn, requests, replies, busy, handled, clientVars, up>>

\* Messages reach the other end, if it is still there.
Deliver(k, ms) ==
    replies' = [replies EXCEPT ![k] = IF Hangup(k) THEN @ ELSE @ \o ms]

\* A TApplicationException about request r.
Refusal(r) == [name |-> r.method, type |-> "exception", of |-> r.id]

\* dispatchCall: the next message selects a process_ function, which reads the
\* arguments and calls the handler; or it is skipped and answered right away.
UnknownMethod_silent(r) == <<>>
UnknownMethod(r) == <<Refusal(r)>>

DispatchCall ==
    /\ up
    /\ serving # None
    /\ busy = None
    /\ requests[serving] # <<>>
    /\ LET r == Head(requests[serving])
       IN  IF r.method \in ProcessMap
           THEN busy' = r /\ UNCHANGED replies
           ELSE Deliver(serving, UnknownMethod(r)) /\ UNCHANGED busy
    /\ requests' = [requests EXCEPT ![serving] = Tail(@)]
    /\ UNCHANGED <<netVars, serving, handled, clientVars, up>>

\* What process_ writes when the handler returned, or threw Exception: a method
\* that declares it has it in its result, the others' last catch clause turns it
\* into an exception of the framework.
Result(r, success, exc) ==
    [name |-> r.method, type |-> "reply", success |-> success, exc |-> exc, of |-> r.id]

Process_no_return(r, how) ==
    IF how = "returned" THEN <<Result(r, r.method \notin Void, FALSE)>>
    ELSE IF r.method \in DeclareException THEN <<Result(r, FALSE, TRUE)>>
    ELSE <<Refusal(r), Result(r, FALSE, FALSE)>>
Process(r, how) ==
    IF how = "returned" THEN <<Result(r, r.method \notin Void, FALSE)>>
    ELSE IF r.method \in DeclareException THEN <<Result(r, FALSE, TRUE)>>
    ELSE <<Refusal(r)>>

HandlerEnds ==
    /\ up
    /\ busy # None
    /\ \E how \in {"returned"} \cup {h \in {"threw"} : busy.method \in MayThrow} :
          /\ handled' = [handled EXCEPT ![busy.id] = how]
          /\ Deliver(serving, Process(busy, how))
    /\ busy' = None
    /\ UNCHANGED <<netVars, requests, serving, clientVars, up>>

\* The connection has ended: reading (or writing) fails, and the server closes
\* its side.  It can only notice between two handlers.
CloseConnection ==
    /\ up
    /\ serving # None
    /\ busy = None
    /\ Hangup(serving)
    /\ serving' = None
    /\ requests' = [requests EXCEPT ![serving] = <<>>]
    /\ UNCHANGED <<netVars, replies, busy, handled, clientVars, up>>

\* event_exit, a failed assertion or the application's own death.
ProcessDies ==
    /\ up
    /\ up' = FALSE
    /\ UNCHANGED <<netVars, requests, replies, serverVars, clientVars>>

-----------------------------------------------------------------------------

ClientStep(c) ==
    Connect(c) \/ Send(c) \/ Receive(c) \/ ReceiveFails(c) \/ Disconnect(c)
ServerStep == Accept \/ DispatchCall \/ HandlerEnds \/ CloseConnection
Next == (\E c \in Clients : ClientStep(c)) \/ ServerStep \/ ProcessDies

Spec == Init /\ [][Next]_vars

\* The server thread runs, and a waiting client reads what arrives.  Only
\* executeUntilEvent may take for ever; no client has to call or to hang up.
Fairness ==
    /\ WF_vars(Accept \/ DispatchCall \/ CloseConnection)
    /\ WF_vars(busy # None /\ busy.method # "executeUntilEvent" /\ HandlerEnds)
    /\ \A c \in Clients : WF_vars(Receive(c) \/ ReceiveFails(c))

FairSpec == Spec /\ Fairness

-----------------------------------------------------------------------------

\* Although the client compares no sequence numbers, and gives up calls whose
\* replies are still to come, a reply it reads is that of the call it made.
OwnReply ==
    \A c \in Clients :
        outcome[c] # None /\ outcome[c].end # "TTransportException" =>
            outcome[c].of = outcome[c].id

\* A call returns exactly when its handler returned; when it threw, the caller
\* has an exception; and the framework fails no call that the handler did.
OutcomeFaithful ==
    \A c \in Clients :
        outcome[c] # None /\ outcome[c].end # "TTransportException" =>
            CASE handled[outcome[c].id] = "returned" -> outcome[c].end = "returned"
              [] handled[outcome[c].id] = "threw" ->
                    outcome[c].end \in {"Exception", "TApplicationException"}
              [] handled[outcome[c].id] = None -> outcome[c].method \notin ProcessMap

\* A call on the connection being served is answered, whether the service knows
\* the method or not and whatever the calls before it ended in.
ServedCallEnds ==
    \A c \in Clients :
        (call[c] # None /\ conn[c] = serving /\ call[c].method # "executeUntilEvent")
            ~> (call[c] = None)

\* A client that waits for the program to end is not left waiting: event_exit
\* ends the process inside executeUntilEvent, no handler will ever answer
\* Termination, and yet the call ends.
CallEndsWithProcess == \A c \in Clients : (call[c] # None /\ ~up) ~> (call[c] = None)

-----------------------------------------------------------------------------

Service == INSTANCE CallService WITH Known <- ProcessMap

\* Connections, one server thread and a process that may die make calls that
\* are executed at most once and, client by client, in order: a call that was
\* given up is not executed after a later one.
ImplementsCalls == Service!Spec

=============================================================================
