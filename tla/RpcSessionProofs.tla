-------------------------- MODULE RpcSessionProofs ---------------------------
(***************************************************************************)
(* RpcSession implements CallService, for any number of clients, calls and *)
(* connections.  Nothing in a message says which call it belongs to; what  *)
(* makes replies and executions fall to the right calls is how few of them *)
(* there can be: a connection holds at most one request, one running       *)
(* handler or one reply, connections are served in the order they were     *)
(* opened, and one that was served holds nothing any more.                 *)
(***************************************************************************)
EXTENDS RpcSession, TLAPS

USE DEF netVars, serverVars, clientVars

\* Request r waits on connection k, or its handler runs.
At(r, k) == requests[k] = <<r>> \/ (serving = k /\ busy = r)

\* How many connections the server has accepted.
Accepted == opened - Len(backlog)

-----------------------------------------------------------------------------
(* What holds whether or not the process is alive.                         *)

ConnsDistinct ==
    /\ \A c \in Clients : conn[c] # None => conn[c] <= opened
    /\ \A c, d \in Clients : conn[c] = conn[d] /\ conn[c] # None => c = d

\* The call in progress, or the one that ended, is the client's last.
LastCall ==
    \A c \in Clients :
        /\ call[c] # None => conn[c] # None /\ call[c].id = <<c, made[c]>>
        /\ outcome[c] # None => call[c] = None /\ outcome[c].id = <<c, made[c]>>

HandledMade == \A i \in Ids : handled[i] # None => i[2] <= made[i[1]]

\* What the answer to call r is.
AnswerTo(r) ==
    IF handled[r.id] = None THEN UnknownMethod(r) ELSE Process(r, handled[r.id])

\* What a call must have come to for an answer to be sent.
Answerable(r) ==
    IF handled[r.id] = None THEN r.method \notin ProcessMap
    ELSE r.method \in ProcessMap /\ (handled[r.id] = "threw" => r.method \in MayThrow)

RepliesFit ==
    /\ \A k \in Conns : k > opened => replies[k] = <<>>
    /\ \A c \in Clients :
          conn[c] # None /\ replies[conn[c]] # <<>> =>
              /\ call[c] # None
              /\ Answerable(call[c])
              /\ replies[conn[c]] = AnswerTo(call[c])
              /\ up => \A r \in Call : ~At(r, conn[c])

Always == TypeOK /\ ConnsDistinct /\ LastCall /\ HandledMade /\ RepliesFit
            /\ OwnReply /\ OutcomeFaithful

-----------------------------------------------------------------------------
(* What holds of a server that is alive.                                   *)

\* The server is done with connection k.
Done(k) == k < Accepted \/ (k = Accepted /\ serving = None)

\* The backlog is the connections not accepted yet, in the order they were
\* opened; those the server is done with have no client and hold no request.
InOrder ==
    /\ Accepted >= 0
    /\ \A i \in 1 .. Len(backlog) : backlog[i] = Accepted + i
    /\ serving \in {None, Accepted}
    /\ \A k \in Conns : Done(k) => Hangup(k)
    /\ \A k \in Conns : Done(k) \/ k > opened => requests[k] = <<>>

OnePerConn ==
    /\ \A k \in Conns : requests[k] = <<>> \/ \E r \in Call : requests[k] = <<r>>
    /\ busy # None =>
          serving # None /\ busy.method \in ProcessMap /\ requests[serving] = <<>>

\* A request not executed yet: nothing later of its client is executed either,
\* and if the client has made no other call it still waits for this one, on this
\* connection, or gave it up.
RequestFits(r, k) ==
    LET c == r.id[1]
    IN  /\ r.id[2] <= made[c]
        /\ \A i \in Ids : i[1] = c /\ r.id[2] <= i[2] => handled[i] = None
        /\ conn[c] # None => k <= conn[c]
        /\ r.id[2] = made[c] =>
              \/ call[c] = r /\ conn[c] = k
              \/ /\ call[c] = None
                 /\ outcome[c] # None
                 /\ outcome[c].method = r.method
                 /\ outcome[c].end = "TTransportException"

Fitting == \A k \in Conns : \A r \in Call : At(r, k) => RequestFits(r, k)

\* Later connections of a client hold later calls.
Ordered ==
    \A k, l \in Conns : \A r, q \in Call :
        At(r, k) /\ At(q, l) /\ r.id[1] = q.id[1] /\ k < l => r.id[2] < q.id[2]

\* What is on a client's connection is the call it waits for.
Waiting == \A c \in Clients : \A r \in Call : conn[c] # None /\ At(r, conn[c]) => call[c] = r

RequestsFit == Fitting /\ Ordered /\ Waiting

Alive == InOrder /\ OnePerConn /\ RequestsFit

Inv == Always /\ (up => Alive)

-----------------------------------------------------------------------------
(* Types.                                                                  *)

LEMMA AppendType ==
    ASSUME NEW S, NEW s \in Seq(S), NEW x \in S
    PROVE  Append(s, x) \in Seq(S)
OBVIOUS

LEMMA ConcatType ==
    ASSUME NEW S, NEW s \in Seq(S), NEW t \in Seq(S)
    PROVE  s \o t \in Seq(S)
OBVIOUS

LEMMA TailType ==
    ASSUME NEW S, NEW s \in Seq(S), s # <<>>
    PROVE  Head(s) \in S /\ Tail(s) \in Seq(S)
OBVIOUS

\* A call's identity.
LEMMA IdFacts ==
    /\ \A i \in Ids : i = <<i[1], i[2]>> /\ i[1] \in Clients /\ i[2] \in 1 .. MaxCalls
    /\ \A c \in Clients, n \in 1 .. MaxCalls : <<c, n>> \in Ids
BY DEF Ids

\* What the processor writes is one message.
LEMMA MessageTypes ==
    ASSUME NEW r \in Call
    PROVE  /\ UnknownMethod(r) \in Seq(Message)
           /\ \A how \in {"returned", "threw"} : Process(r, how) \in Seq(Message)
           /\ Len(UnknownMethod(r)) = 1
           /\ \A how \in {"returned", "threw"} : Len(Process(r, how)) = 1
<1>1. r.id \in Ids /\ r.method \in Methods
  BY DEF Call
<1>2. Refusal(r) \in Message
  BY <1>1 DEF Refusal, Message
<1>3. \A s \in BOOLEAN, e \in BOOLEAN : Result(r, s, e) \in Message
  BY <1>1 DEF Result, Message
<1>4. UnknownMethod(r) \in Seq(Message) /\ Len(UnknownMethod(r)) = 1
  BY <1>2 DEF UnknownMethod
<1>5. ASSUME NEW how \in {"returned", "threw"}
      PROVE  Process(r, how) \in Seq(Message) /\ Len(Process(r, how)) = 1
  <2>1. \E x \in Message : Process(r, how) = <<x>>
    <3>1. CASE how = "returned"
      <4>1. (r.method \notin Void) \in BOOLEAN
        OBVIOUS
      <4>2. Result(r, r.method \notin Void, FALSE) \in Message
        BY <1>3, <4>1
      <4>3. Process(r, how) = <<Result(r, r.method \notin Void, FALSE)>>
        BY <3>1 DEF Process
      <4>4. QED
        BY <4>2, <4>3
    <3>2. CASE how = "threw" /\ r.method \in DeclareException
      BY <1>3, <3>2 DEF Process
    <3>3. CASE how = "threw" /\ r.method \notin DeclareException
      BY <1>2, <3>3 DEF Process
    <3>4. QED
      BY <3>1, <3>2, <3>3
  <2>2. QED
    BY <2>1
<1>6. QED
  BY <1>4, <1>5

\* Ways a call ends.
LEMMA EndedType ==
    ASSUME TypeOK, NEW c \in Clients, call[c] # None,
           NEW end \in {"returned", "Exception", "TApplicationException",
                        "TTransportException", "garbled"},
           NEW of \in Ids \cup {None}, Ended(c, end, of)
    PROVE  /\ outcome' \in [Clients -> Outcome \cup {None}]
           /\ call' \in [Clients -> Call \cup {None}]
<1>1. call[c].id \in Ids /\ call[c].method \in Methods
  BY DEF TypeOK, Call
<1>2. [id |-> call[c].id, method |-> call[c].method, end |-> end, of |-> of] \in Outcome
  BY <1>1 DEF Outcome
<1>3. QED
  BY <1>2 DEF Ended, TypeOK

LEMMA DeliverType ==
    ASSUME TypeOK, NEW k \in Conns, NEW ms \in Seq(Message), Deliver(k, ms)
    PROVE  replies' \in [Conns -> Seq(Message)]
<1>1. replies[k] \o ms \in Seq(Message)
  BY ConcatType DEF TypeOK
<1>2. QED
  BY <1>1 DEF Deliver, TypeOK

LEMMA ReceivedAsType ==
    ASSUME NEW m, NEW r
    PROVE  ReceivedAs(m, r) \in {"returned", "Exception", "TApplicationException", "garbled"}
BY DEF ReceivedAs

LEMMA ConnectType ==
    ASSUME TypeOK, NEW c \in Clients, Connect(c)
    PROVE  TypeOK'
<1>1. opened + 1 \in Conns /\ opened' = opened + 1
  BY BoundAssumption DEF Connect, TypeOK, Conns
<1>2. backlog' \in Seq(Conns)
  BY <1>1, AppendType DEF Connect, TypeOK
<1>3. conn' \in [Clients -> Conns \cup {None}]
  BY <1>1 DEF Connect, TypeOK
<1>4. UNCHANGED <<requests, replies, serving, busy, handled, made, call, outcome, up>>
  BY DEF Connect
<1>5. QED
  BY <1>1, <1>2, <1>3, <1>4, BoundAssumption DEF TypeOK, Conns

LEMMA SendType ==
    ASSUME TypeOK, NEW c \in Clients, Send(c)
    PROVE  TypeOK'
<1>1. PICK m \in Methods :
         /\ call' = [call EXCEPT ![c] = [id |-> <<c, made[c] + 1>>, method |-> m]]
         /\ requests' = [requests EXCEPT ![conn[c]] =
                            Append(@, [id |-> <<c, made[c] + 1>>, method |-> m])]
  BY DEF Send
<1>2. conn[c] \in Conns
  BY DEF Send, TypeOK
<1>3. made[c] + 1 \in 1 .. MaxCalls
  BY BoundAssumption DEF Send, TypeOK
<1>4. [id |-> <<c, made[c] + 1>>, method |-> m] \in Call
  BY <1>3, IdFacts DEF Call
<1>5. requests' \in [Conns -> Seq(Call)]
  <2>1. Append(requests[conn[c]], [id |-> <<c, made[c] + 1>>, method |-> m]) \in Seq(Call)
    BY <1>2, <1>4, AppendType DEF TypeOK
  <2>2. QED
    BY <1>1, <2>1 DEF TypeOK
<1>6. call' \in [Clients -> Call \cup {None}] /\ outcome' \in [Clients -> Outcome \cup {None}]
  BY <1>1, <1>4 DEF Send, TypeOK
<1>7. made' \in [Clients -> 0 .. MaxCalls]
  BY <1>3, BoundAssumption DEF Send, TypeOK
<1>8. UNCHANGED <<opened, conn, backlog, replies, serving, busy, handled, up>>
  BY DEF Send
<1>9. QED
  BY <1>5, <1>6, <1>7, <1>8 DEF TypeOK

\* A reply the client has next.
LEMMA NextReply ==
    ASSUME TypeOK, NEW c \in Clients, conn[c] # None, replies[conn[c]] # <<>>
    PROVE  /\ Head(replies[conn[c]]) \in Message
           /\ Tail(replies[conn[c]]) \in Seq(Message)
           /\ Head(replies[conn[c]]).of \in Ids
<1>1. replies[conn[c]] \in Seq(Message)
  BY DEF TypeOK
<1>2. QED
  BY <1>1, TailType DEF Message

LEMMA ClientType ==
    ASSUME TypeOK, LastCall, NEW c \in Clients, Receive(c) \/ ReceiveFails(c) \/ Disconnect(c)
    PROVE  TypeOK'
<1>1. CASE Receive(c)
  <2>1. call[c] # None /\ conn[c] # None /\ replies[conn[c]] # <<>>
    BY <1>1 DEF Receive, LastCall
  <2>2. Ended(c, ReceivedAs(call[c].method, Head(replies[conn[c]])), Head(replies[conn[c]]).of)
    BY <1>1 DEF Receive
  <2>3. outcome' \in [Clients -> Outcome \cup {None}] /\ call' \in [Clients -> Call \cup {None}]
    BY <2>1, <2>2, NextReply, ReceivedAsType, EndedType
  <2>4. replies' \in [Conns -> Seq(Message)]
    BY <1>1, <2>1, NextReply DEF Receive, TypeOK
  <2>5. UNCHANGED <<opened, conn, backlog, requests, serving, busy, handled, made, up>>
    BY <1>1 DEF Receive
  <2>6. QED
    BY <2>3, <2>4, <2>5 DEF TypeOK
<1>2. CASE ReceiveFails(c)
  <2>1. outcome' \in [Clients -> Outcome \cup {None}] /\ call' \in [Clients -> Call \cup {None}]
    BY <1>2, EndedType DEF ReceiveFails
  <2>2. UNCHANGED <<opened, conn, backlog, requests, replies, serving, busy, handled, made, up>>
    BY <1>2 DEF ReceiveFails
  <2>3. QED
    BY <2>1, <2>2 DEF TypeOK
<1>3. CASE Disconnect(c)
  <2>1. outcome' \in [Clients -> Outcome \cup {None}] /\ call' \in [Clients -> Call \cup {None}]
    <3>1. CASE call[c] # None
      BY <1>3, <3>1, EndedType DEF Disconnect
    <3>2. CASE call[c] = None
      BY <1>3, <3>2 DEF Disconnect, TypeOK
    <3>3. QED
      BY <3>1, <3>2
  <2>2. replies' \in [Conns -> Seq(Message)] /\ conn' \in [Clients -> Conns \cup {None}]
    BY <1>3 DEF Disconnect, TypeOK
  <2>3. UNCHANGED <<opened, backlog, requests, serving, busy, handled, made, up>>
    BY <1>3 DEF Disconnect
  <2>4. QED
    BY <2>1, <2>2, <2>3 DEF TypeOK
<1>4. QED
  BY <1>1, <1>2, <1>3

LEMMA ServerType ==
    ASSUME TypeOK, OnePerConn, ServerStep \/ ProcessDies
    PROVE  TypeOK'
<1>1. CASE Accept
  <2>1. Head(backlog) \in Conns /\ Tail(backlog) \in Seq(Conns)
    BY <1>1, TailType DEF Accept, TypeOK
  <2>2. UNCHANGED <<opened, conn, requests, replies, busy, handled, made, call, outcome, up>>
    BY <1>1 DEF Accept
  <2>3. QED
    BY <1>1, <2>1, <2>2 DEF Accept, TypeOK
<1>2. CASE DispatchCall
  <2> DEFINE r == Head(requests[serving])
  <2>1. serving \in Conns /\ requests[serving] # <<>> /\ requests[serving] \in Seq(Call)
    BY <1>2 DEF DispatchCall, TypeOK
  <2>2. r \in Call /\ Tail(requests[serving]) \in Seq(Call)
    BY <2>1, TailType
  <2>3. requests' \in [Conns -> Seq(Call)]
    BY <1>2, <2>2 DEF DispatchCall, TypeOK
  <2>4. busy' \in Call \cup {None} /\ replies' \in [Conns -> Seq(Message)]
    <3>1. CASE r.method \in ProcessMap
      BY <1>2, <2>2, <3>1 DEF DispatchCall, TypeOK
    <3>2. CASE r.method \notin ProcessMap
      <4>1. Deliver(serving, UnknownMethod(r)) /\ UNCHANGED busy
        BY <1>2, <3>2 DEF DispatchCall
      <4>2. QED
        BY <2>1, <2>2, <4>1, MessageTypes, DeliverType DEF TypeOK
    <3>3. QED
      BY <3>1, <3>2
  <2>5. UNCHANGED <<opened, conn, backlog, serving, handled, made, call, outcome, up>>
    BY <1>2 DEF DispatchCall
  <2>6. QED
    BY <2>3, <2>4, <2>5 DEF TypeOK
<1>3. CASE HandlerEnds
  <2>1. PICK how \in {"returned", "threw"} :
           /\ handled' = [handled EXCEPT ![busy.id] = how]
           /\ Deliver(serving, Process(busy, how))
    BY <1>3 DEF HandlerEnds
  <2>2. busy \in Call /\ serving \in Conns
    BY <1>3 DEF HandlerEnds, TypeOK, OnePerConn
  <2>3. replies' \in [Conns -> Seq(Message)]
    BY <2>1, <2>2, MessageTypes, DeliverType
  <2>4. handled' \in [Ids -> {None, "returned", "threw"}]
    BY <2>1 DEF TypeOK
  <2>5. UNCHANGED <<opened, conn, backlog, requests, serving, made, call, outcome, up>>
    BY <1>3 DEF HandlerEnds
  <2>6. busy' = None
    BY <1>3 DEF HandlerEnds
  <2>7. QED
    BY <2>3, <2>4, <2>5, <2>6 DEF TypeOK
<1>4. CASE CloseConnection
  <2>1. requests' \in [Conns -> Seq(Call)] /\ serving' = None
    BY <1>4 DEF CloseConnection, TypeOK
  <2>2. UNCHANGED <<opened, conn, backlog, replies, busy, handled, made, call, outcome, up>>
    BY <1>4 DEF CloseConnection
  <2>3. QED
    BY <2>1, <2>2 DEF TypeOK
<1>5. CASE ProcessDies
  <2>1. UNCHANGED <<opened, conn, backlog, requests, replies, serving, busy, handled,
                    made, call, outcome>> /\ up' = FALSE
    BY <1>5 DEF ProcessDies
  <2>2. QED
    BY <2>1 DEF TypeOK
<1>6. QED
  BY <1>1, <1>2, <1>3, <1>4, <1>5 DEF ServerStep

LEMMA NextTypeOK ==
    ASSUME TypeOK, LastCall, up => OnePerConn, [Next]_vars
    PROVE  TypeOK'
<1>1. CASE \E c \in Clients : ClientStep(c)
  BY <1>1, ConnectType, SendType, ClientType DEF ClientStep
<1>2. CASE ServerStep \/ ProcessDies
  BY <1>2, ServerType DEF ServerStep, ProcessDies, Accept, DispatchCall, HandlerEnds,
                          CloseConnection
<1>3. CASE UNCHANGED vars
  BY <1>3 DEF vars, TypeOK
<1>4. QED
  BY <1>1, <1>2, <1>3 DEF Next

-----------------------------------------------------------------------------
(* Facts about sequences of one element, calls and their places.           *)

LEMMA OneElement ==
    ASSUME NEW S, NEW x \in S
    PROVE  /\ <<x>> # <<>> /\ <<x>> \in Seq(S)
           /\ Head(<<x>>) = x /\ Tail(<<x>>) = <<>>
           /\ Append(<<>>, x) = <<x>> /\ <<>> \o <<x>> = <<x>>
           /\ \A y \in S : <<x>> = <<y>> => x = y
OBVIOUS

LEMMA CallFacts ==
    ASSUME NEW r \in Call
    PROVE  /\ r.id \in Ids /\ r.id = <<r.id[1], r.id[2]>> /\ r.id[1] \in Clients
           /\ r.id[2] \in 1 .. MaxCalls /\ r.method \in Methods /\ r # None
BY IdFacts, NoneAssumption DEF Call

\* The call of a client is its last.
LEMMA LastFacts ==
    ASSUME TypeOK, LastCall, NEW c \in Clients
    PROVE  /\ call[c] # None =>
                 call[c] \in Call /\ conn[c] \in Conns /\ call[c].id[1] = c
                   /\ call[c].id[2] = made[c] /\ outcome[c] = None
           /\ outcome[c] # None =>
                 outcome[c] \in Outcome /\ outcome[c].id \in Ids /\ outcome[c].id[1] = c
                   /\ outcome[c].id[2] = made[c] /\ call[c] = None
<1>1. call[c] # None => call[c] \in Call /\ conn[c] \in Conns
  BY DEF TypeOK, LastCall
<1>2. outcome[c] # None => outcome[c] \in Outcome /\ outcome[c].id \in Ids
  BY DEF TypeOK, Outcome
<1>3. call[c] # None => call[c].id = <<c, made[c]>> /\ outcome[c] = None
  BY DEF LastCall
<1>4. outcome[c] # None => outcome[c].id = <<c, made[c]>> /\ call[c] = None
  BY DEF LastCall
<1>5. <<c, made[c]>>[1] = c /\ <<c, made[c]>>[2] = made[c]
  OBVIOUS
<1>6. QED
  BY <1>1, <1>2, <1>3, <1>4, <1>5

\* A request is on a connection that was opened and is not done with.
LEMMA AtFacts ==
    ASSUME TypeOK, InOrder, NEW k \in Conns, NEW r \in Call, At(r, k)
    PROVE  k <= opened /\ ~Done(k)
<1>1. opened \in Nat /\ Len(backlog) \in Nat /\ k \in Nat
  BY DEF TypeOK, Conns
<1>2. CASE requests[k] = <<r>>
  BY <1>1, <1>2, OneElement DEF InOrder
<1>3. CASE serving = k /\ busy = r
  <2>1. k = Accepted /\ serving # None
    BY <1>3, NoneAssumption DEF InOrder
  <2>2. QED
    BY <1>1, <2>1 DEF Accepted, Done
<1>4. QED
  BY <1>2, <1>3 DEF At

\* What the client makes of the answer to its call.
LEMMA AnswerFacts ==
    ASSUME TypeOK, NEW r \in Call, Answerable(r)
    PROVE  \E x \in Message :
              /\ AnswerTo(r) = <<x>>
              /\ x.of = r.id
              /\ ReceivedAs(r.method, x) \in Service!EndsAs(handled[r.id])
<1>1. r.id \in Ids /\ r.method \in Methods
  BY CallFacts
<1>2. handled[r.id] \in {None, "returned", "threw"} /\ None \notin {"returned", "threw"}
  BY <1>1, NoneAssumption DEF TypeOK
<1>3. CASE handled[r.id] = None
  <2>1. Refusal(r) \in Message /\ Refusal(r).of = r.id /\ Refusal(r).type = "exception"
    BY <1>1 DEF Refusal, Message
  <2>2. AnswerTo(r) = <<Refusal(r)>>
    BY <1>3 DEF AnswerTo, UnknownMethod
  <2>3. ReceivedAs(r.method, Refusal(r)) = "TApplicationException"
    BY <2>1 DEF ReceivedAs
  <2>4. "TApplicationException" \in Service!EndsAs(handled[r.id])
    BY <1>2, <1>3 DEF Service!EndsAs
  <2>5. QED
    BY <2>1, <2>2, <2>3, <2>4
<1>4. CASE handled[r.id] = "returned"
  <2> DEFINE x == Result(r, r.method \notin Void, FALSE)
  <2>1. x \in Message /\ x.of = r.id /\ x.type = "reply" /\ x.name = r.method
          /\ x.success = (r.method \notin Void) /\ x.exc = FALSE
    BY <1>1 DEF Result, Message
  <2>2. AnswerTo(r) = <<x>>
    BY <1>2, <1>4 DEF AnswerTo, Process
  <2>3. ReceivedAs(r.method, x) = "returned"
    BY <2>1 DEF ReceivedAs
  <2>4. "returned" \in Service!EndsAs(handled[r.id])
    BY <1>2, <1>4 DEF Service!EndsAs
  <2>5. QED
    BY <2>1, <2>2, <2>3, <2>4
<1>5. CASE handled[r.id] = "threw"
  <2>0. \A e \in {"Exception", "TApplicationException"} : e \in Service!EndsAs(handled[r.id])
    BY <1>2, <1>5 DEF Service!EndsAs
  <2>1. CASE r.method \in DeclareException
    <3> DEFINE x == Result(r, FALSE, TRUE)
    <3>1. x \in Message /\ x.of = r.id /\ x.type = "reply" /\ x.name = r.method
            /\ x.success = FALSE /\ x.exc = TRUE
      BY <1>1 DEF Result, Message
    <3>2. AnswerTo(r) = <<x>>
      BY <1>2, <1>5, <2>1 DEF AnswerTo, Process
    <3>3. ReceivedAs(r.method, x) = "Exception"
      BY <2>1, <3>1 DEF ReceivedAs
    <3>4. QED
      BY <2>0, <3>1, <3>2, <3>3
  <2>2. CASE r.method \notin DeclareException
    <3>1. Refusal(r) \in Message /\ Refusal(r).of = r.id /\ Refusal(r).type = "exception"
      BY <1>1 DEF Refusal, Message
    <3>2. AnswerTo(r) = <<Refusal(r)>>
      BY <1>2, <1>5, <2>2 DEF AnswerTo, Process
    <3>3. ReceivedAs(r.method, Refusal(r)) = "TApplicationException"
      BY <3>1 DEF ReceivedAs
    <3>4. QED
      BY <2>0, <3>1, <3>2, <3>3
  <2>3. QED
    BY <2>1, <2>2
<1>6. QED
  BY <1>2, <1>3, <1>4, <1>5

-----------------------------------------------------------------------------
(* What the clients do.                                                    *)

\* Requests that stay or go, seen by clients that do nothing.
LEMMA FewerRequests ==
    ASSUME TypeOK, RequestsFit, \A r \in Call, k \in Conns : At(r, k)' => At(r, k),
           UNCHANGED <<made, handled, conn, call, outcome>>
    PROVE  RequestsFit'
<1>1. ASSUME NEW r \in Call, NEW k \in Conns, RequestFits(r, k)
      PROVE  RequestFits(r, k)'
  BY <1>1 DEF RequestFits
<1>2. Fitting'
  BY <1>1 DEF RequestsFit, Fitting
<1>3. Ordered'
  BY DEF RequestsFit, Ordered
<1>4. ASSUME NEW c \in Clients, NEW r \in Call, conn[c] # None, At(r, conn[c])'
      PROVE  call[c] = r
  <2>1. PICK k \in Conns : k = conn[c]
    BY <1>4 DEF TypeOK
  <2>2. At(r, k)'
    BY <1>4, <2>1 DEF At
  <2>3. QED
    BY <1>4, <2>1, <2>2 DEF RequestsFit, Waiting
<1>5. Waiting'
  BY <1>4 DEF Waiting
<1>6. QED
  BY <1>2, <1>3, <1>5 DEF RequestsFit

LEMMA ConnectInv ==
    ASSUME Inv, NEW c \in Clients, Connect(c)
    PROVE  Inv'
<1> USE DEF Inv, Always
<1>1. /\ conn[c] = None /\ opened' = opened + 1
      /\ conn' = [conn EXCEPT ![c] = opened + 1]
      /\ backlog' = Append(backlog, opened + 1)
      /\ UNCHANGED <<requests, replies, serving, busy, handled, made, call, outcome, up>>
  BY DEF Connect
<1>2. /\ conn'[c] = opened + 1 /\ opened + 1 \in Conns /\ opened \in Nat
      /\ \A d \in Clients \ {c} : conn'[d] = conn[d]
      /\ \A d \in Clients : conn[d] # None => conn[d] \in Conns
  BY <1>1, BoundAssumption DEF TypeOK, Conns, Connect
<1>3. TypeOK'
  BY ConnectType
<1>4. ConnsDistinct'
  BY <1>1, <1>2 DEF ConnsDistinct, Conns
<1>5. LastCall'
  BY <1>1, <1>2, NoneAssumption DEF LastCall
<1>6. HandledMade' /\ OwnReply' /\ OutcomeFaithful'
  BY <1>1 DEF HandledMade, OwnReply, OutcomeFaithful
<1>7. RepliesFit'
  <2>1. \A k \in Conns : k > opened' => replies'[k] = <<>>
    BY <1>1, <1>2 DEF RepliesFit, Conns
  <2>2. ASSUME NEW d \in Clients, conn'[d] # None, replies'[conn'[d]] # <<>>
        PROVE  /\ call'[d] # None
               /\ Answerable(call[d])'
               /\ replies'[conn'[d]] = AnswerTo(call[d])'
               /\ up' => \A r \in Call : ~At(r, conn[d])'
    <3>1. d # c /\ conn'[d] = conn[d]
      BY <1>1, <1>2, <2>2 DEF RepliesFit, Conns
    <3>2. /\ call[d] # None /\ Answerable(call[d]) /\ replies[conn[d]] = AnswerTo(call[d])
          /\ up => \A r \in Call : ~At(r, conn[d])
      BY <1>1, <2>2, <3>1 DEF RepliesFit
    <3>3. QED
      BY <1>1, <3>1, <3>2 DEF Answerable, AnswerTo, At
  <2>3. QED
    BY <2>1, <2>2 DEF RepliesFit
<1>8. ASSUME up PROVE Alive'
  <2> USE <1>8 DEF Alive
  <2>1. Accepted' = Accepted /\ Accepted \in Int /\ Accepted <= opened
    BY <1>1, <1>2 DEF Accepted, TypeOK
  <2>2. \A k \in Conns : Done(k)' <=> Done(k)
    BY <1>1, <2>1 DEF Done
  <2>3. InOrder'
    <3>1. \A i \in 1 .. Len(backlog') : backlog'[i] = Accepted' + i
      BY <1>1, <1>2, <2>1 DEF InOrder, Accepted, TypeOK
    <3>2. \A k \in Conns : Done(k)' => Hangup(k)'
      <4>1. ~Done(opened + 1)
        BY <1>2, <2>1 DEF Done
      <4>2. QED
        BY <1>1, <1>2, <2>2, <4>1 DEF InOrder, Hangup
    <3>3. \A k \in Conns : Done(k)' \/ k > opened' => requests'[k] = <<>>
      BY <1>1, <1>2, <2>2 DEF InOrder, Conns
    <3>4. QED
      BY <1>1, <2>1, <3>1, <3>2, <3>3 DEF InOrder
  <2>4. OnePerConn'
    BY <1>1 DEF OnePerConn
  <2>5. \A r \in Call, k \in Conns : At(r, k)' <=> At(r, k)
    BY <1>1 DEF At
  <2>6. Fitting'
    <3>1. ASSUME NEW k \in Conns, NEW r \in Call, At(r, k)
          PROVE  RequestFits(r, k)'
      <4>1. RequestFits(r, k) /\ k <= opened
        BY <3>1, AtFacts DEF RequestsFit, Fitting
      <4>2. CASE r.id[1] = c
        <5>1. call[c] = None
          BY <1>1 DEF LastCall
        <5>2. call[c] # r
          BY <5>1, CallFacts
        <5>3. k <= conn'[c]
          BY <1>2, <4>1 DEF Conns
        <5>4. QED
          BY <1>1, <4>1, <4>2, <5>2, <5>3 DEF RequestFits
      <4>3. CASE r.id[1] # c
        BY <1>1, <1>2, <4>1, <4>3, CallFacts DEF RequestFits
      <4>4. QED
        BY <4>2, <4>3
    <3>2. QED
      BY <2>5, <3>1 DEF Fitting
  <2>7. Ordered'
    BY <2>5 DEF Ordered, RequestsFit
  <2>8. Waiting'
    <3>1. \A r \in Call : ~At(r, opened + 1)
      BY <1>2, AtFacts
    <3>2. QED
      BY <1>1, <1>2, <2>5, <3>1 DEF Waiting, RequestsFit
  <2>9. QED
    BY <2>3, <2>4, <2>6, <2>7, <2>8 DEF RequestsFit
<1>9. QED
  BY <1>1, <1>3, <1>4, <1>5, <1>6, <1>7, <1>8

LEMMA SendInv ==
    ASSUME Inv, NEW c \in Clients, Send(c)
    PROVE  Inv'
<1> USE DEF Inv, Always
<1>0. PICK q \in Call :
         /\ q.id = <<c, made[c] + 1>> /\ q.id[1] = c /\ q.id[2] = made[c] + 1
         /\ call' = [call EXCEPT ![c] = q]
         /\ requests' = [requests EXCEPT ![conn[c]] = Append(@, q)]
  <2>1. PICK m \in Methods :
           /\ call' = [call EXCEPT ![c] = [id |-> <<c, made[c] + 1>>, method |-> m]]
           /\ requests' = [requests EXCEPT ![conn[c]] =
                              Append(@, [id |-> <<c, made[c] + 1>>, method |-> m])]
    BY DEF Send
  <2>2. made[c] + 1 \in 1 .. MaxCalls
    BY BoundAssumption DEF Send, TypeOK
  <2>3. [id |-> <<c, made[c] + 1>>, method |-> m] \in Call
    BY <2>2, IdFacts DEF Call
  <2>4. QED
    BY <2>1, <2>3
<1>1. /\ conn[c] # None /\ call[c] = None
      /\ made' = [made EXCEPT ![c] = @ + 1]
      /\ outcome' = [outcome EXCEPT ![c] = None]
      /\ UNCHANGED <<opened, conn, backlog, replies, serving, busy, handled, up>>
  BY DEF Send
<1>a. PICK k0 \in Conns : k0 = conn[c]
  BY <1>1 DEF TypeOK
<1>2. /\ made[c] \in Nat /\ made'[c] = made[c] + 1
      /\ call'[c] = q /\ outcome'[c] = None /\ q # None
      /\ \A d \in Clients \ {c} : made'[d] = made[d] /\ call'[d] = call[d]
                                    /\ outcome'[d] = outcome[d]
      /\ \A d \in Clients : made[d] \in Nat /\ made[d] <= made'[d]
      /\ \A k \in Conns \ {k0} : requests'[k] = requests[k]
  BY <1>0, <1>1, <1>a, CallFacts DEF TypeOK
<1>4. TypeOK'
  BY SendType
<1>5. ConnsDistinct'
  BY <1>1 DEF ConnsDistinct
<1>6. LastCall'
  BY <1>0, <1>1, <1>2 DEF LastCall
<1>7. HandledMade'
  BY <1>1, <1>2, IdFacts DEF HandledMade
<1>8. OwnReply' /\ OutcomeFaithful'
  BY <1>1, <1>2 DEF OwnReply, OutcomeFaithful
<1>9. \A d \in Clients \ {c} : conn[d] # None => conn[d] # k0 /\ conn[d] \in Conns
  BY <1>1, <1>a DEF ConnsDistinct, TypeOK
<1>10. \A k \in Conns \ {k0}, r \in Call : At(r, k)' <=> At(r, k)
  BY <1>1, <1>2 DEF At
<1>11. RepliesFit'
  <2>1. ASSUME NEW d \in Clients, conn[d] # None, replies[conn[d]] # <<>>
        PROVE  /\ call'[d] # None
               /\ Answerable(call[d])'
               /\ replies[conn[d]] = AnswerTo(call[d])'
               /\ up => \A r \in Call : ~At(r, conn[d])'
    <3>1. /\ call[d] # None /\ Answerable(call[d]) /\ replies[conn[d]] = AnswerTo(call[d])
          /\ up => \A r \in Call : ~At(r, conn[d])
      BY <2>1 DEF RepliesFit
    <3>2. d # c /\ call'[d] = call[d]
      BY <1>1, <1>2, <3>1
    <3>3. PICK k \in Conns \ {k0} : k = conn[d]
      BY <1>9, <2>1, <3>2
    <3>4. up => \A r \in Call : ~At(r, k)'
      BY <1>10, <3>1, <3>3
    <3>5. up => \A r \in Call : ~At(r, conn[d])'
      BY <1>1, <3>3, <3>4 DEF At
    <3>6. QED
      BY <1>1, <3>1, <3>2, <3>5 DEF Answerable, AnswerTo
  <2>2. QED
    BY <1>1, <2>1 DEF RepliesFit
<1>12. ASSUME up PROVE Alive'
  <2> USE <1>12 DEF Alive
  <2>1. \A r \in Call : ~At(r, k0)
    BY <1>1, <1>a, CallFacts DEF RequestsFit, Waiting
  <2>2. requests[k0] = <<>>
    BY <2>1 DEF OnePerConn, At
  <2>3. requests'[k0] = <<q>>
    <3>1. requests'[k0] = Append(requests[k0], q)
      BY <1>0, <1>a DEF TypeOK
    <3>2. QED
      BY <2>2, <3>1, OneElement
  <2>4. serving = k0 => busy = None
    BY <2>1 DEF At, TypeOK
  <2>5. \A r \in Call : At(r, k0)' => r = q
    BY <1>1, <2>3, <2>4, OneElement, CallFacts DEF At
  <2>6. InOrder'
    <3>1. ~Done(k0) /\ k0 <= opened
      BY <1>1, <1>a DEF InOrder, Hangup, ConnsDistinct
    <3>2. UNCHANGED Accepted /\ \A k \in Conns : (Done(k)' <=> Done(k)) /\ (Hangup(k)' <=> Hangup(k))
      BY <1>1 DEF Accepted, Done, Hangup
    <3>3. \A k \in Conns : Done(k)' \/ k > opened' => requests'[k] = <<>>
      BY <1>1, <1>2, <3>1, <3>2 DEF InOrder, Conns, TypeOK
    <3>4. QED
      BY <1>1, <3>2, <3>3 DEF InOrder
  <2>7. OnePerConn'
    <3>1. \A k \in Conns : requests'[k] = <<>> \/ \E r \in Call : requests'[k] = <<r>>
      BY <1>2, <2>3 DEF OnePerConn
    <3>2. busy # None => serving # None /\ serving \in Conns \ {k0} /\ busy.method \in ProcessMap
                           /\ requests[serving] = <<>>
      BY <2>4 DEF OnePerConn, TypeOK
    <3>3. QED
      BY <1>1, <1>2, <3>1, <3>2 DEF OnePerConn
  <2>8. \A i \in Ids : i[1] = c /\ made[c] + 1 <= i[2] => handled[i] = None
    BY <1>2, IdFacts DEF HandledMade
  <2>9. Fitting'
    <3>1. RequestFits(q, k0)'
      <4>1. q.id[2] <= made'[q.id[1]]
        BY <1>0, <1>2
      <4>2. \A i \in Ids : i[1] = q.id[1] /\ q.id[2] <= i[2] => handled'[i] = None
        BY <1>0, <1>1, <2>8
      <4>3. conn'[q.id[1]] = k0 /\ k0 <= k0
        BY <1>0, <1>1, <1>a DEF Conns
      <4>4. call'[q.id[1]] = q
        BY <1>0, <1>2
      <4>5. QED
        BY <4>1, <4>2, <4>3, <4>4 DEF RequestFits
    <3>2. ASSUME NEW k \in Conns \ {k0}, NEW r \in Call, At(r, k)
          PROVE  RequestFits(r, k)'
      <4>1. RequestFits(r, k)
        BY <3>2 DEF RequestsFit, Fitting
      <4>2. CASE r.id[1] = c
        <5>1. r.id[2] <= made[c] /\ r.id[2] \in Nat
          BY <4>1, <4>2, CallFacts DEF RequestFits
        <5>2. r.id[2] # made'[c] /\ r.id[2] <= made'[c]
          BY <1>2, <5>1
        <5>3. QED
          BY <1>1, <4>1, <4>2, <5>2 DEF RequestFits
      <4>3. CASE r.id[1] # c
        BY <1>1, <1>2, <4>1, <4>3, CallFacts DEF RequestFits
      <4>4. QED
        BY <4>2, <4>3
    <3>3. QED
      BY <1>10, <2>5, <3>1, <3>2 DEF Fitting
  <2>10. \A k \in Conns \ {k0}, r \in Call :
            At(r, k) /\ r.id[1] = c => k < k0 /\ r.id[2] < q.id[2]
    <3>1. ASSUME NEW k \in Conns \ {k0}, NEW r \in Call, At(r, k), r.id[1] = c
          PROVE  k < k0 /\ r.id[2] < q.id[2]
      <4>1. k <= k0 /\ r.id[2] <= made[c] /\ r.id[2] \in Nat
        BY <1>1, <1>a, <3>1, CallFacts DEF RequestsFit, Fitting, RequestFits
      <4>2. QED
        BY <1>0, <1>2, <4>1 DEF Conns
    <3>2. QED
      BY <3>1
  <2>11. Ordered'
    <3>1. ASSUME NEW k \in Conns, NEW l \in Conns, NEW r \in Call, NEW s \in Call,
                 At(r, k)', At(s, l)', r.id[1] = s.id[1], k < l
          PROVE  r.id[2] < s.id[2]
      <4>0. k # l
        BY <3>1 DEF Conns
      <4>1. CASE k # k0 /\ l # k0
        BY <1>10, <3>1, <4>1 DEF RequestsFit, Ordered
      <4>2. CASE l = k0
        <5>1. s = q /\ k # k0
          BY <2>5, <3>1, <4>0, <4>2
        <5>2. QED
          BY <1>0, <1>10, <2>10, <3>1, <5>1
      <4>3. CASE k = k0 /\ l # k0
        <5>1. r = q
          BY <2>5, <3>1, <4>3
        <5>2. l < k0
          BY <1>0, <1>10, <2>10, <3>1, <4>3, <5>1
        <5>3. QED
          BY <3>1, <4>3, <5>2 DEF Conns
      <4>4. QED
        BY <4>1, <4>2, <4>3
    <3>2. QED
      BY <3>1 DEF Ordered
  <2>12. Waiting'
    <3>1. ASSUME NEW d \in Clients, NEW r \in Call, conn[d] # None, At(r, conn[d])'
          PROVE  call'[d] = r
      <4>1. CASE d = c
        <5>1. At(r, k0)'
          BY <1>1, <1>a, <3>1, <4>1 DEF At
        <5>2. QED
          BY <1>2, <2>5, <4>1, <5>1
      <4>2. CASE d # c
        <5>1. PICK k \in Conns \ {k0} : k = conn[d]
          BY <1>9, <3>1, <4>2
        <5>2. At(r, k)'
          BY <1>1, <3>1, <5>1 DEF At
        <5>3. call[d] = r
          BY <1>10, <3>1, <5>1, <5>2 DEF RequestsFit, Waiting
        <5>4. QED
          BY <1>2, <4>2, <5>3
      <4>3. QED
        BY <4>1, <4>2
    <3>2. QED
      BY <1>1, <3>1 DEF Waiting
  <2>13. QED
    BY <2>6, <2>7, <2>9, <2>11, <2>12 DEF RequestsFit
<1>13. QED
  BY <1>1, <1>4, <1>5, <1>6, <1>7, <1>8, <1>11, <1>12

\* Other clients' replies, when client c reads or gives up.
LEMMA OtherReplies ==
    ASSUME Inv, NEW c \in Clients, conn[c] # None, replies'[conn[c]] = <<>>,
           \A k \in Conns : k # conn[c] => replies'[k] = replies[k],
           conn'[c] \in {conn[c], None},
           \A d \in Clients \ {c} : conn'[d] = conn[d] /\ call'[d] = call[d],
           UNCHANGED <<opened, handled, up, requests, serving, busy>>
    PROVE  RepliesFit'
<1> USE DEF Inv, Always
<1>1. \A k \in Conns : k > opened' => replies'[k] = <<>>
  BY DEF RepliesFit, ConnsDistinct
<1>2. ASSUME NEW d \in Clients, conn'[d] # None, replies'[conn'[d]] # <<>>
      PROVE  /\ call'[d] # None
             /\ Answerable(call[d])'
             /\ replies'[conn'[d]] = AnswerTo(call[d])'
             /\ up' => \A r \in Call : ~At(r, conn[d])'
  <2>1. d # c
    BY <1>2
  <2>2. conn'[d] = conn[d] /\ call'[d] = call[d] /\ conn[d] # conn[c] /\ conn[d] \in Conns
    BY <1>2, <2>1 DEF ConnsDistinct, TypeOK
  <2>3. replies'[conn[d]] = replies[conn[d]] /\ replies[conn[d]] # <<>>
    BY <1>2, <2>2
  <2>4. /\ call[d] # None /\ Answerable(call[d]) /\ replies[conn[d]] = AnswerTo(call[d])
        /\ up => \A r \in Call : ~At(r, conn[d])
    BY <1>2, <2>2, <2>3 DEF RepliesFit
  <2>5. QED
    BY <2>2, <2>3, <2>4 DEF Answerable, AnswerTo, At
<1>3. QED
  BY <1>1, <1>2 DEF RepliesFit

\* A call of client c ends.
LEMMA EndedFacts ==
    ASSUME Inv, NEW c \in Clients, call[c] # None, NEW end, NEW of, Ended(c, end, of)
    PROVE  /\ call'[c] = None
           /\ outcome'[c] = [id |-> call[c].id, method |-> call[c].method, end |-> end, of |-> of]
           /\ \A d \in Clients \ {c} : call'[d] = call[d] /\ outcome'[d] = outcome[d]
BY DEF Inv, Always, TypeOK, Ended

LEMMA ReceiveInv ==
    ASSUME Inv, NEW c \in Clients, Receive(c)
    PROVE  Inv'
<1> USE DEF Inv, Always
<1>1. /\ call[c] # None /\ conn[c] # None /\ replies[conn[c]] # <<>>
      /\ replies' = [replies EXCEPT ![conn[c]] = Tail(@)]
      /\ UNCHANGED <<opened, conn, backlog, requests, serving, busy, handled, made, up>>
  BY DEF Receive, LastCall
<1>a. PICK k0 \in Conns : k0 = conn[c]
  BY <1>1 DEF TypeOK
<1>2. call[c] \in Call /\ Answerable(call[c]) /\ replies[k0] = AnswerTo(call[c])
        /\ (up => \A r \in Call : ~At(r, k0))
  BY <1>1, <1>a, LastFacts DEF RepliesFit
<1>3. PICK x \in Message :
         /\ replies[k0] = <<x>>
         /\ x.of = call[c].id
         /\ ReceivedAs(call[c].method, x) \in Service!EndsAs(handled[call[c].id])
  BY <1>2, AnswerFacts
<1>4. Head(replies[k0]) = x /\ Tail(replies[k0]) = <<>>
  BY <1>3, OneElement
<1> DEFINE end == ReceivedAs(call[c].method, x)
<1>5. Ended(c, end, x.of)
  BY <1>4, <1>a DEF Receive
<1>6. /\ call'[c] = None
      /\ outcome'[c] = [id |-> call[c].id, method |-> call[c].method, end |-> end, of |-> x.of]
      /\ \A d \in Clients \ {c} : call'[d] = call[d] /\ outcome'[d] = outcome[d]
  BY <1>1, <1>5, EndedFacts
<1>7. TypeOK'
  BY ClientType
<1>8. ConnsDistinct' /\ HandledMade'
  BY <1>1 DEF ConnsDistinct, HandledMade
<1>9. LastCall'
  BY <1>1, <1>6 DEF LastCall
<1>10. RepliesFit'
  <2>1. replies'[conn[c]] = <<>> /\ \A k \in Conns : k # conn[c] => replies'[k] = replies[k]
    BY <1>1, <1>4, <1>a DEF TypeOK
  <2>2. QED
    BY <1>1, <1>6, <2>1, OtherReplies
<1>11. OwnReply'
  BY <1>3, <1>6 DEF OwnReply
<1>12. OutcomeFaithful'
  <2>1. handled[call[c].id] \in {None, "returned", "threw"} /\ None \notin {"returned", "threw"}
    BY <1>2, CallFacts, NoneAssumption DEF TypeOK
  <2>2. /\ handled[call[c].id] = "returned" => end = "returned"
        /\ handled[call[c].id] = "threw" => end \in {"Exception", "TApplicationException"}
        /\ handled[call[c].id] = None => call[c].method \notin ProcessMap
    BY <1>2, <1>3, <2>1 DEF Service!EndsAs, Answerable
  <2> HIDE DEF end
  <2>3. ASSUME NEW d \in Clients, outcome'[d] # None, outcome'[d].end # "TTransportException"
        PROVE  CASE handled[outcome'[d].id] = "returned" -> outcome'[d].end = "returned"
                 [] handled[outcome'[d].id] = "threw" ->
                       outcome'[d].end \in {"Exception", "TApplicationException"}
                 [] handled[outcome'[d].id] = None -> outcome'[d].method \notin ProcessMap
    <3>1. CASE d = c
      <4>1. outcome'[d].id = call[c].id /\ outcome'[d].end = end
              /\ outcome'[d].method = call[c].method
        BY <1>6, <3>1
      <4>2. QED
        BY <2>1, <2>2, <4>1
    <3>2. CASE d # c
      BY <1>6, <2>3, <3>2 DEF OutcomeFaithful
    <3>3. QED
      BY <3>1, <3>2
  <2>4. QED
    BY <1>1, <2>3 DEF OutcomeFaithful
<1>13. ASSUME up PROVE Alive'
  <2> USE <1>13 DEF Alive
  <2>1. InOrder' /\ OnePerConn'
    BY <1>1 DEF InOrder, OnePerConn, Accepted, Done, Hangup
  <2>2. \A r \in Call, k \in Conns : At(r, k)' <=> At(r, k)
    BY <1>1 DEF At
  <2>3. ASSUME NEW k \in Conns, NEW r \in Call, At(r, k)
        PROVE  RequestFits(r, k)'
    <3>1. RequestFits(r, k)
      BY <2>3 DEF RequestsFit, Fitting
    <3>2. CASE r.id[1] = c
      <4>1. r.id[2] # made[c]
        BY <1>1, <1>2, <1>a, <2>3, <3>1, <3>2 DEF RequestFits
      <4>2. QED
        BY <1>1, <3>1, <3>2, <4>1 DEF RequestFits
    <3>3. CASE r.id[1] # c
      BY <1>1, <1>6, <3>1, <3>3, CallFacts DEF RequestFits
    <3>4. QED
      BY <3>2, <3>3
  <2>4. Fitting' /\ Ordered'
    BY <2>2, <2>3 DEF Fitting, Ordered, RequestsFit
  <2>5. ASSUME NEW d \in Clients, NEW r \in Call, conn[d] # None, At(r, conn[d])'
        PROVE  call'[d] = r
    <3>1. At(r, conn[d])
      BY <1>1, <2>5 DEF At
    <3>2. d # c
      BY <1>2, <1>a, <3>1
    <3>3. QED
      BY <1>6, <2>5, <3>1, <3>2 DEF RequestsFit, Waiting
  <2>6. Waiting'
    BY <1>1, <2>5 DEF Waiting
  <2>7. QED
    BY <2>1, <2>4, <2>6 DEF RequestsFit
<1>14. QED
  BY <1>1, <1>7, <1>8, <1>9, <1>10, <1>11, <1>12, <1>13

\* Giving up is not an answer.
LEMMA NoAnswer ==
    ASSUME OwnReply, OutcomeFaithful, UNCHANGED handled,
           \A d \in Clients : \/ outcome'[d] = outcome[d]
                              \/ outcome'[d].end = "TTransportException"
    PROVE  OwnReply' /\ OutcomeFaithful'
<1>1. ASSUME NEW d \in Clients, outcome'[d] # None, outcome'[d].end # "TTransportException"
      PROVE  outcome'[d] = outcome[d]
  BY <1>1
<1>2. QED
  BY <1>1 DEF OwnReply, OutcomeFaithful

LEMMA ReceiveFailsInv ==
    ASSUME Inv, NEW c \in Clients, ReceiveFails(c)
    PROVE  Inv'
<1> USE DEF Inv, Always
<1>1. /\ ~up /\ call[c] # None /\ conn[c] # None /\ replies[conn[c]] = <<>>
      /\ Ended(c, "TTransportException", None)
      /\ UNCHANGED <<opened, conn, backlog, requests, replies, serving, busy, handled, made, up>>
  BY DEF ReceiveFails, LastCall
<1>2. /\ call'[c] = None
      /\ outcome'[c] = [id |-> call[c].id, method |-> call[c].method,
                        end |-> "TTransportException", of |-> None]
      /\ \A d \in Clients \ {c} : call'[d] = call[d] /\ outcome'[d] = outcome[d]
  BY <1>1, EndedFacts
<1>3. TypeOK'
  BY ClientType
<1>4. ConnsDistinct' /\ HandledMade'
  BY <1>1 DEF ConnsDistinct, HandledMade
<1>5. LastCall'
  BY <1>1, <1>2 DEF LastCall
<1>6. RepliesFit'
  BY <1>1, <1>2, OtherReplies
<1>7. OwnReply' /\ OutcomeFaithful'
  BY <1>1, <1>2, NoAnswer
<1>8. QED
  BY <1>1, <1>3, <1>4, <1>5, <1>6, <1>7

LEMMA DisconnectInv ==
    ASSUME Inv, NEW c \in Clients, Disconnect(c)
    PROVE  Inv'
<1> USE DEF Inv, Always
<1>1. /\ conn[c] # None
      /\ conn' = [conn EXCEPT ![c] = None]
      /\ replies' = [replies EXCEPT ![conn[c]] = <<>>]
      /\ UNCHANGED <<opened, backlog, requests, serving, busy, handled, made, up>>
  BY DEF Disconnect
<1>2. /\ conn'[c] = None
      /\ \A d \in Clients \ {c} : conn'[d] = conn[d]
      /\ replies'[conn[c]] = <<>>
      /\ \A k \in Conns : k # conn[c] => replies'[k] = replies[k]
  BY <1>1 DEF TypeOK
<1>3. /\ call'[c] = None
      /\ outcome'[c] = IF call[c] # None
                       THEN [id |-> call[c].id, method |-> call[c].method,
                             end |-> "TTransportException", of |-> None]
                       ELSE outcome[c]
      /\ \A d \in Clients \ {c} : call'[d] = call[d] /\ outcome'[d] = outcome[d]
  <2>1. CASE call[c] # None
    BY <2>1, EndedFacts DEF Disconnect
  <2>2. CASE call[c] = None
    BY <2>2 DEF Disconnect
  <2>3. QED
    BY <2>1, <2>2
<1>4. TypeOK'
  BY ClientType
<1>5. ConnsDistinct' /\ HandledMade'
  BY <1>1, <1>2 DEF ConnsDistinct, HandledMade
<1>6. LastCall'
  BY <1>1, <1>2, <1>3 DEF LastCall
<1>7. RepliesFit'
  BY <1>1, <1>2, <1>3, OtherReplies
<1>8. OwnReply' /\ OutcomeFaithful'
  BY <1>1, <1>3, NoAnswer
<1>9. ASSUME up PROVE Alive'
  <2> USE <1>9 DEF Alive
  <2>1. InOrder'
    <3>1. UNCHANGED Accepted /\ \A k \in Conns : Done(k)' <=> Done(k)
      BY <1>1 DEF Accepted, Done
    <3>2. \A k \in Conns : Hangup(k) => Hangup(k)'
      BY <1>2, NoneAssumption DEF Hangup
    <3>3. QED
      BY <1>1, <3>1, <3>2 DEF InOrder
  <2>2. OnePerConn'
    BY <1>1 DEF OnePerConn
  <2>3. \A r \in Call, k \in Conns : At(r, k)' <=> At(r, k)
    BY <1>1 DEF At
  <2>4. ASSUME NEW k \in Conns, NEW r \in Call, At(r, k)
        PROVE  RequestFits(r, k)'
    <3>1. RequestFits(r, k)
      BY <2>4 DEF RequestsFit, Fitting
    <3>2. CASE r.id[1] = c
      <4>1. r.id[2] = made[c] =>
              outcome'[c] # None /\ outcome'[c].method = r.method
                /\ outcome'[c].end = "TTransportException"
        <5>1. CASE call[c] = r
          <6>1. r # None
            BY CallFacts
          <6>2. outcome'[c] = [id |-> r.id, method |-> r.method,
                               end |-> "TTransportException", of |-> None]
            BY <1>3, <5>1, <6>1
          <6>3. outcome'[c] # None
            <7>1. outcome'[c] \in Outcome
              BY <6>2, CallFacts DEF Outcome
            <7>2. QED
              BY <7>1, NoneAssumption
          <6>4. QED
            BY <6>2, <6>3
        <5>2. CASE call[c] # r
          BY <1>3, <3>1, <3>2, <5>2 DEF RequestFits
        <5>3. QED
          BY <5>1, <5>2
      <4>2. QED
        BY <1>1, <1>2, <1>3, <3>1, <3>2, <4>1 DEF RequestFits
    <3>3. CASE r.id[1] # c
      BY <1>1, <1>2, <1>3, <3>1, <3>3, CallFacts DEF RequestFits
    <3>4. QED
      BY <3>2, <3>3
  <2>5. Fitting' /\ Ordered'
    BY <2>3, <2>4 DEF Fitting, Ordered, RequestsFit
  <2>6. ASSUME NEW d \in Clients, NEW r \in Call, conn'[d] # None, At(r, conn[d])'
        PROVE  call'[d] = r
    <3>1. d # c /\ conn'[d] = conn[d]
      BY <1>2, <2>6
    <3>2. At(r, conn[d])
      BY <1>1, <2>6, <3>1 DEF At
    <3>3. QED
      BY <1>3, <2>6, <3>1, <3>2 DEF RequestsFit, Waiting
  <2>7. Waiting'
    BY <2>6 DEF Waiting
  <2>8. QED
    BY <2>1, <2>2, <2>5, <2>7 DEF RequestsFit
<1>10. QED
  BY <1>1, <1>4, <1>5, <1>6, <1>7, <1>8, <1>9

-----------------------------------------------------------------------------
(* What the server does.                                                   *)

\* A step that leaves the clients and the answers as they are.
LEMMA SameClients ==
    ASSUME Inv, UNCHANGED <<opened, conn, replies, handled, made, call, outcome>>,
           up' => up, \A r \in Call, k \in Conns : At(r, k)' => At(r, k)
    PROVE  ConnsDistinct' /\ LastCall' /\ HandledMade' /\ RepliesFit' /\ OwnReply'
             /\ OutcomeFaithful'
<1> USE DEF Inv, Always
<1>1. ConnsDistinct' /\ LastCall' /\ HandledMade' /\ OwnReply' /\ OutcomeFaithful'
  BY DEF ConnsDistinct, LastCall, HandledMade, OwnReply, OutcomeFaithful
<1>2. ASSUME NEW c \in Clients, conn[c] # None, replies[conn[c]] # <<>>
      PROVE  /\ call[c] # None
             /\ Answerable(call[c])'
             /\ replies[conn[c]] = AnswerTo(call[c])'
             /\ up' => \A r \in Call : ~At(r, conn[c])'
  <2>1. /\ call[c] # None /\ Answerable(call[c]) /\ replies[conn[c]] = AnswerTo(call[c])
        /\ up => \A r \in Call : ~At(r, conn[c])
    BY <1>2 DEF RepliesFit
  <2>2. PICK k \in Conns : k = conn[c]
    BY <1>2 DEF TypeOK
  <2>3. up' => \A r \in Call : ~At(r, k)'
    BY <2>1, <2>2
  <2>4. up' => \A r \in Call : ~At(r, conn[c])'
    BY <2>2, <2>3 DEF At
  <2>5. QED
    BY <2>1, <2>4 DEF Answerable, AnswerTo
<1>3. RepliesFit'
  BY <1>2 DEF RepliesFit
<1>4. QED
  BY <1>1, <1>3

LEMMA AcceptInv ==
    ASSUME Inv, Accept
    PROVE  Inv'
<1> USE DEF Inv, Always, Alive
<1>1. /\ up /\ serving = None /\ backlog # <<>>
      /\ serving' = Head(backlog) /\ backlog' = Tail(backlog)
      /\ UNCHANGED <<opened, conn, requests, replies, busy, handled, made, call, outcome, up>>
  BY DEF Accept
<1>2. busy = None
  BY <1>1 DEF OnePerConn
<1>3. \A r \in Call, k \in Conns : At(r, k)' <=> At(r, k)
  BY <1>1, <1>2, CallFacts DEF At
<1>4. TypeOK'
  BY <1>1, ServerType DEF ServerStep
<1>5. ConnsDistinct' /\ LastCall' /\ HandledMade' /\ RepliesFit' /\ OwnReply' /\ OutcomeFaithful'
  BY <1>1, <1>3, SameClients
<1>6. InOrder'
  <2>1. /\ Len(backlog) \in Nat /\ Len(backlog) > 0 /\ Head(backlog) = backlog[1]
        /\ Len(backlog') = Len(backlog) - 1 /\ opened \in Nat
        /\ \A i \in 1 .. Len(backlog') : backlog'[i] = backlog[i + 1]
    BY <1>1 DEF TypeOK
  <2>2. Accepted' = Accepted + 1 /\ Accepted \in Nat /\ serving' = Accepted'
    BY <1>1, <2>1 DEF Accepted, InOrder
  <2>3. \A i \in 1 .. Len(backlog') : backlog'[i] = Accepted' + i
    BY <1>1, <2>1, <2>2 DEF InOrder
  <2>4. \A k \in Conns : Done(k)' <=> Done(k)
    <3>1. serving' # None
      BY <1>1, <1>4, <2>1, TailType, NoneAssumption DEF TypeOK
    <3>2. ASSUME NEW k \in Conns PROVE (k < Accepted + 1) <=> (k < Accepted \/ k = Accepted)
      BY <2>2 DEF Conns
    <3>3. QED
      BY <1>1, <2>2, <3>1, <3>2 DEF Done
  <2>5. \A k \in Conns : Done(k)' => Hangup(k)'
    BY <1>1, <2>4 DEF InOrder, Hangup
  <2>6. QED
    BY <1>1, <2>2, <2>3, <2>4, <2>5 DEF InOrder
<1>7. OnePerConn'
  BY <1>1, <1>2 DEF OnePerConn
<1>8. RequestsFit'
  BY <1>1, <1>3, FewerRequests
<1>9. QED
  BY <1>1, <1>4, <1>5, <1>6, <1>7, <1>8

LEMMA CloseConnectionInv ==
    ASSUME Inv, CloseConnection
    PROVE  Inv'
<1> USE DEF Inv, Always, Alive
<1>1. /\ up /\ serving # None /\ busy = None /\ Hangup(serving) /\ serving' = None
      /\ requests' = [requests EXCEPT ![serving] = <<>>]
      /\ UNCHANGED <<opened, conn, backlog, replies, busy, handled, made, call, outcome, up>>
  BY DEF CloseConnection
<1>2. /\ serving \in Conns /\ requests'[serving] = <<>>
      /\ \A k \in Conns : k # serving => requests'[k] = requests[k]
  BY <1>1 DEF TypeOK
<1>3. \A r \in Call, k \in Conns : At(r, k)' => At(r, k)
  BY <1>1, <1>2, CallFacts, OneElement DEF At
<1>4. TypeOK'
  BY <1>1, ServerType DEF ServerStep
<1>5. ConnsDistinct' /\ LastCall' /\ HandledMade' /\ RepliesFit' /\ OwnReply' /\ OutcomeFaithful'
  BY <1>1, <1>3, SameClients
<1>6. InOrder'
  <2>1. UNCHANGED Accepted /\ serving = Accepted
    BY <1>1 DEF Accepted, InOrder
  <2>2. \A k \in Conns : Done(k)' <=> (Done(k) \/ k = serving)
    BY <1>1, <2>1 DEF Done
  <2>3. \A k \in Conns : Done(k)' => Hangup(k)'
    BY <1>1, <2>2 DEF InOrder, Hangup
  <2>4. \A k \in Conns : Done(k)' \/ k > opened' => requests'[k] = <<>>
    BY <1>1, <1>2, <2>2 DEF InOrder
  <2>5. QED
    BY <1>1, <2>1, <2>3, <2>4 DEF InOrder
<1>7. OnePerConn'
  BY <1>1, <1>2 DEF OnePerConn
<1>8. RequestsFit'
  BY <1>1, <1>3, FewerRequests
<1>9. QED
  BY <1>1, <1>4, <1>5, <1>6, <1>7, <1>8

LEMMA ProcessDiesInv ==
    ASSUME Inv, ProcessDies
    PROVE  Inv'
<1>1. /\ up' = FALSE
      /\ UNCHANGED <<opened, conn, backlog, requests, replies, serving, busy, handled,
                     made, call, outcome>>
  BY DEF ProcessDies
<1>2. TypeOK'
  BY <1>1 DEF Inv, Always, TypeOK
<1>3. \A r \in Call, k \in Conns : At(r, k)' <=> At(r, k)
  BY <1>1 DEF At
<1>4. ConnsDistinct' /\ LastCall' /\ HandledMade' /\ RepliesFit' /\ OwnReply' /\ OutcomeFaithful'
  BY <1>1, <1>3, SameClients
<1>5. QED
  BY <1>1, <1>2, <1>4 DEF Inv, Always

\* The server writes answer x to the call on connection k, which it has just
\* executed or refused.
LEMMA AnswerInv ==
    ASSUME Inv, up, NEW k \in Conns, NEW r \in Call, At(r, k), k = serving,
           NEW ms \in Seq(Message), Deliver(k, ms),
           \A q \in Call : ~At(q, k)', \A q \in Call, l \in Conns : At(q, l)' => At(q, l),
           ms = AnswerTo(r)', Answerable(r)',
           \A i \in Ids : i # r.id => handled'[i] = handled[i],
           UNCHANGED <<opened, conn, made, call, outcome, up>>
    PROVE  RepliesFit' /\ OutcomeFaithful'
<1> USE DEF Inv, Always, Alive
<1>1. /\ Hangup(k) => replies' = replies
      /\ ~Hangup(k) => replies'[k] = replies[k] \o ms
      /\ \A l \in Conns : l # k => replies'[l] = replies[l]
  BY DEF Deliver, TypeOK
<1>2. k <= opened /\ RequestFits(r, k)
  BY AtFacts DEF RequestsFit, Fitting
<1>3. \A l \in Conns : l > opened' => replies'[l] = <<>>
  BY <1>1, <1>2 DEF RepliesFit, Conns, TypeOK
<1>4. \A c \in Clients : conn[c] = k => call[c] = r
  BY NoneAssumption DEF RequestsFit, Waiting
\* No other client's call or outcome is about r.
<1>5. ASSUME NEW c \in Clients, call[c] # None, conn[c] # k
      PROVE  call[c].id # r.id
  BY <1>2, <1>5, LastFacts, CallFacts DEF RequestFits
<1>6. ASSUME NEW c \in Clients, conn[c] # None, replies'[conn[c]] # <<>>
      PROVE  /\ call[c] # None
             /\ Answerable(call[c])'
             /\ replies'[conn[c]] = AnswerTo(call[c])'
             /\ \A q \in Call : ~At(q, conn[c])'
  <2>1. CASE conn[c] = k
    <3>1. call[c] = r /\ ~Hangup(k)
      BY <1>4, <2>1 DEF Hangup
    <3>2. replies[k] = <<>>
      BY <1>6, <2>1 DEF RepliesFit
    <3>3. replies'[k] = ms
      BY <1>1, <3>1, <3>2
    <3>4. \A q \in Call : ~At(q, conn[c])'
      BY <2>1 DEF At
    <3>5. r # None
      BY CallFacts
    <3>6. Answerable(call[c])' /\ AnswerTo(call[c])' = AnswerTo(r)'
      BY <3>1 DEF Answerable, AnswerTo
    <3>7. QED
      BY <2>1, <3>1, <3>3, <3>4, <3>5, <3>6
  <2>2. CASE conn[c] # k
    <3>1. PICK l \in Conns : l = conn[c] /\ l # k
      BY <1>6, <2>2 DEF TypeOK
    <3>2. replies'[l] = replies[l]
      BY <1>1, <3>1
    <3>3. /\ call[c] # None /\ Answerable(call[c]) /\ replies[l] = AnswerTo(call[c])
          /\ \A q \in Call : ~At(q, l)
      BY <1>6, <3>1, <3>2 DEF RepliesFit
    <3>4. handled'[call[c].id] = handled[call[c].id]
      BY <1>5, <2>2, <3>3, LastFacts, CallFacts
    <3>5. \A q \in Call : ~At(q, conn[c])'
      BY <3>1, <3>3 DEF At
    <3>6. QED
      BY <3>1, <3>2, <3>3, <3>4, <3>5 DEF Answerable, AnswerTo
  <2>3. QED
    BY <2>1, <2>2
<1>7. RepliesFit'
  BY <1>3, <1>6 DEF RepliesFit
<1>8. ASSUME NEW c \in Clients, outcome[c] # None, outcome[c].end # "TTransportException"
      PROVE  handled'[outcome[c].id] = handled[outcome[c].id]
  BY <1>2, <1>8, LastFacts, CallFacts DEF RequestFits
<1>9. OutcomeFaithful'
  BY <1>8 DEF OutcomeFaithful
<1>10. QED
  BY <1>7, <1>9

LEMMA DispatchInv ==
    ASSUME Inv, DispatchCall
    PROVE  Inv'
<1> USE DEF Inv, Always, Alive
<1>1. /\ up /\ serving # None /\ busy = None /\ requests[serving] # <<>>
      /\ requests' = [requests EXCEPT ![serving] = Tail(@)]
      /\ UNCHANGED <<opened, conn, backlog, serving, handled, made, call, outcome, up>>
  BY DEF DispatchCall
<1>2. PICK k \in Conns : k = serving
  BY <1>1 DEF TypeOK
<1>3. PICK r \in Call : requests[k] = <<r>>
  BY <1>1, <1>2 DEF OnePerConn
<1>4. /\ Head(requests[k]) = r /\ requests'[k] = <<>>
      /\ \A l \in Conns : l # k => requests'[l] = requests[l]
  BY <1>1, <1>2, <1>3, OneElement DEF TypeOK
<1>5. \/ r.method \in ProcessMap /\ busy' = r /\ UNCHANGED replies
      \/ r.method \notin ProcessMap /\ busy' = None /\ Deliver(k, UnknownMethod(r))
  BY <1>1, <1>2, <1>4 DEF DispatchCall
<1>6. At(r, k)
  BY <1>3 DEF At
<1>7. \A q \in Call, l \in Conns : At(q, l)' => At(q, l)
  <2>1. ASSUME NEW q \in Call, NEW l \in Conns, requests'[l] = <<q>>
        PROVE  At(q, l)
    BY <1>4, <2>1, OneElement DEF At
  <2>2. ASSUME NEW q \in Call, NEW l \in Conns, serving' = l /\ busy' = q
        PROVE  At(q, l)
    BY <1>1, <1>2, <1>5, <1>6, <2>2, CallFacts
  <2>3. QED
    BY <2>1, <2>2 DEF At
<1>8. TypeOK'
  BY <1>1, ServerType DEF ServerStep
<1>9. RequestsFit'
  BY <1>1, <1>7, FewerRequests
<1>10. InOrder'
  <2>1. UNCHANGED Accepted /\ \A l \in Conns : (Done(l)' <=> Done(l)) /\ (Hangup(l)' <=> Hangup(l))
    BY <1>1 DEF Accepted, Done, Hangup
  <2>2. \A l \in Conns : Done(l)' \/ l > opened' => requests'[l] = <<>>
    BY <1>1, <1>4, <2>1 DEF InOrder
  <2>3. QED
    BY <1>1, <2>1, <2>2 DEF InOrder
<1>11. OnePerConn'
  <2>1. \A l \in Conns : requests'[l] = <<>> \/ \E q \in Call : requests'[l] = <<q>>
    BY <1>1, <1>4 DEF OnePerConn
  <2>2. busy' # None => serving' # None /\ busy'.method \in ProcessMap /\ requests'[serving'] = <<>>
    BY <1>1, <1>2, <1>4, <1>5
  <2>3. QED
    BY <2>1, <2>2 DEF OnePerConn
<1>12. CASE r.method \in ProcessMap /\ busy' = r /\ UNCHANGED replies
  <2>1. ConnsDistinct' /\ LastCall' /\ HandledMade' /\ RepliesFit' /\ OwnReply' /\ OutcomeFaithful'
    BY <1>1, <1>7, <1>12, SameClients
  <2>2. QED
    BY <1>8, <1>9, <1>10, <1>11, <2>1
<1>13. CASE r.method \notin ProcessMap /\ busy' = None /\ Deliver(k, UnknownMethod(r))
  <2>1. ConnsDistinct' /\ LastCall' /\ HandledMade' /\ OwnReply'
    BY <1>1 DEF ConnsDistinct, LastCall, HandledMade, OwnReply
  <2>2. handled[r.id] = None
    <3>1. RequestFits(r, k)
      BY <1>1, <1>6 DEF RequestsFit, Fitting
    <3>2. QED
      BY <3>1, CallFacts DEF RequestFits
  <2>3. UnknownMethod(r) = AnswerTo(r)' /\ Answerable(r)'
    BY <1>1, <1>13, <2>2 DEF AnswerTo, Answerable, UnknownMethod, Refusal
  <2>4. \A q \in Call : ~At(q, k)'
    BY <1>4, <1>13, CallFacts, OneElement DEF At
  <2>5. UnknownMethod(r) \in Seq(Message)
    BY MessageTypes
  <2>6. RepliesFit' /\ OutcomeFaithful'
    BY <1>1, <1>2, <1>6, <1>7, <1>13, <2>3, <2>4, <2>5, AnswerInv
  <2>7. QED
    BY <1>8, <1>9, <1>10, <1>11, <2>1, <2>6
<1>14. QED
  BY <1>5, <1>12, <1>13

LEMMA HandlerEndsInv ==
    ASSUME Inv, HandlerEnds
    PROVE  Inv'
<1> USE DEF Inv, Always, Alive
<1>1. /\ up /\ busy # None /\ busy' = None
      /\ UNCHANGED <<opened, conn, backlog, requests, serving, made, call, outcome, up>>
  BY DEF HandlerEnds
<1>2. PICK r \in Call, k \in Conns : r = busy /\ k = serving
  BY <1>1 DEF TypeOK, OnePerConn
<1>3. PICK how \in {"returned", "threw"} :
         /\ how = "threw" => r.method \in MayThrow
         /\ handled' = [handled EXCEPT ![r.id] = how]
         /\ Deliver(k, Process(r, how))
  BY <1>2 DEF HandlerEnds
<1>4. r.method \in ProcessMap /\ requests[k] = <<>>
  BY <1>1, <1>2 DEF OnePerConn
<1>5. At(r, k)
  BY <1>2 DEF At
<1>6. RequestFits(r, k)
  BY <1>1, <1>5 DEF RequestsFit, Fitting
<1>7. handled'[r.id] = how /\ \A i \in Ids : i # r.id => handled'[i] = handled[i]
  BY <1>3, CallFacts DEF TypeOK
<1>8. \A q \in Call, l \in Conns : At(q, l)' => At(q, l) /\ l # k /\ requests[l] = <<q>>
  BY <1>1, <1>4, CallFacts, OneElement DEF At
<1>9. TypeOK'
  BY <1>1, ServerType DEF ServerStep
<1>10. ConnsDistinct' /\ LastCall' /\ OwnReply'
  BY <1>1 DEF ConnsDistinct, LastCall, OwnReply
<1>11. HandledMade'
  BY <1>1, <1>6, <1>7 DEF HandledMade, RequestFits
<1>12. RepliesFit' /\ OutcomeFaithful'
  <2>1. how # None
    BY NoneAssumption
  <2>2. Process(r, how) = AnswerTo(r)' /\ Answerable(r)'
    <3>1. AnswerTo(r)' = Process(r, how)'
      BY <1>7, <2>1 DEF AnswerTo
    <3>2. Process(r, how)' = Process(r, how)
      BY DEF Process, Result, Refusal
    <3>3. Answerable(r)'
      BY <1>3, <1>4, <1>7, <2>1 DEF Answerable
    <3>4. QED
      BY <3>1, <3>2, <3>3
  <2>3. \A q \in Call : ~At(q, k)'
    BY <1>8
  <2>4. Process(r, how) \in Seq(Message)
    BY MessageTypes
  <2>5. QED
    BY <1>1, <1>2, <1>3, <1>5, <1>7, <1>8, <2>2, <2>3, <2>4, AnswerInv
<1>13. InOrder'
  BY <1>1 DEF InOrder, Accepted, Done, Hangup
<1>14. OnePerConn'
  BY <1>1 DEF OnePerConn
<1>15. Fitting'
  <2>1. ASSUME NEW l \in Conns, NEW q \in Call, At(q, l), l # k, requests[l] = <<q>>
        PROVE  RequestFits(q, l)'
    <3>1. RequestFits(q, l)
      BY <1>1, <2>1 DEF RequestsFit, Fitting
    <3>2. ~(q.id[1] = r.id[1] /\ q.id[2] <= r.id[2])
      <4>1. k < l
        <5>1. ~Done(l) /\ k = Accepted
          BY <1>1, <1>2, <2>1, AtFacts, NoneAssumption DEF InOrder
        <5>2. QED
          BY <2>1, <5>1 DEF Done, Conns
      <4>2. q.id[1] = r.id[1] => r.id[2] < q.id[2]
        BY <1>1, <1>5, <2>1, <4>1 DEF RequestsFit, Ordered
      <4>3. QED
        BY <4>2, CallFacts
    <3>3. \A i \in Ids : i[1] = q.id[1] /\ q.id[2] <= i[2] => handled'[i] = None
      BY <1>7, <3>1, <3>2 DEF RequestFits
    <3>4. QED
      BY <1>1, <3>1, <3>3 DEF RequestFits
  <2>2. QED
    BY <1>8, <2>1 DEF Fitting
<1>16. Ordered' /\ Waiting'
  <2>1. Ordered'
    BY <1>1, <1>8 DEF RequestsFit, Ordered
  <2>2. ASSUME NEW c \in Clients, NEW q \in Call, conn[c] # None, At(q, conn[c])'
        PROVE  call[c] = q
    <3>1. PICK l \in Conns : l = conn[c]
      BY <2>2 DEF TypeOK
    <3>2. At(q, l)'
      BY <1>1, <2>2, <3>1 DEF At
    <3>3. QED
      BY <1>1, <1>8, <2>2, <3>1, <3>2 DEF RequestsFit, Waiting
  <2>3. QED
    BY <1>1, <2>1, <2>2 DEF Waiting
<1>17. QED
  BY <1>9, <1>10, <1>11, <1>12, <1>13, <1>14, <1>15, <1>16 DEF RequestsFit

-----------------------------------------------------------------------------
(* The invariant.                                                          *)

LEMMA InitInv == Init => Inv
<1> SUFFICES ASSUME Init PROVE Inv
  OBVIOUS
<1> USE DEF Init
<1>1. TypeOK
  BY BoundAssumption DEF TypeOK
<1>2. ConnsDistinct /\ LastCall /\ HandledMade /\ RepliesFit /\ OwnReply /\ OutcomeFaithful
  BY DEF ConnsDistinct, LastCall, HandledMade, RepliesFit, OwnReply, OutcomeFaithful
<1>3. \A r \in Call, k \in Conns : ~At(r, k)
  BY CallFacts, OneElement DEF At
<1>4. InOrder
  <2>0. opened = 0 /\ Len(backlog) = 0
    OBVIOUS
  <2>1. Accepted = 0
    <3>1. \A m, n : m = 0 /\ n = 0 => m - n = 0
      OBVIOUS
    <3>2. QED
      BY <2>0, <3>1, Zenon DEF Accepted
  <2>2. \A k \in Conns : Hangup(k)
    BY NoneAssumption DEF Hangup
  <2>3. QED
    BY <2>0, <2>1, <2>2 DEF InOrder
<1>5. OnePerConn
  BY DEF OnePerConn
<1>6. RequestsFit
  <2>1. Waiting
    BY DEF Waiting
  <2>2. QED
    BY <1>3, <2>1 DEF RequestsFit, Fitting, Ordered
<1>7. QED
  BY <1>1, <1>2, <1>4, <1>5, <1>6 DEF Inv, Always, Alive

LEMMA NextInv ==
    ASSUME Inv, [Next]_vars
    PROVE  Inv'
<1>1. CASE \E c \in Clients : ClientStep(c)
  BY <1>1, ConnectInv, SendInv, ReceiveInv, ReceiveFailsInv, DisconnectInv DEF ClientStep
<1>2. CASE ServerStep \/ ProcessDies
  BY <1>2, AcceptInv, DispatchInv, HandlerEndsInv, CloseConnectionInv, ProcessDiesInv
     DEF ServerStep
<1>3. CASE UNCHANGED vars
  <2>1. UNCHANGED <<opened, conn, backlog, requests, replies, serving, busy, handled,
                    made, call, outcome, up>>
    BY <1>3 DEF vars
  <2>2. TypeOK'
    BY <2>1 DEF Inv, Always, TypeOK
  <2>3. \A r \in Call, k \in Conns : At(r, k)' <=> At(r, k)
    BY <2>1 DEF At
  <2>4. ConnsDistinct' /\ LastCall' /\ HandledMade' /\ RepliesFit' /\ OwnReply' /\ OutcomeFaithful'
    BY <2>1, <2>3, SameClients
  <2>5. up => InOrder' /\ OnePerConn'
    BY <2>1 DEF Inv, Alive, InOrder, OnePerConn, Accepted, Done, Hangup
  <2>6. up => RequestsFit'
    BY <2>1, <2>3, FewerRequests DEF Inv, Always, Alive
  <2>7. QED
    BY <2>1, <2>2, <2>4, <2>5, <2>6 DEF Inv, Always, Alive
<1>4. QED
  BY <1>1, <1>2, <1>3 DEF Next

\* The invariant everything below rests on.
THEOREM SessionInvariant == Spec => []Inv
<1>1. Init => Inv
  BY InitInv
<1>2. Inv /\ [Next]_vars => Inv'
  BY NextInv
<1>3. QED
  BY <1>1, <1>2, PTL DEF Spec

\* Every variable keeps its type: no message, call or connection of another
\* kind gets anywhere.
THEOREM TypeOKHolds == Spec => []TypeOK
<1>1. Inv => TypeOK
  BY DEF Inv, Always
<1>2. QED
  BY <1>1, SessionInvariant, PTL

\* A reply that a client reads is that of its own call (recv_ compares nothing
\* but the method's name), whatever it gave up before.
THEOREM OwnReplyHolds == Spec => []OwnReply
<1>1. Inv => OwnReply
  BY DEF Inv, Always
<1>2. QED
  BY <1>1, SessionInvariant, PTL

\* A call ends the way its handler did, through process_ and recv_.
THEOREM OutcomeFaithfulHolds == Spec => []OutcomeFaithful
<1>1. Inv => OutcomeFaithful
  BY DEF Inv, Always
<1>2. QED
  BY <1>1, SessionInvariant, PTL

-----------------------------------------------------------------------------
(* RpcSession implements CallService.                                      *)

LEMMA ClientImplements ==
    ASSUME Inv, NEW c \in Clients, ClientStep(c)
    PROVE  [Service!Next]_Service!vars
<1> USE DEF Inv, Always
<1>1. CASE Connect(c)
  BY <1>1 DEF Connect, Service!vars
<1>2. CASE Send(c)
  <2>1. PICK m \in Methods :
           call' = [call EXCEPT ![c] = [id |-> <<c, made[c] + 1>>, method |-> m]]
    BY <1>2 DEF Send
  <2>2. Service!Invoke(c, m)
    BY <1>2, <2>1 DEF Send, Service!Invoke
  <2>3. QED
    BY <2>2 DEF Service!Next
<1>3. CASE Receive(c)
  <2>1. call[c] # None /\ conn[c] # None /\ replies[conn[c]] # <<>> /\ UNCHANGED <<made, handled>>
    BY <1>3 DEF Receive, LastCall
  <2>2. call[c] \in Call /\ Answerable(call[c]) /\ replies[conn[c]] = AnswerTo(call[c])
    BY <2>1, LastFacts DEF RepliesFit
  <2>3. PICK x \in Message :
           /\ replies[conn[c]] = <<x>>
           /\ x.of = call[c].id
           /\ ReceivedAs(call[c].method, x) \in Service!EndsAs(handled[call[c].id])
    BY <2>2, AnswerFacts
  <2>4. Ended(c, ReceivedAs(call[c].method, x), call[c].id)
    BY <1>3, <2>3, OneElement DEF Receive
  <2>5. Service!End(c, ReceivedAs(call[c].method, x), call[c].id)
    BY <2>1, <2>4 DEF Ended, Service!End
  <2>6. handled[call[c].id] = None => call[c].method \notin ProcessMap
    BY <2>2 DEF Answerable
  <2>7. Service!Answer(c)
    BY <2>3, <2>5, <2>6 DEF Service!Answer
  <2>8. QED
    BY <2>1, <2>7 DEF Service!Next
<1>4. CASE ReceiveFails(c) \/ (Disconnect(c) /\ call[c] # None)
  <2>1. call[c] # None /\ Ended(c, "TTransportException", None) /\ UNCHANGED <<made, handled>>
    BY <1>4 DEF ReceiveFails, Disconnect
  <2>2. Service!GiveUp(c)
    BY <2>1 DEF Ended, Service!GiveUp, Service!End
  <2>3. QED
    BY <2>1, <2>2 DEF Service!Next
<1>5. CASE Disconnect(c) /\ call[c] = None
  BY <1>5 DEF Disconnect, Service!vars
<1>6. QED
  BY <1>1, <1>2, <1>3, <1>4, <1>5 DEF ClientStep

LEMMA HandlerImplements ==
    ASSUME Inv, HandlerEnds
    PROVE  Service!Next
<1> USE DEF Inv, Always, Alive
<1>1. up /\ busy # None /\ UNCHANGED <<made, call, outcome>>
  BY DEF HandlerEnds
<1>2. PICK r \in Call, k \in Conns : r = busy /\ k = serving
  BY <1>1 DEF TypeOK, OnePerConn
<1>3. PICK how \in {"returned", "threw"} : handled' = [handled EXCEPT ![r.id] = how]
  BY <1>2 DEF HandlerEnds
<1>4. RequestFits(r, k) /\ r.method \in ProcessMap
  BY <1>1, <1>2 DEF RequestsFit, Fitting, At, OnePerConn
<1>5. /\ r.id[2] <= made[r.id[1]]
      /\ \A j \in Ids : j[1] = r.id[1] /\ r.id[2] <= j[2] => handled[j] = None
  BY <1>4 DEF RequestFits
<1>6. Service!MethodIs(r.id, ProcessMap)
  <2> DEFINE c == r.id[1]
  <2>1. c \in Clients
    BY CallFacts
  <2>2. call[c] # None /\ call[c].id = r.id => call[c].method \in ProcessMap
    BY <1>4, <2>1, LastFacts DEF RequestFits
  <2>3. outcome[c] # None /\ outcome[c].id = r.id => outcome[c].method \in ProcessMap
    BY <1>4, <2>1, LastFacts, CallFacts DEF RequestFits
  <2>4. QED
    BY <2>2, <2>3 DEF Service!MethodIs
<1>7. Service!Execute(r.id, how)
  BY <1>1, <1>3, <1>5, <1>6 DEF Service!Execute
<1>8. QED
  BY <1>7, CallFacts DEF Service!Next

\* Connections, one server thread, given up calls and a process that may die
\* implement calls that are executed at most once, client by client in order,
\* and answered with their own result.
THEOREM CallsImplemented == Spec => ImplementsCalls
<1>1. Init => Service!Init
  BY DEF Init, Service!Init
<1>2. Inv /\ [Next]_vars => [Service!Next]_Service!vars
  <2> SUFFICES ASSUME Inv, [Next]_vars
               PROVE  [Service!Next]_Service!vars
    OBVIOUS
  <2>1. CASE \E c \in Clients : ClientStep(c)
    BY <2>1, ClientImplements
  <2>2. CASE HandlerEnds
    BY <2>2, HandlerImplements
  <2>3. CASE Accept \/ DispatchCall \/ CloseConnection \/ ProcessDies \/ UNCHANGED vars
    BY <2>3 DEF Accept, DispatchCall, CloseConnection, ProcessDies, vars, Service!vars
  <2>4. QED
    BY <2>1, <2>2, <2>3 DEF Next, ServerStep
<1>3. QED
  BY <1>1, <1>2, SessionInvariant, PTL DEF Spec, ImplementsCalls, Service!Spec

=============================================================================
