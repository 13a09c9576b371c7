----------------------- MODULE ConcurrentClientProofs ------------------------
(***************************************************************************)
(* Safety of the concurrent client, for any number of callers and calls.   *)
(* It follows from the discipline of the read mutex, which a caller holds  *)
(* from the moment it may read until it has read a whole reply or left the *)
(* header pending; and from that of the sequence numbers, none of which is *)
(* on its way twice.                                                       *)
(***************************************************************************)
EXTENDS ConcurrentClient, TLAPS

\* A caller that reads, or holds a header, owns the read mutex.
ReadersLock ==
    \A c \in Callers : at[c] \in {"read", "decide"} => readMutex = c

\* Headers are held between reading one and deciding whose it is; none is while
\* another is pending.
HeaderHeld ==
    /\ \A c \in Callers : header[c] # None => at[c] = "decide"
    /\ pending # None => \A c \in Callers : header[c] = None

\* A caller in a call has a sequence number.
Numbered == \A c \in Callers : at[c] # "idle" => seqid[c] \in Seqs

IInv == TypeOK /\ ReadersLock /\ HeaderHeld /\ Numbered /\ ReplyToOwner

-----------------------------------------------------------------------------

LEMMA InitIInv == Init => IInv
<1> SUFFICES ASSUME Init
             PROVE  IInv
  OBVIOUS
<1>1. /\ <<>> \in Seq(Seqs) /\ <<>> \in Seq(Replies)
      /\ 1 \in 1 .. MaxSeq + 1 /\ 0 \in 0 .. MaxSeq
  BY SeqAssumption
<1>2. TypeOK
  BY <1>1 DEF Init, TypeOK
<1>3. ReadersLock /\ HeaderHeld /\ Numbered /\ ReplyToOwner
  BY DEF Init, ReadersLock, HeaderHeld, Numbered, ReplyToOwner
<1>4. QED
  BY <1>2, <1>3 DEF IInv

LEMMA AppendType ==
    ASSUME NEW S, NEW q \in Seq(S), NEW x \in S
    PROVE  Append(q, x) \in Seq(S)
OBVIOUS

\* Every step keeps the types.
LEMMA NextTypeOK ==
    ASSUME TypeOK, Numbered, [Next]_vars
    PROVE  TypeOK'
<1> USE SeqAssumption DEF TypeOK, Numbered, GoTo
<1>1. ASSUME NEW c \in Callers, generateSeqId(c)
      PROVE  TypeOK'
  BY <1>1 DEF generateSeqId, connVars, Seqs
<1>2. ASSUME NEW c \in Callers, Send(c)
      PROVE  TypeOK'
  <2>1. requests' \in Seq(Seqs)
    <3>1. seqid[c] \in Seqs
      BY <1>2 DEF Send
    <3>2. requests' = Append(requests, seqid[c]) \/ requests' = requests
      BY <1>2 DEF Send
    <3>3. requests \in Seq(Seqs)
      OBVIOUS
    <3>4. Append(requests, seqid[c]) \in Seq(Seqs)
      BY <3>1, <3>3, AppendType
    <3>5. QED
      BY <3>2, <3>3, <3>4
  <2>2. CASE connected
    <3>1. at' \in [Callers -> {"idle", "send", "lock", "read", "decide", "wait"}]
      BY <1>2, <2>2 DEF Send
    <3>2. UNCHANGED <<connected, replies, nextseqid, readMutex, pending, seqid, header,
                      monitors, wakeup, stop, notified, answer>>
      BY <1>2, <2>2 DEF Send
    <3>3. QED
      BY <2>1, <3>1, <3>2
  <2>3. CASE ~connected
    <3>1. monitors' \subseteq Seqs /\ notified' \subseteq Callers
      BY <1>2, <2>3 DEF Send, MarkBad, Owners
    <3>2. QED
      BY <1>2, <2>1, <2>3, <3>1 DEF Send, MarkBad
  <2>4. QED
    BY <2>2, <2>3
<1>3. ASSUME NEW c \in Callers, LockRead(c)
      PROVE  TypeOK'
  BY <1>3 DEF LockRead, connVars
<1>4. ASSUME NEW c \in Callers, readMessageBegin(c)
      PROVE  TypeOK'
  <2>1. replies # <<>> => Head(replies) \in Replies /\ Tail(replies) \in Seq(Replies)
    OBVIOUS
  <2>2. /\ replies' \in Seq(Replies)
        /\ header' \in [Callers -> Replies \cup {None}]
        /\ pending' \in Replies \cup {None}
    <3>1. NextHeader(c)
      BY <1>4 DEF readMessageBegin
    <3>2. CASE pending # None
      BY <3>1, <3>2 DEF NextHeader
    <3>3. CASE pending = None
      <4>1. /\ header' = [header EXCEPT ![c] = Head(replies)]
            /\ replies # <<>> /\ replies' = Tail(replies) /\ pending' = pending
        BY <3>1, <3>3 DEF NextHeader
      <4>2. QED
        BY <2>1, <4>1
    <3>4. QED
      BY <3>2, <3>3
  <2>3. at' \in [Callers -> {"idle", "send", "lock", "read", "decide", "wait"}]
    BY <1>4 DEF readMessageBegin
  <2>4. /\ wakeup' = FALSE
        /\ UNCHANGED <<connected, requests, nextseqid, monitors, readMutex, stop, seqid,
                       notified, answer>>
    BY <1>4 DEF readMessageBegin
  <2>5. QED
    BY <2>2, <2>3, <2>4
<1>5. ASSUME NEW c \in Callers, Fail(c), UNCHANGED <<connVars, nextseqid, pending, seqid>>
      PROVE  TypeOK'
  BY <1>5 DEF Fail, MarkBad, Owners, connVars
<1>6. ASSUME NEW c \in Callers, ReadBody(c)
      PROVE  TypeOK'
  <2>1. CASE header[c].body \in Committed
    BY <1>6, <2>1 DEF ReadBody, Commit, Owners, connVars
  <2>2. CASE header[c].body \notin Committed
    BY <1>5, <1>6, <2>2 DEF ReadBody
  <2>3. QED
    BY <2>1, <2>2
<1>7. ASSUME NEW c \in Callers, HandOver(c)
      PROVE  TypeOK'
  <2>1. CASE header[c].seq \in monitors
    <3>1. /\ pending' = header[c] /\ notified' = notified \cup Owners({header[c].seq})
          /\ header' = [header EXCEPT ![c] = None]
          /\ at' = [at EXCEPT ![c] = "wait"]
      BY <1>7, <2>1 DEF HandOver, UpdatePending
    <3>2. Owners({header[c].seq}) \subseteq Callers
      BY DEF Owners
    <3>3. /\ readMutex' = None
          /\ UNCHANGED <<connVars, nextseqid, seqid, monitors, wakeup, stop, answer>>
      BY <1>7, <2>1 DEF HandOver
    <3>4. QED
      BY <3>1, <3>2, <3>3 DEF connVars
  <2>2. CASE header[c].seq \notin monitors
    BY <1>5, <1>7, <2>2 DEF HandOver
  <2>3. QED
    BY <2>1, <2>2
<1>8. ASSUME NEW c \in Callers, WakeUp(c)
      PROVE  TypeOK'
  <2>1. CASE stop
    BY <1>5, <1>8, <2>1 DEF WakeUp
  <2>2. CASE ~stop
    BY <1>8, <2>2 DEF WakeUp, connVars
  <2>3. QED
    BY <2>1, <2>2
<1>9. ASSUME Serve
      PROVE  TypeOK'
  <2>1. requests' \in Seq(Seqs)
    BY <1>9 DEF Serve
  <2>2. Head(requests) \in Seqs
    BY <1>9 DEF Serve
  <2>3. replies' \in Seq(Replies)
    BY <1>9, <2>2 DEF Serve, Replies
  <2>4. QED
    BY <1>9, <2>1, <2>3 DEF Serve, syncVars, callerVars
<1>10. CASE Disconnect \/ UNCHANGED vars
  BY <1>10 DEF Disconnect, vars, connVars, syncVars, callerVars
<1>11. ASSUME NEW c \in Callers, ReadFails(c)
      PROVE  TypeOK'
  BY <1>5, <1>11 DEF ReadFails
<1>12. QED
  BY <1>1, <1>2, <1>3, <1>4, <1>6, <1>7, <1>8, <1>9, <1>10, <1>11 DEF Next, CallerStep

-----------------------------------------------------------------------------

\* The rest of the invariant, which steps of other callers leave alone.
Discipline == ReadersLock /\ HeaderHeld /\ Numbered /\ ReplyToOwner

\* A caller whose call fails lets go of all it has.
LEMMA FailDiscipline ==
    ASSUME TypeOK, Discipline, NEW c \in Callers, Fail(c),
           readMutex \in {c, None}, UNCHANGED <<pending, seqid>>
    PROVE  Discipline'
BY SeqAssumption DEF Discipline, TypeOK, ReadersLock, HeaderHeld, Numbered, ReplyToOwner,
                     Fail, MarkBad, GoTo

LEMMA NextDiscipline ==
    ASSUME TypeOK, Discipline, [Next]_vars
    PROVE  Discipline'
<1> USE SeqAssumption DEF TypeOK, Discipline, ReadersLock, HeaderHeld, Numbered, ReplyToOwner,
                          GoTo
<1>1. ASSUME NEW c \in Callers, generateSeqId(c)
      PROVE  Discipline'
  BY <1>1 DEF generateSeqId, connVars, Seqs
<1>2. ASSUME NEW c \in Callers, Send(c)
      PROVE  Discipline'
  BY <1>2 DEF Send, MarkBad
<1>3. ASSUME NEW c \in Callers, LockRead(c)
      PROVE  Discipline'
  BY <1>3 DEF LockRead, connVars
<1>4. ASSUME NEW c \in Callers, readMessageBegin(c)
      PROVE  Discipline'
  <2>1. \A d \in Callers \ {c} : header[d] = None
    BY <1>4 DEF readMessageBegin
  <2>2. pending' = None /\ \A d \in Callers \ {c} : header'[d] = None
    BY <1>4, <2>1 DEF readMessageBegin, NextHeader
  <2>3. QED
    BY <1>4, <2>2 DEF readMessageBegin
<1>5. ASSUME NEW c \in Callers, ReadFails(c)
      PROVE  Discipline'
  BY <1>5, FailDiscipline DEF ReadFails
<1>6. ASSUME NEW c \in Callers, ReadBody(c)
      PROVE  Discipline'
  <2>1. CASE header[c].body \in Committed
    <3>1. /\ at[c] = "decide" /\ header[c].seq = seqid[c]
          /\ readMutex' = None
          /\ answer' = [answer EXCEPT ![c] = header[c]]
          /\ header' = [header EXCEPT ![c] = None]
          /\ at' = [at EXCEPT ![c] = "idle"]
          /\ pending' = pending /\ seqid' = seqid
      BY <1>6, <2>1 DEF ReadBody, Mine
    <3>2. \A d \in Callers \ {c} : at[d] \notin {"read", "decide"}
      BY <3>1
    <3>3. ReadersLock' /\ Numbered' /\ ReplyToOwner'
      BY <3>1, <3>2
    <3>4. HeaderHeld'
      BY <3>1
    <3>5. QED
      BY <3>3, <3>4
  <2>2. CASE header[c].body \notin Committed
    BY <1>6, <2>2, FailDiscipline DEF ReadBody
  <2>3. QED
    BY <2>1, <2>2
<1>7. ASSUME NEW c \in Callers, HandOver(c)
      PROVE  Discipline'
  <2>1. CASE header[c].seq \in monitors
    <3>1. \A d \in Callers : header'[d] = None
      BY <1>7, <2>1 DEF HandOver
    <3>2. QED
      BY <1>7, <2>1, <3>1 DEF HandOver, connVars
  <2>2. CASE header[c].seq \notin monitors
    BY <1>7, <2>2, FailDiscipline DEF HandOver
  <2>3. QED
    BY <2>1, <2>2
<1>8. ASSUME NEW c \in Callers, WakeUp(c)
      PROVE  Discipline'
  <2>1. CASE stop
    BY <1>8, <2>1, FailDiscipline DEF WakeUp
  <2>2. CASE ~stop
    BY <1>8, <2>2 DEF WakeUp
  <2>3. QED
    BY <2>1, <2>2
<1>9. CASE Serve \/ Disconnect \/ UNCHANGED vars
  BY <1>9 DEF Serve, Disconnect, vars, syncVars, callerVars
<1>10. QED
  BY <1>1, <1>2, <1>3, <1>4, <1>5, <1>6, <1>7, <1>8, <1>9 DEF Next, CallerStep

\* The inductive invariant.
THEOREM ClientInvariant == Spec => []IInv
<1>1. IInv /\ [Next]_vars => IInv'
  BY NextTypeOK, NextDiscipline DEF IInv, Discipline
<1>2. QED
  BY InitIInv, <1>1, PTL DEF Spec

\* Between a header and its body nothing else is read from the connection.
THEOREM HeaderThenBodyHolds == Spec => []HeaderThenBody
<1>1. IInv => HeaderThenBody
  BY SeqAssumption DEF IInv, ReadersLock, HeaderHeld, HeaderThenBody
<1>2. QED
  BY <1>1, ClientInvariant, PTL

\* Every call ends with the reply to its own request, or fails.
THEOREM ReplyToOwnerHolds == Spec => []ReplyToOwner
<1>1. IInv => ReplyToOwner
  BY DEF IInv
<1>2. QED
  BY <1>1, ClientInvariant, PTL

-----------------------------------------------------------------------------
(* What is in flight.  While the client lives, no sequence number is on its *)
(* way twice, and each that is has a monitor.                              *)

SentIn(q) == {q[i] : i \in 1 .. Len(q)}
AnsweredIn(r) == {r[i].seq : i \in 1 .. Len(r)}

\* The headers read and not yet followed by their body: callers' and the
\* pending one.
OutIn(h, p) == {n \in Seqs : \/ \E c \in Callers : h[c] # None /\ h[c].seq = n
                             \/ p # None /\ p.seq = n}

Once(q) == \A i, j \in 1 .. Len(q) : q[i] = q[j] => i = j
OnceAnswered(r) == \A i, j \in 1 .. Len(r) : r[i].seq = r[j].seq => i = j

Disjoint(Q, R, O) == Q \cap R = {} /\ Q \cap O = {} /\ R \cap O = {}

InFlight ==
    /\ Once(requests) /\ OnceAnswered(replies)
    /\ Disjoint(SentIn(requests), AnsweredIn(replies), OutIn(header, pending))
    /\ SentIn(requests) \subseteq monitors
    /\ AnsweredIn(replies) \subseteq monitors
    /\ OutIn(header, pending) \subseteq monitors

\* A caller that has not sent its request: its number is on no way yet.
ToSend(c) == seqid[c] \in monitors
               /\ seqid[c] \notin SentIn(requests) \cup AnsweredIn(replies)
                                    \cup OutIn(header, pending)

Alive ==
    /\ InFlight
    /\ \A c \in Callers : at[c] = "send" => ToSend(c)
    /\ \A n \in monitors : n < nextseqid

\* Numbers are given out once.
OwnNumber ==
    /\ \A c \in Callers : at[c] # "idle" => seqid[c] < nextseqid
    /\ \A c, d \in Callers :
          at[c] # "idle" /\ at[d] # "idle" /\ seqid[c] = seqid[d] => c = d

\* A caller that decides holds the header it decides about.
Deciding == \A c \in Callers : at[c] = "decide" => header[c] # None

FlightInv == OwnNumber /\ Deciding /\ (~stop => Alive)

-----------------------------------------------------------------------------

LEMMA AppendSent ==
    ASSUME NEW q \in Seq(Seqs), NEW n \in Seqs, Once(q), n \notin SentIn(q)
    PROVE  Once(Append(q, n)) /\ SentIn(Append(q, n)) = SentIn(q) \cup {n}
<1>1. PICK t : t = Append(q, n)
  OBVIOUS
<1>2. /\ Len(t) = Len(q) + 1 /\ Len(q) \in Nat
      /\ \A i \in 1 .. Len(q) : t[i] = q[i]
      /\ t[Len(q) + 1] = n
  BY <1>1
<1>3. Once(t)
  BY <1>2 DEF Once, SentIn
<1>4. SentIn(t) = SentIn(q) \cup {n}
  <2>1. SentIn(t) \subseteq SentIn(q) \cup {n}
    BY <1>2 DEF SentIn
  <2>2. SentIn(q) \subseteq SentIn(t)
    BY <1>2 DEF SentIn
  <2>3. n \in SentIn(t)
    BY <1>2 DEF SentIn
  <2>4. QED
    BY <2>1, <2>2, <2>3
<1>5. QED
  BY <1>1, <1>3, <1>4

LEMMA TailSent ==
    ASSUME NEW q \in Seq(Seqs), q # <<>>, Once(q)
    PROVE  /\ Once(Tail(q))
           /\ SentIn(Tail(q)) = SentIn(q) \ {Head(q)}
           /\ Head(q) \in SentIn(q)
<1>1. PICK t : t = Tail(q)
  OBVIOUS
<1>2. /\ Len(t) = Len(q) - 1 /\ Len(q) \in Nat /\ Len(q) >= 1
      /\ \A i \in 1 .. Len(q) - 1 : t[i] = q[i + 1]
      /\ Head(q) = q[1]
  BY <1>1
<1>3. Once(t)
  BY <1>2 DEF Once
<1>4. Head(q) \in SentIn(q)
  BY <1>2 DEF SentIn
<1>5. SentIn(t) = SentIn(q) \ {Head(q)}
  <2>1. ASSUME NEW i \in 1 .. Len(t)
        PROVE  t[i] \in SentIn(q) \ {Head(q)}
    <3>1. t[i] = q[i + 1] /\ i + 1 \in 1 .. Len(q) /\ 1 \in 1 .. Len(q) /\ i + 1 # 1
      BY <1>2
    <3>2. QED
      BY <1>2, <3>1 DEF Once, SentIn
  <2>2. ASSUME NEW i \in 1 .. Len(q), q[i] # Head(q)
        PROVE  q[i] \in SentIn(t)
    <3>1. i # 1
      BY <1>2, <2>2
    <3>2. i - 1 \in 1 .. Len(t) /\ t[i - 1] = q[(i - 1) + 1] /\ (i - 1) + 1 = i
      BY <1>2, <3>1
    <3>3. QED
      BY <3>2 DEF SentIn
  <2>3. QED
    BY <2>1, <2>2 DEF SentIn
<1>6. QED
  BY <1>1, <1>3, <1>4, <1>5

LEMMA AppendAnswered ==
    ASSUME NEW r \in Seq(Replies), NEW x \in Replies, OnceAnswered(r),
           x.seq \notin AnsweredIn(r)
    PROVE  /\ OnceAnswered(Append(r, x))
           /\ AnsweredIn(Append(r, x)) = AnsweredIn(r) \cup {x.seq}
<1>1. PICK t : t = Append(r, x)
  OBVIOUS
<1>2. /\ Len(t) = Len(r) + 1 /\ Len(r) \in Nat
      /\ \A i \in 1 .. Len(r) : t[i] = r[i]
      /\ t[Len(r) + 1] = x
  BY <1>1
<1>3. OnceAnswered(t)
  BY <1>2 DEF OnceAnswered, AnsweredIn
<1>4. AnsweredIn(t) = AnsweredIn(r) \cup {x.seq}
  <2>1. AnsweredIn(t) \subseteq AnsweredIn(r) \cup {x.seq}
    BY <1>2 DEF AnsweredIn
  <2>2. AnsweredIn(r) \subseteq AnsweredIn(t)
    BY <1>2 DEF AnsweredIn
  <2>3. x.seq \in AnsweredIn(t)
    BY <1>2 DEF AnsweredIn
  <2>4. QED
    BY <2>1, <2>2, <2>3
<1>5. QED
  BY <1>1, <1>3, <1>4

LEMMA TailAnswered ==
    ASSUME NEW r \in Seq(Replies), r # <<>>, OnceAnswered(r)
    PROVE  /\ OnceAnswered(Tail(r))
           /\ AnsweredIn(Tail(r)) = AnsweredIn(r) \ {Head(r).seq}
           /\ Head(r).seq \in AnsweredIn(r)
<1>1. PICK t : t = Tail(r)
  OBVIOUS
<1>2. /\ Len(t) = Len(r) - 1 /\ Len(r) \in Nat /\ Len(r) >= 1
      /\ \A i \in 1 .. Len(r) - 1 : t[i] = r[i + 1]
      /\ Head(r) = r[1]
  BY <1>1
<1>3. OnceAnswered(t)
  BY <1>2 DEF OnceAnswered
<1>4. Head(r).seq \in AnsweredIn(r)
  BY <1>2 DEF AnsweredIn
<1>5. AnsweredIn(t) = AnsweredIn(r) \ {Head(r).seq}
  <2>1. ASSUME NEW i \in 1 .. Len(t)
        PROVE  t[i].seq \in AnsweredIn(r) \ {Head(r).seq}
    <3>1. t[i] = r[i + 1] /\ i + 1 \in 1 .. Len(r) /\ 1 \in 1 .. Len(r) /\ i + 1 # 1
      BY <1>2
    <3>2. QED
      BY <1>2, <3>1 DEF OnceAnswered, AnsweredIn
  <2>2. ASSUME NEW i \in 1 .. Len(r), r[i].seq # Head(r).seq
        PROVE  r[i].seq \in AnsweredIn(t)
    <3>1. i # 1
      BY <1>2, <2>2
    <3>2. i - 1 \in 1 .. Len(t) /\ t[i - 1] = r[(i - 1) + 1] /\ (i - 1) + 1 = i
      BY <1>2, <3>1
    <3>3. QED
      BY <3>2 DEF AnsweredIn
  <2>3. QED
    BY <2>1, <2>2 DEF AnsweredIn
<1>6. QED
  BY <1>1, <1>3, <1>4, <1>5

-----------------------------------------------------------------------------

LEMMA NextOwnNumber ==
    ASSUME TypeOK, OwnNumber, [Next]_vars
    PROVE  OwnNumber'
<1> USE DEF TypeOK, OwnNumber, GoTo
<1>1. ASSUME NEW c \in Callers, generateSeqId(c)
      PROVE  OwnNumber'
  BY <1>1 DEF generateSeqId
<1>2. ASSUME NEW c \in Callers, CallerStep(c)
      PROVE  OwnNumber'
  <2>1. UNCHANGED <<seqid, nextseqid>>
    BY <1>2 DEF CallerStep, Send, LockRead, readMessageBegin, ReadFails, ReadBody, HandOver, WakeUp
  <2>2. at[c] # "idle"
    BY <1>2 DEF CallerStep, Send, LockRead, readMessageBegin, ReadFails, ReadBody, HandOver, WakeUp
  <2>3. \A d \in Callers \ {c} : at'[d] = at[d]
    BY <1>2 DEF CallerStep, Send, LockRead, readMessageBegin, ReadFails, ReadBody, HandOver,
                WakeUp, Fail
  <2>4. QED
    BY <2>1, <2>2, <2>3
<1>3. CASE Serve \/ Disconnect \/ UNCHANGED vars
  BY <1>3 DEF Serve, Disconnect, vars, syncVars, callerVars
<1>4. QED
  BY <1>1, <1>2, <1>3 DEF Next

LEMMA NextDeciding ==
    ASSUME TypeOK, Deciding, [Next]_vars
    PROVE  Deciding'
<1> USE SeqAssumption DEF TypeOK, Deciding, GoTo
<1>1. ASSUME NEW c \in Callers, readMessageBegin(c)
      PROVE  Deciding'
  <2>1. replies # <<>> => Head(replies) \in Replies
    OBVIOUS
  <2>2. header'[c] # None /\ \A d \in Callers \ {c} : header'[d] = header[d]
    BY <1>1, <2>1 DEF readMessageBegin, NextHeader
  <2>3. QED
    BY <1>1, <2>2 DEF readMessageBegin
<1>2. ASSUME NEW c \in Callers, CallerStep(c), ~readMessageBegin(c)
      PROVE  Deciding'
  <2>1. at'[c] # "decide"
    BY <1>2 DEF CallerStep, Send, LockRead, ReadFails, ReadBody, HandOver, WakeUp, Fail
  <2>2. \A d \in Callers \ {c} : at'[d] = at[d] /\ header'[d] = header[d]
    BY <1>2 DEF CallerStep, Send, LockRead, ReadFails, ReadBody, HandOver, WakeUp, Fail
  <2>3. QED
    BY <2>1, <2>2
<1>3. CASE Serve \/ Disconnect \/ UNCHANGED vars \/ \E c \in Callers : generateSeqId(c)
  BY <1>3 DEF Serve, Disconnect, vars, syncVars, callerVars, generateSeqId
<1>4. QED
  BY <1>1, <1>2, <1>3 DEF Next

-----------------------------------------------------------------------------
(* A step that leaves the client alive.                                    *)

Places == {"idle", "send", "lock", "read", "decide", "wait"}

\* Who holds a header is alone with it: nothing else is out.
LEMMA AloneOut ==
    ASSUME IInv, NEW c \in Callers, at[c] \in {"read", "decide"}
    PROVE  /\ \A d \in Callers \ {c} : header[d] = None
           /\ at[c] = "read" => header[c] = None
           /\ header[c] # None => pending = None
BY SeqAssumption DEF IInv, TypeOK, ReadersLock, HeaderHeld

LEMMA GenerateAlive ==
    ASSUME IInv, OwnNumber, Alive, NEW c \in Callers, generateSeqId(c)
    PROVE  Alive'
<1> DEFINE n == nextseqid
<1>1. n \in Seqs /\ n \notin monitors
  BY DEF generateSeqId, Alive, IInv, TypeOK, Seqs
<1>2. /\ UNCHANGED <<requests, replies, header, pending>>
      /\ nextseqid' = n + 1 /\ monitors' = monitors \cup {n}
      /\ seqid' = [seqid EXCEPT ![c] = n]
      /\ at' = [at EXCEPT ![c] = "send"]
  BY DEF generateSeqId, connVars, GoTo
<1>3. InFlight'
  BY <1>2 DEF Alive, InFlight
<1>4. ASSUME NEW d \in Callers, at'[d] = "send"
      PROVE  ToSend(d)'
  <2>1. CASE d = c
    <3>1. seqid'[d] = n
      BY <1>2, <2>1 DEF IInv, TypeOK
    <3>2. QED
      BY <1>1, <1>2, <3>1 DEF Alive, InFlight, ToSend
  <2>2. CASE d # c
    <3>1. at[d] = "send" /\ seqid'[d] = seqid[d]
      BY <1>2, <1>4, <2>2 DEF IInv, TypeOK
    <3>2. QED
      BY <1>2, <3>1 DEF Alive, ToSend
  <2>3. QED
    BY <2>1, <2>2
<1>5. \A m \in monitors' : m < nextseqid'
  BY <1>2 DEF Alive, IInv, TypeOK, Seqs
<1>6. QED
  BY <1>3, <1>4, <1>5 DEF Alive

LEMMA SendAlive ==
    ASSUME IInv, OwnNumber, Alive, NEW c \in Callers, Send(c), ~stop'
    PROVE  Alive'
<1> DEFINE n == seqid[c]
<1>1. /\ at[c] = "send" /\ requests' = Append(requests, n)
      /\ at' = [at EXCEPT ![c] = "lock"]
      /\ UNCHANGED <<monitors, replies, nextseqid, pending, seqid, header>>
  BY DEF Send, MarkBad, GoTo
<1>2. ToSend(c) /\ n \in Seqs /\ requests \in Seq(Seqs)
  BY <1>1 DEF Alive, IInv, TypeOK, Numbered
<1>3. Once(requests') /\ SentIn(requests') = SentIn(requests) \cup {n}
  BY <1>1, <1>2, AppendSent DEF Alive, InFlight, ToSend
<1>4. InFlight'
  BY <1>1, <1>2, <1>3 DEF Alive, InFlight, Disjoint, ToSend
<1>5. ASSUME NEW d \in Callers, at'[d] = "send"
      PROVE  ToSend(d)'
  <2>1. d # c /\ at[d] = "send"
    BY <1>1, <1>5 DEF IInv, TypeOK
  <2>2. seqid[d] # n
    BY <1>1, <2>1 DEF OwnNumber
  <2>3. QED
    BY <1>1, <1>3, <2>1, <2>2 DEF Alive, ToSend
<1>6. QED
  BY <1>1, <1>4, <1>5 DEF Alive

\* A step that neither sends nor gives out a number.
LEMMA QuietAlive ==
    ASSUME IInv, Alive, InFlight', UNCHANGED <<seqid, nextseqid>>,
           monitors' \subseteq monitors,
           \A c \in Callers : at'[c] = "send" =>
               at[c] = "send" /\ seqid[c] \in monitors',
           SentIn(requests') \cup AnsweredIn(replies') \cup OutIn(header', pending')
             \subseteq SentIn(requests) \cup AnsweredIn(replies) \cup OutIn(header, pending)
    PROVE  Alive'
<1>1. ASSUME NEW c \in Callers, at'[c] = "send"
      PROVE  ToSend(c)'
  BY <1>1 DEF Alive, ToSend
<1>2. QED
  BY <1>1 DEF Alive

LEMMA ReadAlive ==
    ASSUME IInv, Alive, NEW c \in Callers, readMessageBegin(c)
    PROVE  Alive'
<1>1. /\ at[c] = "read" /\ NextHeader(c)
      /\ at' = [at EXCEPT ![c] = "decide"]
      /\ UNCHANGED <<requests, nextseqid, monitors, seqid>>
  BY DEF readMessageBegin, GoTo
<1>2. \A d \in Callers : header[d] = None
  BY <1>1, AloneOut
<1>3. /\ header \in [Callers -> Replies \cup {None}] /\ at \in [Callers -> Places]
      /\ replies \in Seq(Replies) /\ pending \in Replies \cup {None}
  BY DEF IInv, TypeOK, Places
<1>4. CASE pending # None
  <2>1. header' = [header EXCEPT ![c] = pending] /\ pending' = None /\ replies' = replies
    BY <1>1, <1>4 DEF NextHeader
  <2>2. OutIn(header', pending') = OutIn(header, pending)
    BY <1>2, <1>3, <1>4, <2>1 DEF OutIn
  <2>3. InFlight'
    BY <1>1, <2>1, <2>2 DEF Alive, InFlight
  <2>4. QED
    BY <1>1, <1>3, <2>1, <2>2, <2>3, QuietAlive DEF Alive, ToSend
<1>5. CASE pending = None
  <2>1. /\ replies # <<>> /\ header' = [header EXCEPT ![c] = Head(replies)]
        /\ replies' = Tail(replies) /\ pending' = None
    BY <1>1, <1>5 DEF NextHeader
  <2>2. /\ OnceAnswered(replies')
        /\ AnsweredIn(replies') = AnsweredIn(replies) \ {Head(replies).seq}
        /\ Head(replies).seq \in AnsweredIn(replies)
    BY <1>3, <2>1, TailAnswered DEF Alive, InFlight
  <2>3. Head(replies) \in Replies
    BY <1>3, <2>1
  <2>4. OutIn(header', pending') = {Head(replies).seq}
    BY SeqAssumption, <1>2, <1>3, <2>1, <2>3 DEF OutIn, Replies
  <2>5. InFlight'
    BY <1>1, <2>2, <2>4 DEF Alive, InFlight, Disjoint
  <2>6. QED
    BY <1>1, <1>3, <2>2, <2>4, <2>5, QuietAlive DEF Alive, ToSend
<1>6. QED
  BY <1>4, <1>5

LEMMA BodyAlive ==
    ASSUME IInv, OwnNumber, Deciding, Alive, NEW c \in Callers, ReadBody(c), ~stop'
    PROVE  Alive'
<1>1. /\ at[c] = "decide" /\ header[c].seq = seqid[c]
      /\ monitors' = monitors \ {seqid[c]}
      /\ header' = [header EXCEPT ![c] = None]
      /\ at' = [at EXCEPT ![c] = "idle"]
      /\ UNCHANGED <<requests, replies, nextseqid, pending, seqid>>
  BY DEF ReadBody, Mine, Commit, Fail, MarkBad, GoTo, connVars
<1>2. header \in [Callers -> Replies \cup {None}] /\ at \in [Callers -> Places]
  BY DEF IInv, TypeOK, Places
<1>3. header[c] # None /\ pending = None /\ \A d \in Callers \ {c} : header[d] = None
  BY <1>1, AloneOut DEF Deciding
<1>4. OutIn(header', pending') = {}
  BY <1>1, <1>2, <1>3 DEF OutIn
<1>5. seqid[c] \in OutIn(header, pending)
  BY <1>1, <1>2, <1>3 DEF OutIn, Replies
<1>6. InFlight'
  BY <1>1, <1>4, <1>5 DEF Alive, InFlight, Disjoint
<1>7. \A d \in Callers : at'[d] = "send" => at[d] = "send" /\ seqid[d] \in monitors'
  <2>1. ASSUME NEW d \in Callers, at'[d] = "send"
        PROVE  at[d] = "send" /\ seqid[d] \in monitors'
    <3>1. d # c /\ at[d] = "send"
      BY <1>1, <1>2, <2>1
    <3>2. seqid[d] # seqid[c]
      BY <1>1, <3>1 DEF OwnNumber
    <3>3. QED
      BY <1>1, <3>1, <3>2 DEF Alive, ToSend
  <2>2. QED
    BY <2>1
<1>8. QED
  BY <1>1, <1>4, <1>6, <1>7, QuietAlive

LEMMA HandOverAlive ==
    ASSUME IInv, Deciding, Alive, NEW c \in Callers, HandOver(c), ~stop'
    PROVE  Alive'
<1>1. /\ at[c] = "decide"
      /\ pending' = header[c]
      /\ header' = [header EXCEPT ![c] = None]
      /\ at' = [at EXCEPT ![c] = "wait"]
      /\ UNCHANGED <<requests, replies, nextseqid, monitors, seqid>>
  BY DEF HandOver, UpdatePending, Fail, MarkBad, GoTo, connVars
<1>2. header \in [Callers -> Replies \cup {None}] /\ at \in [Callers -> Places]
  BY DEF IInv, TypeOK, Places
<1>3. header[c] # None /\ pending = None /\ \A d \in Callers \ {c} : header[d] = None
  BY <1>1, AloneOut DEF Deciding
<1>4. OutIn(header', pending') = OutIn(header, pending)
  BY <1>1, <1>2, <1>3 DEF OutIn
<1>5. InFlight'
  BY <1>1, <1>4 DEF Alive, InFlight
<1>6. QED
  BY <1>1, <1>2, <1>4, <1>5, QuietAlive DEF Alive, ToSend

LEMMA ServeAlive ==
    ASSUME IInv, Alive, Serve
    PROVE  Alive'
<1>1. /\ requests # <<>> /\ requests' = Tail(requests)
      /\ UNCHANGED <<header, pending, monitors, nextseqid, seqid, at>>
  BY DEF Serve, syncVars, callerVars
<1>2. PICK x : x.seq = Head(requests) /\ x \in Replies /\ replies' = Append(replies, x)
  <2>1. PICK b \in Bodies : replies' = Append(replies, [seq |-> Head(requests), body |-> b])
    BY DEF Serve
  <2>2. Head(requests) \in Seqs
    BY <1>1 DEF IInv, TypeOK
  <2>3. QED
    BY <2>1, <2>2 DEF Replies
<1>3. requests \in Seq(Seqs) /\ replies \in Seq(Replies)
  BY DEF IInv, TypeOK
<1>4. /\ Once(requests')
      /\ SentIn(requests') = SentIn(requests) \ {x.seq}
      /\ x.seq \in SentIn(requests)
  BY <1>1, <1>2, <1>3, TailSent DEF Alive, InFlight
<1>5. /\ OnceAnswered(replies')
      /\ AnsweredIn(replies') = AnsweredIn(replies) \cup {x.seq}
  BY <1>2, <1>3, <1>4, AppendAnswered DEF Alive, InFlight, Disjoint
<1>6. InFlight'
  BY <1>1, <1>4, <1>5 DEF Alive, InFlight, Disjoint
<1>7. QED
  BY <1>1, <1>4, <1>5, <1>6, QuietAlive DEF Alive, ToSend

LEMMA NextAlive ==
    ASSUME IInv, OwnNumber, Deciding, Alive, ~stop, ~stop', [Next]_vars
    PROVE  Alive'
<1>1. ASSUME NEW c \in Callers, LockRead(c) \/ WakeUp(c)
      PROVE  Alive'
  <2>1. /\ UNCHANGED <<requests, replies, header, pending, monitors, nextseqid, seqid>>
        /\ \A d \in Callers : at'[d] = "send" => at[d] = "send"
    BY <1>1 DEF LockRead, WakeUp, Fail, MarkBad, GoTo, connVars, IInv, TypeOK
  <2>2. InFlight'
    BY <2>1 DEF Alive, InFlight
  <2>3. QED
    BY <2>1, <2>2, QuietAlive DEF Alive, ToSend
<1>2. ASSUME NEW c \in Callers, ReadFails(c)
      PROVE  FALSE
  BY <1>2 DEF ReadFails, Fail, MarkBad
<1>3. CASE Disconnect \/ UNCHANGED vars
  <2>1. UNCHANGED <<requests, replies, header, pending, monitors, nextseqid, seqid, at>>
    BY <1>3 DEF Disconnect, vars, connVars, syncVars, callerVars
  <2>2. QED
    BY <2>1 DEF Alive, InFlight, ToSend
<1>4. QED
  BY <1>1, <1>2, <1>3, GenerateAlive, SendAlive, ReadAlive, BodyAlive, HandOverAlive,
     ServeAlive DEF Next, CallerStep

LEMMA StopStays ==
    ASSUME [Next]_vars, stop
    PROVE  stop'
BY DEF Next, CallerStep, generateSeqId, Send, LockRead, readMessageBegin, ReadFails, ReadBody,
       HandOver, WakeUp, Commit, Fail, MarkBad, Serve, Disconnect, vars, syncVars

LEMMA FlightInvariant == Spec => []FlightInv
<1>1. Init => FlightInv
  <2> SUFFICES ASSUME Init
               PROVE  FlightInv
    OBVIOUS
  <2>1. OwnNumber /\ Deciding
    BY DEF Init, OwnNumber, Deciding
  <2>2. SentIn(requests) = {} /\ AnsweredIn(replies) = {} /\ OutIn(header, pending) = {}
    BY DEF Init, SentIn, AnsweredIn, OutIn
  <2>3. Once(requests) /\ OnceAnswered(replies)
    BY DEF Init, Once, OnceAnswered
  <2>4. Alive
    BY <2>2, <2>3 DEF Init, Alive, InFlight, Disjoint
  <2>5. QED
    BY <2>1, <2>4 DEF FlightInv
<1>2. IInv /\ FlightInv /\ [Next]_vars => FlightInv'
  <2> SUFFICES ASSUME IInv, FlightInv, [Next]_vars
               PROVE  FlightInv'
    OBVIOUS
  <2>1. OwnNumber' /\ Deciding'
    BY NextOwnNumber, NextDeciding DEF IInv, FlightInv
  <2>2. ~stop' => Alive'
    BY NextAlive, StopStays DEF FlightInv
  <2>3. QED
    BY <2>1, <2>2 DEF FlightInv
<1>3. QED
  BY <1>1, <1>2, ClientInvariant, PTL DEF Spec

\* The client is declared dead only when the connection is, or when a reply
\* made no sense: a reply always finds the monitor of its call.
THEOREM DeadForAReasonHolds == Spec => DeadForAReason
<1> DEFINE Reason == stop' /\ ~stop =>
       ~connected \/ \E c \in Callers : header[c] # None /\ header[c].body = "unusable"
<1>1. IInv /\ FlightInv /\ [Next]_vars => [Reason]_vars
  <2> SUFFICES ASSUME IInv, FlightInv, [Next]_vars, stop', ~stop
               PROVE  ~connected \/ \E c \in Callers : header[c] # None
                                                         /\ header[c].body = "unusable"
    OBVIOUS
  <2>1. PICK c \in Callers : CallerStep(c)
    BY DEF Next, generateSeqId, Serve, Disconnect, vars, syncVars
  <2>2. CASE ReadBody(c)
    <3>1. header[c] # None /\ header[c] \in Replies \cup {None}
      BY <2>2 DEF ReadBody, FlightInv, Deciding, IInv, TypeOK
    <3>2. header[c].body \notin Committed
      BY <2>2 DEF ReadBody, Commit
    <3>3. QED
      BY <3>1, <3>2 DEF Committed, Replies, Bodies
  <2>3. CASE HandOver(c)
    <3>1. header[c] # None /\ header[c] \in Replies \cup {None}
      BY <2>3 DEF HandOver, FlightInv, Deciding, IInv, TypeOK
    <3>2. header[c].seq \in OutIn(header, pending)
      BY <3>1 DEF OutIn, Replies
    <3>3. header[c].seq \in monitors
      BY <3>2 DEF FlightInv, Alive, InFlight
    <3>4. QED
      BY <2>3, <3>3 DEF HandOver
  <2>4. CASE Send(c) \/ LockRead(c) \/ readMessageBegin(c) \/ ReadFails(c) \/ WakeUp(c)
    BY <2>4 DEF Send, LockRead, readMessageBegin, ReadFails, WakeUp
  <2>5. QED
    BY <2>1, <2>2, <2>3, <2>4 DEF CallerStep
<1>2. QED
  BY <1>1, ClientInvariant, FlightInvariant, PTL DEF Spec, DeadForAReason

=============================================================================
