-------------------------- MODULE ConcurrentClient ---------------------------
(***************************************************************************)
(* ConcreteEvaluatorConcurrentClient: threads that share one connection to *)
(* the server.  Each sends under the write mutex; each then takes the read *)
(* mutex and reads whatever reply comes next, which may be another's.  It  *)
(* reads only the header of such a reply, leaves it pending, wakes its     *)
(* owner, and waits until it is woken itself.                              *)
(*                                                                         *)
(* generateSeqId, the two sentries, getPending, updatePending, waitForWork *)
(* and the waking of another thread belong to Thrift's                     *)
(* TConcurrentClientSyncInfo; they are modelled as the calls, and the      *)
(* comments on them, in the generated client use them.                     *)
(***************************************************************************)
EXTENDS Integers, Sequences, FiniteSetsExt

CONSTANTS Callers,     \* the threads that share the client
          MaxSeq,      \* bound on the calls made
          None

Seqs == 1 .. MaxSeq

\* What a reply's body is for the caller: a result or an exception of the
\* server; or none of the two, from a server with another IDL.
Bodies == {"result", "exception", "unusable"}
Replies == [seq : Seqs, body : Bodies]

ASSUME SeqAssumption == MaxSeq \in Nat \ {0} /\ None \notin Callers \cup Replies

VARIABLES
    \* The connection.
    connected,  \* has the transport not failed?
    requests,   \* sequence numbers sent and not answered
    replies,    \* replies not read: [seq, body]
    \* TConcurrentClientSyncInfo.
    nextseqid,
    monitors,   \* the sequence numbers that have a monitor
    readMutex,  \* its owner, or None
    pending,    \* the reply whose header was read for another thread, or None
    wakeup,     \* wakeupSomeone_
    stop,       \* the client was declared dead
    \* The callers.
    at,         \* where a caller is
    seqid,      \* its sequence number
    header,     \* the reply whose header it holds, or None
    notified,   \* callers whose monitor was notified
    answer      \* the reply its last call ended with, None if it failed

connVars   == <<connected, requests, replies>>
syncVars   == <<nextseqid, monitors, readMutex, pending, wakeup, stop>>
callerVars == <<at, seqid, header, notified, answer>>
vars == <<connVars, syncVars, callerVars>>

Init ==
    /\ connected = TRUE
    /\ requests = <<>>
    /\ replies = <<>>
    /\ nextseqid = 1
    /\ monitors = {}
    /\ readMutex = None
    /\ pending = None
    /\ wakeup = FALSE
    /\ stop = FALSE
    /\ at = [c \in Callers |-> "idle"]
    /\ seqid = [c \in Callers |-> 0]
    /\ header = [c \in Callers |-> None]
    /\ notified = {}
    /\ answer = [c \in Callers |-> None]

GoTo(c, l) == at' = [at EXCEPT ![c] = l]
Owners(S) == {c \in Callers : at[c] # "idle" /\ seqid[c] \in S}

\* The destructor of a receive sentry: the call's monitor goes, and another
\* thread is woken if the call was committed (the one with the latest sequence
\* number); all are, to find the client dead, if it was not.
Commit(c) ==
    LET left == monitors \ {seqid[c]}
    IN  /\ monitors' = left
        /\ wakeup' = TRUE
        /\ notified' = notified \cup (IF left = {} THEN {} ELSE Owners({Max(left)}))
        /\ UNCHANGED stop
MarkBad(left) ==
    /\ monitors' = left
    /\ wakeup' = TRUE
    /\ stop' = TRUE
    /\ notified' = notified \cup Owners(left)

\* The call ends in an exception that leaves the client unusable.
Fail(c) ==
    /\ MarkBad(monitors \ {seqid[c]})
    /\ readMutex' = None
    /\ GoTo(c, "idle")
    /\ answer' = [answer EXCEPT ![c] = None]
    /\ header' = [header EXCEPT ![c] = None]

-----------------------------------------------------------------------------
(* send_.                                                                  *)

generateSeqId(c) ==
    /\ at[c] = "idle"
    /\ ~stop
    /\ nextseqid <= MaxSeq
    /\ nextseqid' = nextseqid + 1
    /\ monitors' = monitors \cup {nextseqid}
    /\ seqid' = [seqid EXCEPT ![c] = nextseqid]
    /\ notified' = notified \ {c}
    /\ GoTo(c, "send")
    /\ UNCHANGED <<connVars, readMutex, pending, wakeup, stop, header, answer>>

\* The message goes out under the write mutex, so in one piece, but not always
\* in the order of the sequence numbers.
Send(c) ==
    /\ at[c] = "send"
    /\ \/ /\ connected
          /\ requests' = Append(requests, seqid[c])
          /\ GoTo(c, "lock")
          /\ UNCHANGED <<monitors, wakeup, stop, notified, answer>>
       \/ /\ ~connected
          /\ MarkBad(monitors)
          /\ GoTo(c, "idle")
          /\ answer' = [answer EXCEPT ![c] = None]
          /\ UNCHANGED requests
    /\ UNCHANGED <<connected, replies, nextseqid, readMutex, pending, seqid, header>>

-----------------------------------------------------------------------------
(* recv_.                                                                  *)

\* The receive sentry takes the read mutex.
LockRead(c) ==
    /\ at[c] = "lock"
    /\ readMutex = None
    /\ readMutex' = c
    /\ GoTo(c, "read")
    /\ UNCHANGED <<connVars, nextseqid, monitors, pending, wakeup, stop, seqid, header,
                   notified, answer>>

\* The header of the reply some thread left pending, or else the next one on
\* the connection, for which the caller waits with the read mutex.
NextHeader_wire(c) ==
    /\ replies # <<>>
    /\ header' = [header EXCEPT ![c] = Head(replies)]
    /\ replies' = Tail(replies)
    /\ UNCHANGED pending
NextHeader(c) ==
    IF pending # None
    THEN /\ header' = [header EXCEPT ![c] = pending]
         /\ pending' = None
         /\ UNCHANGED replies
    ELSE /\ replies # <<>>
         /\ header' = [header EXCEPT ![c] = Head(replies)]
         /\ replies' = Tail(replies)
         /\ UNCHANGED pending

readMessageBegin(c) ==
    /\ at[c] = "read"
    /\ ~stop
    /\ NextHeader(c)
    /\ wakeup' = FALSE
    /\ GoTo(c, "decide")
    /\ UNCHANGED <<connected, requests, nextseqid, monitors, readMutex, stop, seqid,
                   notified, answer>>

\* getPending finds the client dead, or reading fails.
ReadFails(c) ==
    /\ at[c] = "read"
    /\ stop \/ (pending = None /\ replies = <<>> /\ ~connected)
    /\ Fail(c)
    /\ UNCHANGED <<connVars, nextseqid, pending, seqid>>

\* seqid == rseqid
Mine_any(c) == TRUE
Mine(c) == header[c].seq = seqid[c]

\* The bodies after which the code calls sentry.commit().
Committed_result == {"result"}
Committed == {"result", "exception"}

\* The reply is the caller's own: it reads the body and the call is over.
ReadBody(c) ==
    /\ at[c] = "decide"
    /\ Mine(c)
    /\ IF header[c].body \in Committed
       THEN /\ Commit(c)
            /\ readMutex' = None
            /\ answer' = [answer EXCEPT ![c] = header[c]]
            /\ header' = [header EXCEPT ![c] = None]
            /\ GoTo(c, "idle")
       ELSE Fail(c)
    /\ UNCHANGED <<connVars, nextseqid, pending, seqid>>

\* updatePending: leave the reply to its owner, and wake it.
UpdatePending_silent(c) ==
    /\ pending' = header[c]
    /\ UNCHANGED notified
UpdatePending(c) ==
    /\ pending' = header[c]
    /\ notified' = notified \cup Owners({header[c].seq})

\* The reply is another's: hand it over, and wait for work without the mutex.
\* It is an error if no call waits for it.
HandOver(c) ==
    /\ at[c] = "decide"
    /\ ~Mine(c)
    /\ IF header[c].seq \in monitors
       THEN /\ UpdatePending(c)
            /\ header' = [header EXCEPT ![c] = None]
            /\ readMutex' = None
            /\ GoTo(c, "wait")
            /\ UNCHANGED <<monitors, wakeup, stop, answer>>
       ELSE Fail(c) /\ UNCHANGED pending
    /\ UNCHANGED <<connVars, nextseqid, seqid>>

\* waitForWork returns, or throws, with the read mutex; or it waits on.
WakeUp(c) ==
    /\ at[c] = "wait"
    /\ c \in notified
    /\ readMutex = None
    /\ \/ /\ stop
          /\ Fail(c)
       \/ /\ ~stop
          /\ notified' = notified \ {c}
          /\ IF wakeup \/ (pending # None /\ pending.seq = seqid[c])
             THEN readMutex' = c /\ GoTo(c, "read")
             ELSE UNCHANGED <<readMutex, at>>
          /\ UNCHANGED <<monitors, wakeup, stop, header, answer>>
    /\ UNCHANGED <<connVars, nextseqid, pending, seqid>>

-----------------------------------------------------------------------------
(* The other end of the connection.                                        *)

\* The server answers in order, one request at a time.
Serve ==
    /\ connected
    /\ requests # <<>>
    /\ requests' = Tail(requests)
    /\ \E b \in Bodies : replies' = Append(replies, [seq |-> Head(requests), body |-> b])
    /\ UNCHANGED <<connected, syncVars, callerVars>>

Disconnect ==
    /\ connected
    /\ connected' = FALSE
    /\ UNCHANGED <<requests, replies, syncVars, callerVars>>

-----------------------------------------------------------------------------

CallerStep(c) ==
    \/ Send(c) \/ LockRead(c) \/ readMessageBegin(c) \/ ReadFails(c)
    \/ ReadBody(c) \/ HandOver(c) \/ WakeUp(c)
Next == (\E c \in Callers : generateSeqId(c) \/ CallerStep(c)) \/ Serve \/ Disconnect

Spec == Init /\ [][Next]_vars

\* Threads run, and the server answers.
Fairness ==
    /\ \A c \in Callers : WF_vars(CallerStep(c))
    /\ WF_vars(Serve)

FairSpec == Spec /\ Fairness

-----------------------------------------------------------------------------

TypeOK ==
    /\ connected \in BOOLEAN /\ wakeup \in BOOLEAN /\ stop \in BOOLEAN
    /\ requests \in Seq(Seqs)
    /\ replies \in Seq(Replies)
    /\ nextseqid \in 1 .. MaxSeq + 1
    /\ monitors \subseteq Seqs
    /\ readMutex \in Callers \cup {None}
    /\ pending \in Replies \cup {None}
    /\ at \in [Callers -> {"idle", "send", "lock", "read", "decide", "wait"}]
    /\ seqid \in [Callers -> 0 .. MaxSeq]
    /\ header \in [Callers -> Replies \cup {None}]
    /\ notified \subseteq Callers
    /\ answer \in [Callers -> Replies \cup {None}]

\* A call ends with the reply to its own request, whoever read the header and
\* in whatever order requests went out.
ReplyToOwner ==
    \A c \in Callers : at[c] = "idle" /\ answer[c] # None => answer[c].seq = seqid[c]

\* After a header has been read, nothing else is read from the connection until
\* its owner has read the body: one header at a time is out, in a caller's hands
\* or pending.
HeaderThenBody ==
    \A c \in Callers : header[c] # None =>
        pending = None /\ \A d \in Callers \ {c} : header[d] = None

\* An exception that the server reports does not cost the other threads their
\* client: it is declared dead only when the connection is, or when a reply
\* made no sense.
DeadForAReason == [][stop' /\ ~stop =>
    ~connected \/ \E c \in Callers : header[c] # None /\ header[c].body = "unusable"]_vars

\* Every call ends, although a thread may sleep while its reply arrives and
\* another may be woken for it.
CallEnds == \A c \in Callers : at[c] = "send" ~> at[c] = "idle"

=============================================================================
