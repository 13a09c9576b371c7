---------------------------- MODULE StructCodec ------------------------------
(***************************************************************************)
(* The structures of concolic.thrift on the wire: what the generated       *)
(* write functions put into a message, and the loop every generated read   *)
(* function runs over it, nested structures included.  A schema has one    *)
(* definition per generated structure; writer and reader are written once. *)
(*                                                                         *)
(* The reader runs against messages of a peer that may be newer (fields    *)
(* the schema does not know, anywhere), may order fields differently, or   *)
(* may go away in the middle of the message.  A message is written whole   *)
(* before it is flushed, so writing comes first.                           *)
(*                                                                         *)
(* The read and write functions of nested structures call one another; the *)
(* member that is being written or read is a path of fields from the       *)
(* message down.  A scalar or a container is a single value, sent in one   *)
(* token with the header of its field.                                     *)
(***************************************************************************)
EXTENDS Integers, SequencesExt

CONSTANTS Value,         \* the values of scalars and containers
          ForeignId,     \* field numbers in messages of another version
          ForeignType,   \* and the types of such fields
          MaxDeviations  \* how often a writer differs from this version's (a bound)

ASSUME BoundAssumption == MaxDeviations \in Nat

NoStruct == "none"

-----------------------------------------------------------------------------
(* Schemas.  "optional" fields are written if set, "default" ones always,  *)
(* and of a method's "result" fields the first one that is set.            *)

Scalar(id, name, type, need) ==
    [id |-> id, name |-> name, type |-> type, of |-> NoStruct, need |-> need]
Nested(id, name, of, need) ==
    [id |-> id, name |-> name, type |-> "struct", of |-> of, need |-> need]

OffsetOrSymbol == {Scalar(1, "offset", "i64", "optional"),
                   Scalar(2, "symbol", "string", "optional")}
RelAddr        == {Scalar(1, "modulename", "string", "default"),
                   Nested(2, "offset", "OffsetOrSymbol", "default")}
AbsOrRelAddr   == {Scalar(1, "absaddr", "i64", "optional"),
                   Nested(2, "reladdr", "RelAddr", "optional")}
Breakpoint     == {Nested(1, "addr", "AbsOrRelAddr", "default"),
                   Scalar(2, "count", "i64", "default")}
ModuleInfo     == {Nested(1, "addr", "RelAddr", "default"),
                   Scalar(2, "base", "i64", "default")}
CodeBlock      == {Scalar(1, "addr", "i64", "default"),
                   Scalar(2, "bytes", "string", "default"),
                   Nested(3, "moduleinfo", "ModuleInfo", "optional")}
Exception      == {Scalar(1, "msg", "string", "default")}

Throws == Nested(1, "exc", "Exception", "result")

addBreakpoint_args       == {Nested(1, "bp", "Breakpoint", "default")}
addBreakpoint_result     == {Throws}
delBreakpoint_args       == {Nested(1, "bp", "Breakpoint", "default")}
delBreakpoint_result     == {Throws}
getBreakpoints_args      == {}
getBreakpoints_result    == {Scalar(0, "success", "set", "result")}
executeUntilEvent_args   == {Scalar(1, "stopEvents", "set", "default")}
executeUntilEvent_result == {Scalar(0, "success", "i32", "result")}
getCodeBlock_args        == {}
getCodeBlock_result      == {Nested(0, "success", "CodeBlock", "result"), Throws}
getContext_args          == {}
getContext_result        == {Scalar(0, "success", "map", "result"), Throws}

Messages ==
    [addBreakpoint_args       |-> addBreakpoint_args,
     addBreakpoint_result     |-> addBreakpoint_result,
     delBreakpoint_args       |-> delBreakpoint_args,
     delBreakpoint_result     |-> delBreakpoint_result,
     getBreakpoints_args      |-> getBreakpoints_args,
     getBreakpoints_result    |-> getBreakpoints_result,
     executeUntilEvent_args   |-> executeUntilEvent_args,
     executeUntilEvent_result |-> executeUntilEvent_result,
     getCodeBlock_args        |-> getCodeBlock_args,
     getCodeBlock_result      |-> getCodeBlock_result,
     getContext_args          |-> getContext_args,
     getContext_result        |-> getContext_result]

Structs ==
    [OffsetOrSymbol |-> OffsetOrSymbol, RelAddr |-> RelAddr, AbsOrRelAddr |-> AbsOrRelAddr,
     Breakpoint |-> Breakpoint, ModuleInfo |-> ModuleInfo, CodeBlock |-> CodeBlock,
     Exception |-> Exception]

Schema(s) == IF s \in DOMAIN Structs THEN Structs[s] ELSE Messages[s]

-----------------------------------------------------------------------------

VARIABLES root,        \* the structure of the message
          sent,        \* the object that is written
          wire,        \* the tokens written so far
          path,        \* the structure that is being written
          written,     \* the members of sent that are written or begun
          foreign,     \* how deep in a field of another version the writer is
          deviations,  \* how many such fields, or fields out of order, it has begun
          pos,         \* the next token to read
          into,        \* the structure that is being read
          got,         \* the members read so far
          skipping,    \* how deep in a skipped structure the reader is
          status       \* "writing", "reading", "done" or "failed"

writer == <<wire, path, written, foreign, deviations>>
reader == <<pos, into, got, skipping>>
vars == <<root, sent, writer, reader, status>>

-----------------------------------------------------------------------------
(* Objects.  An object is a function on the members that are set, those of *)
(* the structures in it included; a member is a path from the root.        *)

Fields(p) ==
    IF p = <<>> THEN Schema(root)
    ELSE IF Last(p).of = NoStruct THEN {} ELSE Schema(Last(p).of)

Members(P) == UNION {{Append(p, f) : f \in Fields(p)} : p \in P}

\* No structure of the IDL is nested deeper than this.
Paths ==
    LET one   == Members({<<>>})
        two   == Members(one)
        three == Members(two)
        four  == Members(three)
        five  == Members(four)
    IN  one \cup two \cup three \cup four \cup five

\* The members D can be those that are set: a structure is set before what is in
\* it, "default" members are part of every object, and a method returns or throws.
CanBeSet(D) ==
    /\ \A p \in D : Front(p) \in D \cup {<<>>}
    /\ \A p \in D \cup {<<>>} : \A f \in Fields(p) :
          f.need = "default" => Append(p, f) \in D
    /\ \A f, g \in Fields(<<>>) :
          f # g /\ f.need = "result" => ~({<<f>>, <<g>>} \subseteq D)

\* The objects a program can give to write.
Objects ==
    UNION {{o \in [D -> Value \cup {"struct"}] :
               \A p \in D : o[p] \in IF Last(p).of = NoStruct THEN Value ELSE {"struct"}} :
           D \in {E \in SUBSET Paths : CanBeSet(E)}}

-----------------------------------------------------------------------------
(* Writing.                                                                *)

FieldBegin(id, type, value) == [tag |-> "field", id |-> id, type |-> type, value |-> value]
FieldStop == [tag |-> "stop"]

\* The members of path that write emits.
Emitted ==
    {f \in Fields(path) :
        /\ Append(path, f) \in DOMAIN sent
        /\ f.need = "result" =>
              \A g \in Fields(path) : g.id < f.id => Append(path, g) \notin DOMAIN sent}

\* The generated writers go through the fields by number; another peer's may not.
WritesNext(f) ==
    \/ /\ \A g \in Emitted : g.id < f.id => Append(path, g) \in written
       /\ UNCHANGED deviations
    \/ /\ \E g \in Emitted : g.id < f.id /\ Append(path, g) \notin written
       /\ deviations < MaxDeviations
       /\ deviations' = deviations + 1

\* A field, and the write function of the structure in it.
WriteField ==
    /\ status = "writing" /\ foreign = 0
    /\ \E f \in Emitted :
          LET member == Append(path, f)
          IN  /\ member \notin written
              /\ WritesNext(f)
              /\ wire' = Append(wire, FieldBegin(f.id, f.type, sent[member]))
              /\ written' = written \cup {member}
              /\ path' = IF f.of = NoStruct THEN path ELSE member
    /\ UNCHANGED <<root, sent, foreign, reader, status>>

\* The end of a structure; after that of the message it is flushed.
WriteStop ==
    /\ status = "writing" /\ foreign = 0
    /\ \A f \in Emitted : Append(path, f) \in written
    /\ wire' = Append(wire, FieldStop)
    /\ \/ path = <<>> /\ status' = "reading" /\ UNCHANGED path
       \/ path # <<>> /\ path' = Front(path) /\ UNCHANGED status
    /\ UNCHANGED <<root, sent, written, foreign, deviations, reader>>

\* switch (fid), and the comparison of ftype in each case.
Matches_untyped(f, token) == f.id = token.id
Matches(f, token) == f.id = token.id /\ f.type = token.type

\* One level more where a structure begins.
Deeper_flat(depth, token) == depth
Deeper(depth, token) == IF token.type = "struct" THEN depth + 1 ELSE depth

\* A field of another version of the IDL, where this one has none with its number
\* and type, or anything inside of such a field.
WriteForeign ==
    /\ status = "writing" /\ deviations < MaxDeviations
    /\ \E id \in ForeignId, type \in ForeignType, v \in Value :
          LET token == FieldBegin(id, type, v)
          IN  /\ foreign = 0 => \A f \in Fields(path) : f.id # id \/ f.type # type
              /\ wire' = Append(wire, token)
              /\ foreign' = IF type = "struct" THEN foreign + 1 ELSE foreign
    /\ deviations' = deviations + 1
    /\ UNCHANGED <<root, sent, path, written, reader, status>>

EndForeign ==
    /\ status = "writing" /\ foreign > 0
    /\ wire' = Append(wire, FieldStop)
    /\ foreign' = foreign - 1
    /\ UNCHANGED <<root, sent, path, written, deviations, reader, status>>

-----------------------------------------------------------------------------
(* Reading.                                                                *)

Arrives == status = "reading" /\ pos \in DOMAIN wire
AtField == Arrives /\ skipping = 0 /\ wire[pos].tag = "field"

\* The stream ends where a read function needs more: the transport throws.
TransportException ==
    /\ status = "reading"
    /\ status' = "failed"
    /\ UNCHANGED <<root, sent, writer, reader>>

\* The members of an object with m set to v.
Assign(o, m, v) == [x \in DOMAIN o \cup {m} |-> IF x = m THEN v ELSE o[x]]

\* A field of the schema that is no structure: its value is stored.
ReadScalar ==
    /\ AtField
    /\ \E f \in Fields(into) :
          /\ Matches(f, wire[pos])
          /\ f.of = NoStruct
          /\ got' = Assign(got, Append(into, f), wire[pos].value)
    /\ pos' = pos + 1
    /\ UNCHANGED <<root, sent, writer, into, skipping, status>>

\* A structure of the schema: its own read function runs on the member.
ReadNested ==
    /\ AtField
    /\ \E f \in Fields(into) :
          /\ Matches(f, wire[pos])
          /\ f.of # NoStruct
          /\ into' = Append(into, f)
    /\ pos' = pos + 1
    /\ UNCHANGED <<root, sent, writer, got, skipping, status>>

\* The fields that are skipped: other numbers, and other types.
Foreign_other_number == \A f \in Fields(into) : f.id # wire[pos].id
Foreign == \A f \in Fields(into) : ~Matches(f, wire[pos])

SkipField ==
    /\ AtField
    /\ Foreign
    /\ skipping' = IF wire[pos].type = "struct" THEN 1 ELSE 0
    /\ pos' = pos + 1
    /\ UNCHANGED <<root, sent, writer, into, got, status>>

\* Inside skip(T_STRUCT): everything up to the stop of the structure.
Skip ==
    /\ Arrives /\ skipping > 0
    /\ skipping' = IF wire[pos].tag = "stop" THEN skipping - 1 ELSE Deeper(skipping, wire[pos])
    /\ pos' = pos + 1
    /\ UNCHANGED <<root, sent, writer, into, got, status>>

\* T_STOP: the structure is complete, and set in the one around it.
ReadStop ==
    /\ Arrives /\ skipping = 0
    /\ wire[pos].tag = "stop"
    /\ pos' = pos + 1
    /\ \/ into = <<>> /\ status' = "done" /\ UNCHANGED <<into, got>>
       \/ /\ into # <<>>
          /\ into' = Front(into)
          /\ got' = Assign(got, into, "struct")
          /\ UNCHANGED status
    /\ UNCHANGED <<root, sent, writer, skipping>>

-----------------------------------------------------------------------------

Init ==
    /\ root \in DOMAIN Messages
    /\ sent \in Objects
    /\ wire = <<>> /\ path = <<>> /\ written = {} /\ foreign = 0 /\ deviations = 0
    /\ pos = 1 /\ into = <<>> /\ got = [p \in {} |-> 0] /\ skipping = 0
    /\ status = "writing"

WriteStep == WriteField \/ WriteStop \/ WriteForeign \/ EndForeign
ReadStep == ReadScalar \/ ReadNested \/ SkipField \/ Skip \/ ReadStop

Next == WriteStep \/ ReadStep \/ TransportException

\* A write function goes on to its end, and so does a read function while the
\* connection lasts.
Spec == Init /\ [][Next]_vars /\ WF_vars(WriteStep) /\ WF_vars(ReadStep)

-----------------------------------------------------------------------------

\* What a read function returns is what the write function was given, member for
\* member and set for set, at every depth: through any order of the fields, and
\* untouched by fields of the same number but another type.
RoundTrip == status = "done" => got = sent

\* A read function that returns has consumed its whole message and nothing
\* else, so the next message on the connection starts where it should; until
\* then it never asks for more than its message has.
Framing ==
    /\ status = "done" => pos = Len(wire) + 1
    /\ status = "reading" => pos <= Len(wire)

\* Reading ends, with the message or with an exception.
ReadEnds == <>(status \in {"done", "failed"})

=============================================================================
