-------------------------- MODULE StructCodecProofs --------------------------
(***************************************************************************)
(* Proofs that a message is read as it was written, for any values, any    *)
(* number of fields of another version, whatever they hold, and any order  *)
(* of the fields.                                                          *)
(***************************************************************************)
EXTENDS StructCodec, TLAPS, SequenceTheorems, WellFoundedInduction

-----------------------------------------------------------------------------
(* The schemas.                                                            *)

Structures == DOMAIN Structs \cup DOMAIN Messages
Field == UNION {Schema(s) : s \in Structures}

USE DEF NoStruct

\* In a structure a number belongs to one field, and fields that hold a structure
\* are those that are sent with its type.
GoodSchema(S) ==
    \A f \in S :
        /\ f.of \in DOMAIN Structs \cup {NoStruct}
        /\ f.type = "struct" <=> f.of # NoStruct
        /\ \A g \in S : f.id = g.id => f = g

LEMMA SchemaStruct == \A s \in DOMAIN Structs : GoodSchema(Structs[s])
BY DEF Structs, GoodSchema, Scalar, Nested, OffsetOrSymbol, RelAddr, AbsOrRelAddr,
       Breakpoint, ModuleInfo, CodeBlock, Exception

LEMMA SchemaMessage == \A s \in DOMAIN Messages : GoodSchema(Messages[s])
BY DEF Messages, Structs, GoodSchema, Scalar, Nested, Throws,
       addBreakpoint_args, addBreakpoint_result, delBreakpoint_args, delBreakpoint_result,
       getBreakpoints_args, getBreakpoints_result, executeUntilEvent_args,
       executeUntilEvent_result, getCodeBlock_args, getCodeBlock_result,
       getContext_args, getContext_result

LEMMA SchemaGood == \A s \in Structures : GoodSchema(Schema(s))
BY SchemaStruct, SchemaMessage DEF Structures, Schema

LEMMA SchemaIds == \A s \in DOMAIN Messages : \A f \in Schema(s) : f.id \in Int
BY DEF Messages, Structs, Schema, Scalar, Nested, Throws,
       addBreakpoint_args, addBreakpoint_result, delBreakpoint_args, delBreakpoint_result,
       getBreakpoints_args, getBreakpoints_result, executeUntilEvent_args,
       executeUntilEvent_result, getCodeBlock_args, getCodeBlock_result,
       getContext_args, getContext_result

LEMMA NoInnerResult == \A s \in DOMAIN Structs : \A f \in Structs[s] : f.need # "result"
BY DEF Structs, Scalar, Nested, OffsetOrSymbol, RelAddr, AbsOrRelAddr,
       Breakpoint, ModuleInfo, CodeBlock, Exception

-----------------------------------------------------------------------------
(* Members and objects.                                                    *)

Path == Seq(Field)

LEMMA AppendPath ==
    ASSUME NEW p \in Path, NEW f \in Field
    PROVE  /\ Append(p, f) \in Path
           /\ Append(p, f) # <<>> /\ Append(p, f) # p
           /\ Front(Append(p, f)) = p
           /\ Last(Append(p, f)) = f
<1> DEFINE q == Append(p, f)
<1>1. q \in Path /\ Len(q) = Len(p) + 1 /\ Len(p) \in Nat
  BY DEF Path
<1>2. q[Len(q)] = f /\ q # <<>> /\ q # p
  BY <1>1 DEF Path
<1>3. \A i \in 1 .. Len(p) : q[i] = p[i]
  BY DEF Path
<1>4. SubSeq(q, 1, Len(q) - 1) = p
  <2>1. /\ SubSeq(q, 1, Len(p)) \in Seq(Field)
        /\ Len(SubSeq(q, 1, Len(p))) = Len(p)
        /\ \A i \in 1 .. Len(p) : SubSeq(q, 1, Len(p))[i] = q[i]
    BY <1>1 DEF Path
  <2>2. QED
    BY <1>1, <1>3, <2>1, SeqEqual DEF Path
<1>5. QED
  BY <1>1, <1>2, <1>4 DEF Front, Last

LEMMA FrontPath ==
    ASSUME NEW p \in Path, p # <<>>
    PROVE  /\ Front(p) \in Path
           /\ Last(p) \in Field
           /\ p = Append(Front(p), Last(p))
BY DEF Path, Front, Last

LEMMA FieldsGood ==
    ASSUME root \in DOMAIN Messages, NEW p \in Path
    PROVE  Fields(p) \subseteq Field /\ GoodSchema(Fields(p))
<1>1. CASE p = <<>>
  BY <1>1, SchemaGood DEF Fields, Field, Structures
<1>2. CASE p # <<>> /\ Last(p).of = NoStruct
  BY <1>2 DEF Fields, GoodSchema
<1>3. CASE p # <<>> /\ Last(p).of # NoStruct
  <2>1. PICK s \in Structures : Last(p) \in Schema(s)
    BY <1>3, FrontPath DEF Field
  <2>2. Last(p).of \in DOMAIN Structs
    BY <1>3, <2>1, SchemaGood DEF GoodSchema
  <2>3. Fields(p) = Schema(Last(p).of)
    BY <1>3 DEF Fields
  <2>4. Last(p).of \in Structures
    BY <2>2 DEF Structures
  <2>5. QED
    BY <2>3, <2>4, SchemaGood DEF Field
<1>4. QED
  BY <1>1, <1>2, <1>3

LEMMA NoNestedResult ==
    ASSUME NEW p \in Path, p # <<>>, NEW f \in Fields(p)
    PROVE  f.need # "result"
<1>1. Last(p).of # NoStruct /\ f \in Schema(Last(p).of)
  BY DEF Fields
<1>2. PICK s \in Structures : Last(p) \in Schema(s)
  BY FrontPath DEF Field
<1>3. Last(p).of \in DOMAIN Structs
  BY <1>1, <1>2, SchemaGood DEF GoodSchema
<1>4. QED
  BY <1>1, <1>3, NoInnerResult DEF Schema

\* What the proofs use of the object that is written.
Placed(D) == \A p \in D :
    p \in Path /\ p # <<>> /\ Last(p) \in Fields(Front(p))

Object ==
    /\ root \in DOMAIN Messages
    /\ sent = [p \in DOMAIN sent |-> sent[p]]
    /\ Placed(DOMAIN sent)
    /\ CanBeSet(DOMAIN sent)
    /\ \A p \in DOMAIN sent : sent[p] \in Value \cup {"struct"}
    /\ \A p \in DOMAIN sent : Last(p).of # NoStruct => sent[p] = "struct"

LEMMA MembersPath ==
    ASSUME root \in DOMAIN Messages, NEW P, P \subseteq Path
    PROVE  Members(P) \subseteq Path /\ Placed(Members(P))
<1>1. ASSUME NEW q \in Members(P)
      PROVE  q \in Path /\ q # <<>> /\ Last(q) \in Fields(Front(q))
  <2>1. PICK p \in P : \E f \in Fields(p) : q = Append(p, f)
    BY DEF Members
  <2>2. PICK f \in Fields(p) : q = Append(p, f)
    BY <2>1
  <2>3. p \in Path /\ f \in Field
    BY FieldsGood
  <2>4. QED
    BY <2>2, <2>3, AppendPath
<1>2. QED
  BY <1>1 DEF Placed

LEMMA InitObject == Init => Object
<1> SUFFICES ASSUME Init PROVE Object
  OBVIOUS
<1>1. root \in DOMAIN Messages
  BY DEF Init
<1>2. Placed(Paths)
  <2> DEFINE one   == Members({<<>>})
             two   == Members(one)
             three == Members(two)
             four  == Members(three)
             five  == Members(four)
  <2>1. one \subseteq Path /\ Placed(one)
    <3>1. {<<>>} \subseteq Path
      BY DEF Path
    <3>2. QED
      BY <1>1, <3>1, MembersPath
  <2>2. two \subseteq Path /\ Placed(two)
    BY <1>1, <2>1, MembersPath
  <2>3. three \subseteq Path /\ Placed(three)
    BY <1>1, <2>2, MembersPath
  <2>4. four \subseteq Path /\ Placed(four)
    BY <1>1, <2>3, MembersPath
  <2>5. five \subseteq Path /\ Placed(five)
    BY <1>1, <2>4, MembersPath
  <2> HIDE DEF one, two, three, four, five
  <2>6. Paths = one \cup two \cup three \cup four \cup five
    BY DEF Paths, one, two, three, four, five
  <2>7. QED
    BY <2>1, <2>2, <2>3, <2>4, <2>5, <2>6 DEF Placed
<1>3. PICK D \in SUBSET Paths :
        /\ CanBeSet(D)
        /\ sent \in [D -> Value \cup {"struct"}]
        /\ \A p \in D : sent[p] \in IF Last(p).of = NoStruct THEN Value ELSE {"struct"}
  BY DEF Init, Objects
<1>4. DOMAIN sent = D
  BY <1>3
<1>5. sent = [p \in DOMAIN sent |-> sent[p]]
  BY <1>3
<1>6. QED
  BY <1>1, <1>2, <1>3, <1>4, <1>5 DEF Object, Placed

-----------------------------------------------------------------------------
(* The structures that are open where a member is written or read.         *)

Open(p) == {x \in Path : Len(x) <= Len(p) /\ \A i \in 1 .. Len(x) : x[i] = p[i]}

LEMMA OpenRoot == Open(<<>>) = {<<>>}
<1>1. <<>> \in Path /\ Len(<<>>) = 0
  BY DEF Path
<1>2. ASSUME NEW x \in Path, Len(x) <= 0
      PROVE  x = <<>>
  BY <1>2 DEF Path
<1>3. QED
  BY <1>1, <1>2 DEF Open

LEMMA OpenAppend ==
    ASSUME NEW p \in Path, NEW f \in Field
    PROVE  /\ Open(Append(p, f)) = Open(p) \cup {Append(p, f)}
           /\ Append(p, f) \notin Open(p)
<1> DEFINE q == Append(p, f)
<1>1. q \in Path /\ Len(q) = Len(p) + 1 /\ Len(p) \in Nat
  BY DEF Path
<1>2. \A i \in 1 .. Len(p) : q[i] = p[i]
  BY DEF Path
<1> HIDE DEF q
<1>3. ASSUME NEW x \in Path, Len(x) = Len(q), \A i \in 1 .. Len(x) : x[i] = q[i]
      PROVE  x = q
  BY <1>1, <1>3, SeqEqual DEF Path
<1>4. \A x \in Path : Len(x) \in Nat
  BY DEF Path
<1>5. \A x \in Open(p) : x \in Open(q)
  BY <1>1, <1>2, <1>4 DEF Open
<1>6. q \in Open(q)
  BY <1>1 DEF Open
<1>7. \A x \in Open(q) : x = q \/ x \in Open(p)
  BY <1>1, <1>2, <1>3, <1>4 DEF Open
<1>8. q \notin Open(p)
  BY <1>1 DEF Open
<1>9. QED
  BY <1>5, <1>6, <1>7, <1>8 DEF q

LEMMA OpenFront ==
    ASSUME NEW p \in Path, p # <<>>
    PROVE  Open(p) = Open(Front(p)) \cup {p} /\ p \notin Open(Front(p))
<1>1. Front(p) \in Path /\ Last(p) \in Field /\ p = Append(Front(p), Last(p))
  BY FrontPath
<1> DEFINE q == Front(p)
           f == Last(p)
<1> HIDE DEF q, f
<1>2. Open(Append(q, f)) = Open(q) \cup {Append(q, f)} /\ Append(q, f) \notin Open(q)
  BY <1>1, OpenAppend DEF q, f
<1>3. QED
  BY <1>1, <1>2 DEF q, f

-----------------------------------------------------------------------------
(* The writer, from token to token.                                        *)

Here == [path |-> path, written |-> written, foreign |-> foreign]
Start == [path |-> <<>>, written |-> {}, foreign |-> 0]

\* Where a writer can be in the object.
Inside(a) ==
    /\ a.path \in Path
    /\ a.path \in a.written \cup {<<>>}
    /\ a.path # <<>> => Last(a.path).of # NoStruct
    /\ a.written \subseteq DOMAIN sent
    /\ \A p \in a.written : Front(p) \in a.written \cup {<<>>}
    /\ a.foreign \in Nat

\* The token that takes a writer from a to b.
EmitsField(a, token, b) ==
    /\ a.foreign = 0
    /\ \E f \in Fields(a.path) :
          LET member == Append(a.path, f)
          IN  /\ member \in DOMAIN sent
              /\ member \notin a.written
              /\ token = FieldBegin(f.id, f.type, sent[member])
              /\ b = [path    |-> IF f.of = NoStruct THEN a.path ELSE member,
                      written |-> a.written \cup {member},
                      foreign |-> 0]

EmitsStop(a, token, b) ==
    /\ a.foreign = 0
    /\ token = FieldStop
    /\ b = [path    |-> IF a.path = <<>> THEN <<>> ELSE Front(a.path),
            written |-> a.written,
            foreign |-> 0]

EmitsForeign(a, token, b) ==
    \/ /\ token.tag = "field"
       /\ a.foreign = 0 => \A f \in Fields(a.path) : ~Matches(f, token)
       /\ b = [path |-> a.path, written |-> a.written,
               foreign |-> IF token.type = "struct" THEN a.foreign + 1 ELSE a.foreign]
    \/ /\ a.foreign > 0
       /\ token = FieldStop
       /\ b = [path |-> a.path, written |-> a.written, foreign |-> a.foreign - 1]

Emits(a, token, b) ==
    EmitsField(a, token, b) \/ EmitsStop(a, token, b) \/ EmitsForeign(a, token, b)

\* The stop that ends the message.
Ends(a, token) == a.path = <<>> /\ a.foreign = 0 /\ token = FieldStop

\* Every member still to be written is in a structure that is open, or in one that
\* is still to be written.
Ahead ==
    \A q \in DOMAIN sent \ written :
        Front(q) \in Open(path) \/ Front(q) \in DOMAIN sent \ written

Token ==
    [tag : {"field"}, id : {f.id : f \in Field} \cup ForeignId,
     type : {f.type : f \in Field} \cup ForeignType, value : Value \cup {"struct"}]
      \cup {FieldStop}

Writing ==
    /\ Object
    /\ wire \in Seq(Token)
    /\ Inside(Here)
    /\ Ahead
    /\ status # "writing" => Here = [path |-> <<>>, written |-> DOMAIN sent, foreign |-> 0]

\* t is where the writer was before each token, and where it is.
Trace(t) ==
    /\ t[1] = Start
    /\ t[Len(wire) + 1] = Here
    /\ \A i \in 1 .. Len(wire) + 1 : Inside(t[i])
    /\ \A i \in 1 .. Len(wire) : Emits(t[i], wire[i], t[i + 1])
    /\ \A i \in 1 .. Len(wire) : Ends(t[i], wire[i]) <=> status # "writing" /\ i = Len(wire)

\* The reader is in the structure, and as deep in a foreign field, as the writer
\* was before the token it reads next, and has got what was complete by then.
Follows(t) ==
    /\ status \in {"writing", "reading", "done", "failed"}
    /\ status = "writing" => pos = 1
    /\ status = "reading" => pos \in 1 .. Len(wire)
    /\ status \in {"writing", "reading"} =>
          /\ into = t[pos].path
          /\ skipping = t[pos].foreign
          /\ got = [p \in t[pos].written \ Open(t[pos].path) |-> sent[p]]
    /\ status = "done" => pos = Len(wire) + 1 /\ got = sent

IInv == Writing /\ \E t : Trace(t) /\ Follows(t)

-----------------------------------------------------------------------------

LEMMA InitIInv == Init => IInv
<1> SUFFICES ASSUME Init PROVE IInv
  OBVIOUS
<1>1. Object
  BY InitObject
<1>2. <<>> \in Path /\ wire \in Seq(Token) /\ Len(wire) = 0
  BY DEF Path, Init
<1>3. Inside(Here) /\ Here = Start
  BY <1>2 DEF Inside, Here, Start, Init
<1>4. Ahead
  BY <1>1, OpenRoot DEF Ahead, Init, Object, CanBeSet
<1>5. Writing
  BY <1>1, <1>2, <1>3, <1>4 DEF Writing, Init
<1> DEFINE t == [i \in {1} |-> Here]
<1>6. Trace(t)
  BY <1>2, <1>3 DEF Trace
<1>7. Follows(t)
  BY <1>2 DEF Follows, Init, Here
<1>8. QED
  BY <1>5, <1>6, <1>7 DEF IInv

LEMMA ObjectStays ==
    ASSUME UNCHANGED <<root, sent>>
    PROVE  Object => Object'
BY DEF Object, Placed, CanBeSet, Fields

LEMMA EmitsStays ==
    ASSUME UNCHANGED <<root, sent>>, NEW a, NEW token, NEW b
    PROVE  /\ Emits(a, token, b) => Emits(a, token, b)'
           /\ Inside(a) => Inside(a)'
BY DEF Emits, EmitsField, EmitsStop, EmitsForeign, Fields, Inside

\* One more token.
LEMMA TraceGrows ==
    ASSUME Writing, NEW t, Trace(t), Follows(t), NEW token, wire' = Append(wire, token),
           status = "writing", status' \in {"writing", "reading"},
           Ends(Here, token) <=> status' # "writing",
           UNCHANGED <<root, sent, reader>>, Inside(Here)', Emits(Here, token, Here')
    PROVE  \E u : Trace(u)' /\ Follows(u)'
<1>1. PICK n : n = Len(wire)
  OBVIOUS
<1>2. PICK h : h = Here'
  OBVIOUS
<1> DEFINE u == [i \in 1 .. n + 2 |-> IF i = n + 2 THEN h ELSE t[i]]
<1>3. n \in Nat /\ Len(wire') = n + 1 /\ wire'[n + 1] = token
        /\ \A i \in 1 .. n : wire'[i] = wire[i]
  BY <1>1 DEF Writing
<1>4. u[n + 2] = h /\ \A i \in 1 .. n + 1 : u[i] = t[i]
  BY <1>3
<1> HIDE DEF u
<1>5. u[1] = Start /\ u[n + 1] = Here
  BY <1>1, <1>3, <1>4 DEF Trace
<1>6. \A i \in 1 .. n + 2 : Inside(u[i])'
  <2>1. Inside(h)'
    BY <1>2 DEF Inside
  <2>2. \A i \in 1 .. n + 1 : Inside(t[i])
    BY <1>1 DEF Trace
  <2>3. \A i \in 1 .. n + 1 : Inside(t[i])'
    BY <2>2, EmitsStays
  <2>4. QED
    BY <1>3, <1>4, <2>1, <2>3
<1>7. \A i \in 1 .. n + 1 : Emits(u[i], wire[i], u[i + 1])'
  <2>1. \A i \in 1 .. n : Emits(t[i], wire[i], t[i + 1])
    BY <1>1 DEF Trace
  <2>2. ASSUME NEW i \in 1 .. n + 1
        PROVE  Emits(u[i], wire'[i], u[i + 1])
    BY <1>2, <1>3, <1>4, <1>5, <2>1
  <2>3. ASSUME NEW i \in 1 .. n + 1
        PROVE  Emits(u[i], wire[i], u[i + 1])'
    <3>1. PICK tok : tok = wire'[i]
      OBVIOUS
    <3>2. Emits(u[i], tok, u[i + 1])'
      BY <2>2, <3>1, EmitsStays
    <3>3. QED
      BY <3>1, <3>2
  <2>4. QED
    BY <2>3
<1>8. \A i \in 1 .. n + 1 : Ends(u[i], wire'[i]) <=> status' # "writing" /\ i = n + 1
  <2>1. \A i \in 1 .. n : ~Ends(t[i], wire[i])
    BY <1>1 DEF Trace
  <2>2. QED
    BY <1>3, <1>4, <1>5, <2>1
<1>9. Trace(u)'
  BY <1>2, <1>3, <1>4, <1>5, <1>6, <1>7, <1>8 DEF Trace, Ends
<1>10. Follows(u)'
  BY <1>3, <1>4 DEF Follows, reader
<1>11. QED
  BY <1>9, <1>10

-----------------------------------------------------------------------------
(* The writer's steps.                                                     *)

\* write emits every member that is set: a result has only one.
LEMMA EmittedAll ==
    ASSUME Object, path \in Path, NEW f \in Fields(path), Append(path, f) \in DOMAIN sent
    PROVE  f \in Emitted
<1>1. CASE path = <<>>
  <2>1. ASSUME f.need = "result", NEW g \in Fields(path), g.id < f.id,
               Append(path, g) \in DOMAIN sent
        PROVE  FALSE
    <3>1. f.id = g.id => f = g
      BY FieldsGood DEF Object, GoodSchema
    <3>2. Append(path, f) = <<f>> /\ Append(path, g) = <<g>>
      BY <1>1
    <3>3. f # g
      <4>1. f.id \in Int
        BY <1>1, SchemaIds DEF Fields, Object
      <4>2. QED
        BY <2>1, <4>1
    <3>4. QED
      BY <1>1, <2>1, <3>2, <3>3 DEF Object, CanBeSet
  <2>2. QED
    BY <2>1 DEF Emitted
<1>2. CASE path # <<>>
  BY <1>2, NoNestedResult DEF Emitted
<1>3. QED
  BY <1>1, <1>2

\* A member in a structure that is open and written out is written.
LEMMA NothingLeft ==
    ASSUME Writing, \A f \in Emitted : Append(path, f) \in written,
           NEW q \in DOMAIN sent, Front(q) = path
    PROVE  q \in written
<1>1. q \in Path /\ q # <<>> /\ Last(q) \in Fields(path)
  BY DEF Writing, Object, Placed
<1>2. q = Append(path, Last(q))
  BY <1>1, FrontPath
<1>3. Last(q) \in Emitted
  BY <1>1, <1>2, EmittedAll DEF Writing, Inside, Here
<1>4. QED
  BY <1>2, <1>3

LEMMA WriteFieldIInv ==
    ASSUME Writing, NEW t, Trace(t), Follows(t), WriteField
    PROVE  IInv'
<1>1. PICK f \in Emitted :
        /\ Append(path, f) \notin written
        /\ wire' = Append(wire, FieldBegin(f.id, f.type, sent[Append(path, f)]))
        /\ written' = written \cup {Append(path, f)}
        /\ path' = IF f.of = NoStruct THEN path ELSE Append(path, f)
  BY DEF WriteField
<1>2. /\ status = "writing" /\ foreign = 0
      /\ UNCHANGED <<root, sent, foreign, reader, status>>
  BY DEF WriteField
<1> DEFINE m == Append(path, f)
           token == FieldBegin(f.id, f.type, sent[m])
<1>3. /\ f \in Fields(path) /\ m \in DOMAIN sent
      /\ path \in Path /\ f \in Field /\ m \in Path
      /\ m # <<>> /\ Front(m) = path /\ Last(m) = f
  <2>1. f \in Fields(path) /\ m \in DOMAIN sent /\ path \in Path
    BY DEF Emitted, Writing, Inside, Here
  <2>2. f \in Field
    BY <2>1, FieldsGood DEF Writing, Object
  <2>3. QED
    BY <2>1, <2>2, AppendPath
<1>4. sent[m] \in Value \cup {"struct"}
  BY <1>3 DEF Writing, Object
<1> HIDE DEF m
<1>5. token \in Token /\ token # FieldStop
  BY <1>3, <1>4 DEF Token, FieldBegin, FieldStop
<1>6. wire' \in Seq(Token)
  BY <1>1, <1>5 DEF m, Writing
<1>7. Inside(Here)'
  BY <1>1, <1>2, <1>3 DEF Inside, Here, Writing, m
<1>8. Ahead'
  <2> SUFFICES ASSUME NEW q \in DOMAIN sent, q \notin written, q # m,
                      Front(q) \notin DOMAIN sent \ (written \cup {m})
               PROVE  Front(q) \in Open(path')
    BY <1>1, <1>2 DEF Ahead, m
  <2>1. Open(path) \subseteq Open(path') /\ (f.of # NoStruct => m \in Open(path'))
    <3>1. Open(m) = Open(path) \cup {m}
      BY <1>3, OpenAppend DEF m
    <3>2. CASE f.of = NoStruct
      BY <1>1, <3>2
    <3>3. CASE f.of # NoStruct
      BY <1>1, <3>1, <3>3 DEF m
    <3>4. QED
      BY <3>2, <3>3
  <2>2. Front(q) = m => f.of # NoStruct
    BY <1>3 DEF Writing, Object, Placed, Fields
  <2>3. Front(q) \in Open(path) \/ Front(q) = m
    BY DEF Writing, Ahead
  <2>4. QED
    BY <2>1, <2>2, <2>3
<1>9. Writing'
  BY <1>2, <1>6, <1>7, <1>8, ObjectStays DEF Writing
<1>10. Emits(Here, token, Here')
  BY <1>1, <1>2, <1>3 DEF Emits, EmitsField, Here, m
<1>11. ~Ends(Here, token)
  BY <1>5 DEF Ends
<1>12. \E u : Trace(u)' /\ Follows(u)'
  BY <1>1, <1>2, <1>7, <1>10, <1>11, TraceGrows DEF m
<1>13. QED
  BY <1>9, <1>12 DEF IInv

\* Nothing is left to write where the message ends.
LEMMA AllWritten ==
    ASSUME Writing, path = <<>>, \A f \in Emitted : Append(path, f) \in written
    PROVE  written = DOMAIN sent
<1> SUFFICES ASSUME DOMAIN sent \ written # {} PROVE FALSE
  BY DEF Writing, Inside, Here
<1> DEFINE Left == DOMAIN sent \ written
           Lengths == {Len(q) : q \in Left}
           Less == OpToRel(<, Nat)
<1>1. \A q \in Left : q \in Path /\ q # <<>> /\ Len(q) \in Nat
  BY DEF Writing, Object, Placed, Path
<1>2. PICK n \in Lengths : \A k \in Lengths : <<k, n>> \notin Less
  <2>1. Lengths \subseteq Nat /\ Lengths # {}
    BY <1>1
  <2>2. IsWellFoundedOn(Less, Nat)
    BY NatLessThanWellFounded
  <2> HIDE DEF Lengths, Less
  <2>3. QED
    BY <2>1, <2>2, WFMin
<1>3. PICK q \in Left : Len(q) = n
  OBVIOUS
<1>4. \A x \in Left : ~(Len(x) < Len(q))
  BY <1>1, <1>2, <1>3 DEF OpToRel
<1>5. Front(q) \notin Left
  <2>1. q \in Path /\ q # <<>> /\ Len(q) \in Nat
    BY <1>1, <1>3
  <2>2. Len(Front(q)) = Len(q) - 1
    <3>1. Front(q) \in Path /\ q = Append(Front(q), Last(q))
      BY <2>1, FrontPath
    <3>2. QED
      BY <3>1 DEF Path
  <2>3. Len(Front(q)) < Len(q)
    BY <2>1, <2>2
  <2>4. QED
    BY <1>4, <2>3
<1>6. Front(q) = path
  BY <1>3, <1>5, OpenRoot DEF Writing, Ahead
<1>7. QED
  BY <1>3, <1>6, NothingLeft

LEMMA WriteStopIInv ==
    ASSUME Writing, NEW t, Trace(t), Follows(t), WriteStop
    PROVE  IInv'
<1>1. /\ status = "writing" /\ foreign = 0
      /\ \A f \in Emitted : Append(path, f) \in written
      /\ wire' = Append(wire, FieldStop)
      /\ UNCHANGED <<root, sent, written, foreign, reader>>
  BY DEF WriteStop
<1>2. FieldStop \in Token /\ wire' \in Seq(Token)
  BY <1>1 DEF Token, Writing
<1>3. CASE path = <<>>
  <2>1. status' = "reading" /\ UNCHANGED path
    BY <1>3 DEF WriteStop
  <2>2. written = DOMAIN sent
    BY <1>1, <1>3, AllWritten
  <2>3. Inside(Here)' /\ Here' = Here
    BY <1>1, <2>1 DEF Inside, Here, Writing
  <2>4. Ahead'
    BY <1>1, <2>1, <2>2 DEF Ahead
  <2>5. Writing'
    BY <1>1, <1>2, <1>3, <2>1, <2>2, <2>3, <2>4, ObjectStays DEF Writing, Here
  <2>6. Emits(Here, FieldStop, Here')
    BY <1>1, <1>3, <2>3 DEF Emits, EmitsStop, Here
  <2>7. Ends(Here, FieldStop)
    BY <1>1, <1>3 DEF Ends, Here
  <2>8. \E u : Trace(u)' /\ Follows(u)'
    BY <1>1, <2>1, <2>3, <2>6, <2>7, TraceGrows
  <2>9. QED
    BY <2>5, <2>8 DEF IInv
<1>4. CASE path # <<>>
  <2>1. path' = Front(path) /\ UNCHANGED status
    BY <1>4 DEF WriteStop
  <2>2. /\ path \in Path /\ path \in written /\ path \in DOMAIN sent
        /\ Front(path) \in Path /\ Front(path) \in written \cup {<<>>}
        /\ Last(path) \in Fields(Front(path))
    BY <1>4, FrontPath DEF Writing, Inside, Here, Object, Placed
  <2>3. Front(path) # <<>> => Last(Front(path)).of # NoStruct
    BY <2>2 DEF Fields
  <2>4. Inside(Here)'
    BY <1>1, <2>1, <2>2, <2>3 DEF Inside, Here, Writing
  <2>5. Ahead'
    <3> SUFFICES ASSUME NEW q \in DOMAIN sent \ written, Front(q) \notin DOMAIN sent \ written
                 PROVE  Front(q) \in Open(Front(path))
      BY <1>1, <2>1 DEF Ahead
    <3>1. Front(q) # path
      BY <1>1, NothingLeft
    <3>2. Front(q) \in Open(path)
      BY DEF Writing, Ahead
    <3>3. QED
      BY <1>4, <2>2, <3>1, <3>2, OpenFront
  <2>6. Writing'
    BY <1>1, <1>2, <2>1, <2>4, <2>5, ObjectStays DEF Writing
  <2>7. Emits(Here, FieldStop, Here')
    BY <1>1, <1>4, <2>1 DEF Emits, EmitsStop, Here
  <2>8. ~Ends(Here, FieldStop)
    BY <1>4 DEF Ends, Here
  <2>9. \E u : Trace(u)' /\ Follows(u)'
    BY <1>1, <2>1, <2>4, <2>7, <2>8, TraceGrows
  <2>10. QED
    BY <2>6, <2>9 DEF IInv
<1>5. QED
  BY <1>3, <1>4

LEMMA WriteForeignIInv ==
    ASSUME Writing, NEW t, Trace(t), Follows(t), WriteForeign \/ EndForeign
    PROVE  IInv'
<1>1. /\ status = "writing"
      /\ UNCHANGED <<root, sent, path, written, reader, status>>
  BY DEF WriteForeign, EndForeign
<1>2. foreign \in Nat
  BY DEF Writing, Inside, Here
<1>3. PICK token \in Token :
        /\ wire' = Append(wire, token)
        /\ EmitsForeign(Here, token, Here')
        /\ token = FieldStop => foreign > 0
        /\ foreign' \in Nat
  <2>1. CASE WriteForeign
    <3>1. PICK id \in ForeignId, type \in ForeignType, v \in Value :
            /\ foreign = 0 => \A f \in Fields(path) : f.id # id \/ f.type # type
            /\ wire' = Append(wire, FieldBegin(id, type, v))
            /\ foreign' = IF type = "struct" THEN foreign + 1 ELSE foreign
      BY <2>1 DEF WriteForeign
    <3> DEFINE token == FieldBegin(id, type, v)
    <3>2. token \in Token /\ token # FieldStop
      BY DEF Token, FieldBegin, FieldStop
    <3>3. EmitsForeign(Here, token, Here')
      BY <1>1, <3>1 DEF EmitsForeign, FieldBegin, Here, Matches
    <3>4. QED
      BY <1>2, <3>1, <3>2, <3>3
  <2>2. CASE EndForeign
    <3>1. /\ foreign > 0 /\ foreign' = foreign - 1
          /\ wire' = Append(wire, FieldStop)
      BY <2>2 DEF EndForeign
    <3>2. EmitsForeign(Here, FieldStop, Here')
      BY <1>1, <3>1 DEF EmitsForeign, Here
    <3>3. FieldStop \in Token
      BY DEF Token
    <3>4. foreign' \in Nat
      BY <1>2, <3>1
    <3>5. QED
      BY <3>1, <3>2, <3>3, <3>4
  <2>3. QED
    BY <2>1, <2>2
<1>4. wire' \in Seq(Token)
  BY <1>3 DEF Writing
<1>5. Inside(Here)'
  BY <1>1, <1>3 DEF Inside, Here, Writing
<1>6. Writing'
  BY <1>1, <1>4, <1>5, ObjectStays DEF Writing, Ahead
<1>7. Emits(Here, token, Here') /\ ~Ends(Here, token)
  BY <1>2, <1>3 DEF Emits, Ends, Here
<1>8. \E u : Trace(u)' /\ Follows(u)'
  BY <1>1, <1>3, <1>5, <1>7, TraceGrows
<1>9. QED
  BY <1>6, <1>8 DEF IInv

-----------------------------------------------------------------------------
(* The reader's steps.                                                     *)

\* A step of the reader takes one token; it follows the writer from one state in
\* its trace to the next.
LEMMA TraceStays ==
    ASSUME Writing, NEW t, Trace(t), status = "reading", status' # "writing",
           UNCHANGED <<root, sent, writer>>
    PROVE  Writing' /\ Trace(t)'
<1>1. UNCHANGED <<wire, path, written, foreign>> /\ Here' = Here
  BY DEF writer, Here
<1>2. Writing'
  BY <1>1, ObjectStays, EmitsStays DEF Writing, Ahead, Here, Inside
<1>3. \A i \in 1 .. Len(wire) + 1 : Inside(t[i])'
  BY EmitsStays DEF Trace
<1>4. \A i \in 1 .. Len(wire) : Emits(t[i], wire[i], t[i + 1])'
  <2>1. ASSUME NEW i \in 1 .. Len(wire)
        PROVE  Emits(t[i], wire[i], t[i + 1])'
    <3>1. PICK token : token = wire[i]
      OBVIOUS
    <3>2. Emits(t[i], token, t[i + 1])'
      BY <3>1, EmitsStays DEF Trace
    <3>3. QED
      BY <1>1, <3>1, <3>2
  <2>2. QED
    BY <2>1
<1>5. \A i \in 1 .. Len(wire) :
        Ends(t[i], wire[i])' <=> status' # "writing" /\ i = Len(wire)
  BY <1>1 DEF Trace, Ends
<1>6. QED
  BY <1>1, <1>2, <1>3, <1>4, <1>5 DEF Trace

\* What the reader knows of the token it is at.
LEMMA AtToken ==
    ASSUME Writing, NEW t, Trace(t), Follows(t), status = "reading"
    PROVE  /\ pos \in 1 .. Len(wire) /\ Len(wire) \in Nat
           /\ Inside(t[pos]) /\ Inside(t[pos + 1])
           /\ Emits(t[pos], wire[pos], t[pos + 1])
           /\ Ends(t[pos], wire[pos]) <=> pos = Len(wire)
           /\ wire[pos] \in Token
           /\ into = t[pos].path /\ skipping = t[pos].foreign
           /\ got = [p \in t[pos].written \ Open(t[pos].path) |-> sent[p]]
<1>1. wire \in Seq(Token) /\ Len(wire) \in Nat
  BY DEF Writing
<1>2. pos \in 1 .. Len(wire)
  BY DEF Follows
<1>3. pos \in 1 .. Len(wire) + 1 /\ pos + 1 \in 1 .. Len(wire) + 1
  BY <1>1, <1>2
<1>4. QED
  BY <1>1, <1>2, <1>3 DEF Trace, Follows

LEMMA FollowOn ==
    ASSUME Writing, NEW t, Trace(t), Follows(t),
           status = "reading", status' = "reading", pos' = pos + 1,
           UNCHANGED <<root, sent, writer>>, ~Ends(t[pos], wire[pos]),
           into' = t[pos + 1].path, skipping' = t[pos + 1].foreign,
           got' = [p \in t[pos + 1].written \ Open(t[pos + 1].path) |-> sent[p]]
    PROVE  IInv'
<1>1. pos \in 1 .. Len(wire) /\ Len(wire) \in Nat /\ pos # Len(wire)
  BY AtToken
<1>2. pos' \in 1 .. Len(wire') /\ sent' = sent
  BY <1>1 DEF writer
<1>3. Follows(t)'
  BY <1>2 DEF Follows
<1>4. Writing' /\ Trace(t)'
  BY TraceStays
<1>5. QED
  BY <1>3, <1>4 DEF IInv

LEMMA ReadScalarIInv ==
    ASSUME Writing, NEW t, Trace(t), Follows(t), ReadScalar
    PROVE  IInv'
<1>1. /\ status = "reading" /\ skipping = 0 /\ wire[pos].tag = "field"
      /\ pos' = pos + 1
      /\ UNCHANGED <<root, sent, writer, into, skipping, status>>
  BY DEF ReadScalar, AtField, Arrives
<1>2. PICK f \in Fields(into) :
        /\ Matches(f, wire[pos])
        /\ f.of = NoStruct
        /\ got' = Assign(got, Append(into, f), wire[pos].value)
  BY DEF ReadScalar
<1>3. wire[pos] # FieldStop
  BY <1>1 DEF FieldStop
<1>4. ~Ends(t[pos], wire[pos])
  BY <1>3 DEF Ends
<1>5. EmitsField(t[pos], wire[pos], t[pos + 1])
  <2>1. ~EmitsStop(t[pos], wire[pos], t[pos + 1])
    BY <1>3 DEF EmitsStop
  <2>2. ~EmitsForeign(t[pos], wire[pos], t[pos + 1])
    BY <1>1, <1>2, <1>3, AtToken DEF EmitsForeign
  <2>3. QED
    BY <1>1, <2>1, <2>2, AtToken DEF Emits
<1>6. into \in Path /\ into = t[pos].path
  BY <1>1, AtToken DEF Inside
<1>7. PICK g \in Fields(into) :
        /\ Append(into, g) \in DOMAIN sent
        /\ wire[pos] = FieldBegin(g.id, g.type, sent[Append(into, g)])
        /\ t[pos + 1] = [path    |-> IF g.of = NoStruct THEN into ELSE Append(into, g),
                         written |-> t[pos].written \cup {Append(into, g)},
                         foreign |-> 0]
  BY <1>5, <1>6 DEF EmitsField
<1>8. g = f
  BY <1>2, <1>6, <1>7, FieldsGood DEF Matches, FieldBegin, GoodSchema, Writing, Object
<1> DEFINE m == Append(into, f)
<1>9. m \notin Open(into)
  BY <1>6, FieldsGood, OpenAppend DEF Writing, Object
<1>10. /\ t[pos + 1].path = into /\ t[pos + 1].foreign = 0
       /\ t[pos + 1].written = t[pos].written \cup {m}
       /\ wire[pos].value = sent[m]
  BY <1>2, <1>7, <1>8 DEF FieldBegin
<1>11. got' = [p \in t[pos + 1].written \ Open(t[pos + 1].path) |-> sent[p]]
  <2> HIDE DEF m
  <2>1. got = [p \in t[pos].written \ Open(into) |-> sent[p]]
    BY <1>1, AtToken
  <2>2. got' = Assign(got, m, sent[m])
    BY <1>2, <1>10 DEF m
  <2>3. (t[pos].written \ Open(into)) \cup {m} = t[pos + 1].written \ Open(t[pos + 1].path)
    BY <1>9, <1>10 DEF m
  <2>4. Assign(got, m, sent[m]) = [p \in (t[pos].written \ Open(into)) \cup {m} |-> sent[p]]
    BY <2>1 DEF Assign
  <2>5. QED
    BY <2>2, <2>3, <2>4
<1>12. QED
  BY <1>1, <1>4, <1>10, <1>11, FollowOn

LEMMA ReadNestedIInv ==
    ASSUME Writing, NEW t, Trace(t), Follows(t), ReadNested
    PROVE  IInv'
<1>1. /\ status = "reading" /\ skipping = 0 /\ wire[pos].tag = "field"
      /\ pos' = pos + 1
      /\ UNCHANGED <<root, sent, writer, got, skipping, status>>
  BY DEF ReadNested, AtField, Arrives
<1>2. PICK f \in Fields(into) :
        /\ Matches(f, wire[pos])
        /\ f.of # NoStruct
        /\ into' = Append(into, f)
  BY DEF ReadNested
<1>3. wire[pos] # FieldStop
  BY <1>1 DEF FieldStop
<1>4. ~Ends(t[pos], wire[pos])
  BY <1>3 DEF Ends
<1>5. EmitsField(t[pos], wire[pos], t[pos + 1])
  <2>1. ~EmitsStop(t[pos], wire[pos], t[pos + 1])
    BY <1>3 DEF EmitsStop
  <2>2. ~EmitsForeign(t[pos], wire[pos], t[pos + 1])
    BY <1>1, <1>2, <1>3, AtToken DEF EmitsForeign
  <2>3. QED
    BY <1>1, <2>1, <2>2, AtToken DEF Emits
<1>6. into \in Path /\ into = t[pos].path
  BY <1>1, AtToken DEF Inside
<1>7. PICK g \in Fields(into) :
        /\ Append(into, g) \notin t[pos].written
        /\ wire[pos] = FieldBegin(g.id, g.type, sent[Append(into, g)])
        /\ t[pos + 1] = [path    |-> IF g.of = NoStruct THEN into ELSE Append(into, g),
                         written |-> t[pos].written \cup {Append(into, g)},
                         foreign |-> 0]
  BY <1>5, <1>6 DEF EmitsField
<1>8. g = f
  BY <1>2, <1>6, <1>7, FieldsGood DEF Matches, FieldBegin, GoodSchema, Writing, Object
<1> DEFINE m == Append(into, f)
<1>9. Open(m) = Open(into) \cup {m}
  BY <1>6, FieldsGood, OpenAppend DEF Writing, Object
<1>10. /\ t[pos + 1].path = m /\ t[pos + 1].foreign = 0
       /\ t[pos + 1].written = t[pos].written \cup {m} /\ m \notin t[pos].written
  BY <1>2, <1>7, <1>8
<1>11. t[pos].written \ Open(into) = t[pos + 1].written \ Open(t[pos + 1].path)
  <2> HIDE DEF m
  <2>1. QED
    BY <1>9, <1>10
<1>12. got' = [p \in t[pos + 1].written \ Open(t[pos + 1].path) |-> sent[p]]
  BY <1>1, <1>6, <1>11, AtToken
<1>13. QED
  BY <1>1, <1>2, <1>4, <1>10, <1>12, FollowOn

LEMMA SkipIInv ==
    ASSUME Writing, NEW t, Trace(t), Follows(t), SkipField \/ Skip
    PROVE  IInv'
<1>1. /\ status = "reading"
      /\ pos' = pos + 1
      /\ UNCHANGED <<root, sent, writer, into, got, status>>
  BY DEF SkipField, Skip, AtField, Arrives
<1>2. /\ Inside(t[pos])
      /\ Emits(t[pos], wire[pos], t[pos + 1])
      /\ wire[pos] \in Token
      /\ into = t[pos].path /\ skipping = t[pos].foreign
      /\ got = [p \in t[pos].written \ Open(t[pos].path) |-> sent[p]]
  BY <1>1, AtToken
<1>3. skipping \in Nat
  BY <1>2 DEF Inside
<1>4. /\ EmitsForeign(t[pos], wire[pos], t[pos + 1])
      /\ skipping' = t[pos + 1].foreign
      /\ ~Ends(t[pos], wire[pos])
  <2>1. CASE SkipField
    <3>1. /\ skipping = 0 /\ wire[pos].tag = "field"
          /\ \A f \in Fields(into) : ~Matches(f, wire[pos])
          /\ skipping' = IF wire[pos].type = "struct" THEN 1 ELSE 0
      BY <2>1 DEF SkipField, AtField, Foreign
    <3>2. wire[pos] # FieldStop
      BY <3>1 DEF FieldStop
    <3>3. ~EmitsField(t[pos], wire[pos], t[pos + 1])
      <4> SUFFICES ASSUME NEW f \in Fields(into), NEW v,
                          wire[pos] = FieldBegin(f.id, f.type, v)
                   PROVE  FALSE
        BY <1>2 DEF EmitsField
      <4>1. QED
        BY <3>1 DEF Matches, FieldBegin
    <3>4. EmitsForeign(t[pos], wire[pos], t[pos + 1])
      BY <1>2, <3>2, <3>3 DEF Emits, EmitsStop
    <3>5. skipping' = t[pos + 1].foreign
      BY <1>2, <3>1, <3>2, <3>4 DEF EmitsForeign
    <3>6. QED
      BY <3>2, <3>4, <3>5 DEF Ends
  <2>2. CASE Skip
    <3>1. skipping > 0
          /\ skipping' = IF wire[pos].tag = "stop" THEN skipping - 1
                         ELSE Deeper(skipping, wire[pos])
      BY <2>2 DEF Skip
    <3>2. skipping # 0
      BY <1>3, <3>1
    <3>3. EmitsForeign(t[pos], wire[pos], t[pos + 1]) /\ ~Ends(t[pos], wire[pos])
      BY <1>2, <3>2 DEF Emits, EmitsField, EmitsStop, Ends
    <3>4. wire[pos].tag = "stop" <=> wire[pos] = FieldStop
      BY <1>2 DEF Token, FieldStop
    <3>5. skipping' = t[pos + 1].foreign
      <4>1. CASE wire[pos] = FieldStop
        <5>1. wire[pos].tag # "field"
          BY <4>1 DEF FieldStop
        <5>2. QED
          BY <1>2, <3>1, <3>3, <3>4, <4>1, <5>1 DEF EmitsForeign
      <4>2. CASE wire[pos] # FieldStop
        BY <1>2, <3>1, <3>3, <3>4, <4>2 DEF EmitsForeign, Deeper
      <4>3. QED
        BY <4>1, <4>2
    <3>6. QED
      BY <3>3, <3>5
  <2>3. QED
    BY <2>1, <2>2
<1>5. t[pos + 1].path = t[pos].path /\ t[pos + 1].written = t[pos].written
  BY <1>4 DEF EmitsForeign
<1>6. QED
  BY <1>1, <1>2, <1>4, <1>5, FollowOn

LEMMA ReadStopIInv ==
    ASSUME Writing, NEW t, Trace(t), Follows(t), ReadStop
    PROVE  IInv'
<1>1. /\ status = "reading" /\ skipping = 0 /\ wire[pos].tag = "stop"
      /\ pos' = pos + 1
      /\ UNCHANGED <<root, sent, writer, skipping>>
  BY DEF ReadStop, Arrives
<1>2. /\ Inside(t[pos])
      /\ Emits(t[pos], wire[pos], t[pos + 1])
      /\ Ends(t[pos], wire[pos]) <=> pos = Len(wire)
      /\ wire[pos] \in Token
      /\ into = t[pos].path /\ skipping = t[pos].foreign
      /\ got = [p \in t[pos].written \ Open(t[pos].path) |-> sent[p]]
  BY <1>1, AtToken
<1>3. wire[pos] = FieldStop
  BY <1>1, <1>2 DEF Token
<1>4. EmitsStop(t[pos], wire[pos], t[pos + 1])
  <2>1. ~EmitsField(t[pos], wire[pos], t[pos + 1])
    <3> SUFFICES ASSUME NEW f, NEW v, wire[pos] = FieldBegin(f.id, f.type, v)
                 PROVE  FALSE
      BY DEF EmitsField
    <3>1. QED
      BY <1>1 DEF FieldBegin
  <2>2. ~EmitsForeign(t[pos], wire[pos], t[pos + 1])
    <3>1. wire[pos].tag # "field" /\ ~(t[pos].foreign > 0)
      BY <1>1, <1>2
    <3>2. QED
      BY <1>3, <3>1 DEF EmitsForeign
  <2>3. QED
    BY <1>2, <2>1, <2>2, Zenon DEF Emits
<1>5. CASE into = <<>>
  <2>1. status' = "done" /\ UNCHANGED <<into, got>>
    BY <1>5 DEF ReadStop
  <2>2. pos = Len(wire)
    BY <1>1, <1>2, <1>3, <1>5 DEF Ends
  <2>3. t[pos].written = DOMAIN sent
    <3>1. t[pos + 1] = Here /\ Here.written = DOMAIN sent
      BY <1>1, <2>2 DEF Trace, Writing
    <3>2. QED
      BY <1>4, <3>1 DEF EmitsStop
  <2>4. <<>> \notin DOMAIN sent
    BY DEF Writing, Object, Placed
  <2>5. got = sent
    <3>1. got = [p \in DOMAIN sent |-> sent[p]]
      BY <1>2, <1>5, <2>3, <2>4, OpenRoot
    <3>2. QED
      BY <3>1 DEF Writing, Object
  <2>6. Follows(t)'
    BY <1>1, <2>1, <2>2, <2>5 DEF Follows, writer
  <2>7. QED
    BY <1>1, <2>1, <2>6, TraceStays DEF IInv
<1>6. CASE into # <<>>
  <2>1. into' = Front(into) /\ got' = Assign(got, into, "struct") /\ UNCHANGED status
    BY <1>6 DEF ReadStop
  <2>2. /\ t[pos + 1].path = Front(into) /\ t[pos + 1].foreign = 0
        /\ t[pos + 1].written = t[pos].written
    BY <1>2, <1>4, <1>6 DEF EmitsStop
  <2>3. into \in Path /\ into \in t[pos].written /\ sent[into] = "struct"
    BY <1>2, <1>6 DEF Inside, Writing, Object
  <2>4. Open(into) = Open(Front(into)) \cup {into} /\ into \notin Open(Front(into))
    BY <1>6, <2>3, OpenFront
  <2>5. got' = [p \in t[pos + 1].written \ Open(t[pos + 1].path) |-> sent[p]]
    <3>1. (t[pos].written \ Open(into)) \cup {into}
            = t[pos + 1].written \ Open(t[pos + 1].path)
      BY <2>2, <2>3, <2>4
    <3>2. got = [p \in t[pos].written \ Open(into) |-> sent[p]]
      BY <1>2
    <3>3. Assign(got, into, "struct")
            = [p \in (t[pos].written \ Open(into)) \cup {into} |-> sent[p]]
      BY <2>3, <3>2 DEF Assign
    <3>4. QED
      BY <2>1, <3>1, <3>3
  <2>6. ~Ends(t[pos], wire[pos])
    BY <1>2, <1>6 DEF Ends
  <2>7. QED
    BY <1>1, <2>1, <2>2, <2>5, <2>6, FollowOn
<1>7. QED
  BY <1>5, <1>6

LEMMA TransportExceptionIInv ==
    ASSUME Writing, NEW t, Trace(t), Follows(t), TransportException
    PROVE  IInv'
<1>1. /\ status = "reading" /\ status' = "failed"
      /\ UNCHANGED <<root, sent, writer, reader>>
  BY DEF TransportException
<1>2. Follows(t)'
  BY <1>1 DEF Follows
<1>3. QED
  BY <1>1, <1>2, TraceStays DEF IInv

LEMMA StutterIInv == IInv /\ UNCHANGED vars => IInv'
<1> SUFFICES ASSUME IInv, UNCHANGED vars PROVE IInv'
  OBVIOUS
<1>1. UNCHANGED <<root, sent, wire, path, written, foreign, pos, into, got, skipping, status>>
  BY DEF vars, writer, reader
<1>2. PICK t : Trace(t) /\ Follows(t)
  BY DEF IInv
<1>3. Writing'
  BY <1>1, ObjectStays DEF IInv, Writing, Ahead, Here, Inside
<1>4. Trace(t)'
  <2>1. \A i \in 1 .. Len(wire) + 1 : Inside(t[i])'
    BY <1>1, <1>2, EmitsStays DEF Trace
  <2>2. ASSUME NEW i \in 1 .. Len(wire)
        PROVE  Emits(t[i], wire[i], t[i + 1])'
    <3>1. PICK token : token = wire[i]
      OBVIOUS
    <3>2. Emits(t[i], token, t[i + 1])'
      BY <1>1, <1>2, <3>1, EmitsStays DEF Trace
    <3>3. QED
      BY <1>1, <3>1, <3>2
  <2>3. QED
    BY <1>1, <1>2, <2>1, <2>2 DEF Trace, Ends, Here
<1>5. Follows(t)'
  BY <1>1, <1>2 DEF Follows
<1>6. QED
  BY <1>3, <1>4, <1>5 DEF IInv

-----------------------------------------------------------------------------

THEOREM CodecInvariant == Spec => []IInv
<1>1. IInv /\ [Next]_vars => IInv'
  <2> SUFFICES ASSUME IInv, Next PROVE IInv'
    BY StutterIInv
  <2>1. PICK t : Trace(t) /\ Follows(t)
    BY DEF IInv
  <2>2. Writing
    BY DEF IInv
  <2>3. CASE WriteField
    BY <2>1, <2>2, <2>3, WriteFieldIInv
  <2>4. CASE WriteStop
    BY <2>1, <2>2, <2>4, WriteStopIInv
  <2>5. CASE WriteForeign \/ EndForeign
    BY <2>1, <2>2, <2>5, WriteForeignIInv
  <2>6. CASE ReadScalar
    BY <2>1, <2>2, <2>6, ReadScalarIInv
  <2>7. CASE ReadNested
    BY <2>1, <2>2, <2>7, ReadNestedIInv
  <2>8. CASE SkipField \/ Skip
    BY <2>1, <2>2, <2>8, SkipIInv
  <2>9. CASE ReadStop
    BY <2>1, <2>2, <2>9, ReadStopIInv
  <2>10. CASE TransportException
    BY <2>1, <2>2, <2>10, TransportExceptionIInv
  <2>11. QED
    BY <2>3, <2>4, <2>5, <2>6, <2>7, <2>8, <2>9, <2>10 DEF Next, WriteStep, ReadStep
<1>2. QED
  BY InitIInv, <1>1, PTL DEF Spec

\* A message is read as it was written, whatever values it carries and whatever
\* fields of another version are in it, in any order of the fields.
THEOREM RoundTripHolds == Spec => []RoundTrip
<1>1. IInv => RoundTrip
  BY DEF IInv, Follows, RoundTrip
<1>2. QED
  BY <1>1, CodecInvariant, PTL

\* A read function that returns has read its message to the end and not beyond.
THEOREM FramingHolds == Spec => []Framing
<1>1. IInv => Framing
  BY DEF IInv, Writing, Follows, Framing
<1>2. QED
  BY <1>1, CodecInvariant, PTL

=============================================================================
