---------------------------- MODULE AddressOrder -----------------------------
(***************************************************************************)
(* The orders of helpers.cpp, the equality of concolic_types.h, and the    *)
(* containers that use them: the std::map deferred_breakpoints and the     *)
(* std::set that getBreakpoints answers with.  Both look an element up by  *)
(* order alone, while clients mean the same breakpoint by equality, which  *)
(* also looks at which fields are set.                                     *)
(*                                                                         *)
(* Strings are compared as numbers; 0 is the value of a field never set    *)
(* (no offset, no address, the empty string), which a client may also send.*)
(***************************************************************************)
EXTENDS Integers, SequencesExt

CONSTANTS Names,      \* module names
          Offsets,    \* offsets, 0 among them
          Symbols,    \* symbol names, the empty one among them
          Pointers,   \* app_pc values that have a breakpoint now and then
          Counts,     \* their counts, as size_t
          Word        \* 2^64 in the code

ASSUME OrderAssumption ==
    /\ Names \subseteq Int
    /\ Offsets \subseteq Int /\ 0 \in Offsets
    /\ Symbols \subseteq Int /\ 0 \in Symbols

ASSUME WordAssumption ==
    /\ Word \in Nat \ {0}
    /\ Pointers \subseteq 0 .. Word - 1
    /\ Counts \subseteq 0 .. Word - 1

VARIABLES keys,         \* the keys of deferred_breakpoints, in the tree's order
          stored,       \* the addresses clients deferred and nobody removed
          breakpoints   \* the other table: [a subset of Pointers -> Counts]

vars == <<keys, stored, breakpoints>>

\* Whatever a message can set: the address of a module that is not loaded is
\* deferred before anyone looks at its offset.  A field that is not set is 0, so
\* equality of these records is the generated operator==.
OffsetOrSymbol ==
    {x \in [offset : Offsets, symbol : Symbols, isset : SUBSET {"offset", "symbol"}] :
        /\ "offset" \notin x.isset => x.offset = 0
        /\ "symbol" \notin x.isset => x.symbol = 0}

RelAddr == [modulename : Names, offset : OffsetOrSymbol]

\* operator< of OffsetOrSymbol looks at the values, set or not.
OffsetLess_no_symbol(x, y) == x.offset < y.offset
OffsetLess(x, y) ==
    \/ x.offset < y.offset
    \/ x.offset = y.offset /\ x.symbol < y.symbol

\* operator< of RelAddr: RelAddr::operator!= decides whether the offsets are
\* compared, and they are compared by their own operator<.
RelLess(x, y) ==
    \/ x.modulename < y.modulename
    \/ x.modulename = y.modulename /\ x.offset # y.offset /\ OffsetLess(x.offset, y.offset)

\* The members that are not set keep the value their constructor gave them.
NoOffset == [offset |-> 0, symbol |-> 0, isset |-> {}]
NoRelAddr == [modulename |-> 0, offset |-> NoOffset]

\* An i64 of the IDL: what the cast of a pointer or a size_t gives.
Signed(n) == IF 2 * n < Word THEN n ELSE n - Word

\* operator< of AbsOrRelAddr: again the members, set or not.
AddrLess(x, y) ==
    \/ x.absaddr < y.absaddr
    \/ x.absaddr = y.absaddr /\ x.reladdr # y.reladdr /\ RelLess(x.reladdr, y.reladdr)

BreakpointLess_by_count(x, y) == x.count < y.count
BreakpointLess(x, y) ==
    \/ x.addr # y.addr /\ AddrLess(x.addr, y.addr)
    \/ x.addr = y.addr /\ x.count < y.count

-----------------------------------------------------------------------------
(* The map.                                                                *)

\* The first key that is not less than k, as a position; and whether it is k.
LowerBound(k) ==
    CHOOSE i \in 1 .. Len(keys) + 1 :
        /\ \A j \in 1 .. i - 1 : RelLess(keys[j], k)
        /\ i <= Len(keys) => ~RelLess(keys[i], k)
Count(k) ==
    LET i == LowerBound(k) IN i <= Len(keys) /\ ~RelLess(k, keys[i])

\* The same module, offset and symbol, whichever of them are set.
SameKey(x, y) ==
    /\ x.modulename = y.modulename
    /\ x.offset.offset = y.offset.offset
    /\ x.offset.symbol = y.offset.symbol

\* addBreakpoint and delBreakpoint on an address that does not resolve yet.
Defer(k) ==
    /\ ~Count(k)
    /\ keys' = InsertAt(keys, LowerBound(k), k)
    /\ stored' = stored \cup {k}
    /\ UNCHANGED breakpoints

Withdraw(k) ==
    /\ Count(k)
    /\ keys' = RemoveAt(keys, LowerBound(k))
    /\ stored' = {s \in stored : ~SameKey(s, k)}
    /\ UNCHANGED breakpoints

-----------------------------------------------------------------------------
(* The set.                                                                *)

\* std::set::insert: nothing happens if an element is neither less nor greater.
Insert(b, S) ==
    IF \E x \in S : ~BreakpointLess(x, b) /\ ~BreakpointLess(b, x) THEN S ELSE S \cup {b}

\* The Breakpoint getBreakpoints makes of an entry, and its answer.
Entry(p) ==
    [addr  |-> [absaddr |-> Signed(p), reladdr |-> NoRelAddr, isset |-> {"absaddr"}],
     count |-> Signed(breakpoints[p])]

getBreakpoints == FoldSet(Insert, {}, {Entry(p) : p \in DOMAIN breakpoints})

\* A breakpoint is set, counted down or hit for the last time.
SetCount(p, n) ==
    /\ breakpoints' = [q \in DOMAIN breakpoints \cup {p} |->
                          IF q = p THEN n ELSE breakpoints[q]]
    /\ UNCHANGED <<keys, stored>>

Erase(p) ==
    /\ p \in DOMAIN breakpoints
    /\ breakpoints' = [q \in DOMAIN breakpoints \ {p} |-> breakpoints[q]]
    /\ UNCHANGED <<keys, stored>>

-----------------------------------------------------------------------------

Init == keys = <<>> /\ stored = {} /\ breakpoints = [p \in {} |-> 0]

Next ==
    \/ \E k \in RelAddr : Defer(k) \/ Withdraw(k)
    \/ \E p \in Pointers : (\E n \in Counts : SetCount(p, n)) \/ Erase(p)

Spec == Init /\ [][Next]_vars

-----------------------------------------------------------------------------

\* Looking an address up by order finds an entry exactly when a client stored
\* one with the same values, and the entry is the address as it was stored: no
\* entry is lost behind another in the tree, and none is shared by addresses
\* that differ in a value.  Those that differ only in what is set do share one,
\* like {offset = 0} and {symbol = ""}.
MapAgrees ==
    /\ {keys[i] : i \in DOMAIN keys} = stored
    /\ \A k \in RelAddr : Count(k) <=> \E s \in stored : SameKey(s, k)

\* The pointer a client's absaddr becomes again, (app_pc) a.absaddr.
Pointer(i) == i % Word

\* getBreakpoints answers with every breakpoint there is, whatever their
\* addresses and counts have in common and however far up the address space
\* they are: none is dropped as a duplicate by the set's order, and the address
\* and the count that a client reads are, cast back, those of the table.
AnswerComplete ==
    {<<Pointer(b.addr.absaddr), Pointer(b.count)>> : b \in getBreakpoints}
        = {<<p, breakpoints[p]>> : p \in DOMAIN breakpoints}

=============================================================================
