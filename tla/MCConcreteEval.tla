--------------------------- MODULE MCConcreteEval ----------------------------
(***************************************************************************)
(* Values of ConcreteEval's constants for model checking.  Program layouts *)
(* over the addresses 1 and 2: Flat, one block of two instructions;        *)
(* Overlap, that block and another that starts inside it, as DynamoRIO     *)
(* builds for a jump into a block; Pair, two blocks of one; Linked, the    *)
(* same two, the second in a module that loads later, with nothing at its  *)
(* end.                                                                    *)
(***************************************************************************)
EXTENDS ConcreteEval, TLC

CONSTANTS lib, near, alias, missing, outside

FlatAddrs      == {1, 2}
FlatBlocks     == {<<1, 3>>}
FlatAddrModule == [a \in FlatAddrs |-> None]

OverlapBlocks == FlatBlocks \cup {<<2, 3>>}

PairBlocks == {<<1, 2>>, <<2, 3>>}

LinkedAddrs      == {1, 2}
LinkedBlocks     == PairBlocks
LinkedAddrModule == [a \in LinkedAddrs |-> IF a = 2 THEN lib ELSE None]

MCModuleEnd == [m \in Modules |-> None]

\* Relative addresses, all of module lib: two that resolve to its instruction,
\* one whose symbol does not exist, one whose offset leaves the module.
MCModuleOf == [r \in RelAddrs |-> lib]
MCTarget   == [r \in RelAddrs |-> CASE r \in {near, alias} -> 2
                                    [] r = missing         -> Unresolvable
                                    [] r = outside         -> 1]
MCKeyRank  == [r \in RelAddrs |-> CASE r = near    -> 1
                                    [] r = alias   -> 2
                                    [] r = missing -> 3
                                    [] r = outside -> 4]

OnBreakpoint == {{"Breakpoint"}}
OnRelevant   == {{"RelevantBlock"}}
OnEither     == OnBreakpoint \cup OnRelevant

ThreadSymmetry == Permutations(Threads)

=============================================================================
