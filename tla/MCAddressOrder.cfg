\* Two modules with two offsets and two symbols each, set or not: nine addresses
\* of a module, for four keys.  Four-bit words: pointers on both sides of the
\* sign and at the top, and counts that share their value or their sign.
SPECIFICATION Spec
CONSTANTS
    Names = {1, 2}
    Offsets = {0, 1}
    Symbols = {0, 1}
    Pointers = {7, 8, 15}
    Counts = {1, 15}
    Word = 16
INVARIANTS
    MapAgrees
    AnswerComplete
