\* All messages, every choice of the members that are set, every place to lose the
\* connection; up to two deviations, each a field of another version (one inside
\* the other among them) or a field out of order.
SPECIFICATION Spec
CONSTANTS
    Value = {v}
    ForeignId = {1, 2}
    ForeignType = {"bool", "struct"}
    MaxDeviations = 2
INVARIANTS
    RoundTrip
    Framing
PROPERTY ReadEnds
CHECK_DEADLOCK FALSE
