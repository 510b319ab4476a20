--------------------------- MODULE MCSequentialTools ---------------------------
EXTENDS SequentialTools

CONSTANTS read, write, one, other

Call(t, a) == [tool |-> t, args |-> a]
MCSignature == {Call(read, 1), Call(read, 2), Call(write, 1)}
=============================================================================
