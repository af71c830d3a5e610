------------------------------- MODULE Int32 -------------------------------
(***************************************************************************)
(* Go's fixed-width integers.  MaxInt32 is 2^31 - 1 in the program; a      *)
(* model takes a smaller bound so that the wrap-around is reached.         *)
(***************************************************************************)
EXTENDS Integers

CONSTANT MaxInt32

ASSUME MaxInt32Assumption == MaxInt32 \in Nat \ {0}

MinInt32 == -MaxInt32 - 1

Int32Values == MinInt32 .. MaxInt32

\* The number of values an int32 or a uint32 has.
Word == 2 * (MaxInt32 + 1)

\* int32 arithmetic: the sum x + y, wrapped.
Add32(x, y) ==
    LET s == x + y
    IN  IF s > MaxInt32 THEN s - Word ELSE IF s < MinInt32 THEN s + Word ELSE s

\* The conversion uint32(x).
ToUint32(x) == IF x < 0 THEN x + Word ELSE x

\* The conversion int32(u) of a uint32.
ToInt32(u) == IF u > MaxInt32 THEN u - Word ELSE u
=============================================================================
