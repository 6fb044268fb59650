------------------------------- MODULE Words -------------------------------
(***************************************************************************)
(* The machine words of guest and host, scaled down: XLEN stands for 64    *)
(* bits, HALF for 32 (the operand of the W instructions).  A word is the   *)
(* number its bits are the binary digits of; a 32 bit operation of the     *)
(* host zeroes the upper half of its destination.                          *)
(***************************************************************************)
EXTENDS Integers

CONSTANTS XLEN, HALF

ASSUME WidthAssumption == XLEN \in Nat /\ HALF \in 1 .. XLEN /\ XLEN = 2 * HALF

Word == 0 .. 2^XLEN - 1

\* Facts about powers, which proofs take as a premise where they need them.
PowersOf2 ==
    /\ \A n \in 0 .. XLEN : 2^n \in Nat \ {0}
    /\ \A n \in 0 .. HALF : 2^n * 2^(HALF - n) = 2^HALF /\ 2^(HALF + n) = 2^HALF * 2^n
    /\ 2^HALF > 1

W(v) == v % 2^XLEN                  \* the result of a 64 bit operation
Low(v) == v % 2^HALF                \* of a 32 bit operation: MOV32, ADD32, ...
High(v) == v \div 2^HALF

\* The number the low n bits of v stand for in two's complement.
SignedOf(v, n) ==
    LET u == v % 2^n IN IF u < 2^(n - 1) THEN u ELSE u - 2^n

Signed(v) == SignedOf(v, XLEN)
SignedLow(v) == SignedOf(v, HALF)

Sext(v) == W(SignedLow(v))          \* MOVSXr64r32

Bit(v, b) == (v \div 2^b) % 2

\* The word whose bits are those of u and v, combined by Op.
BitByBit(Op(_, _), u, v) ==
    LET lowest[n \in 0 .. XLEN] ==
            IF n = 0 THEN 0 ELSE lowest[n - 1] + 2^(n - 1) * Op(Bit(u, n - 1), Bit(v, n - 1))
    IN  lowest[XLEN]

And(u, v) == BitByBit(LAMBDA x, y : x * y, u, v)
Or(u, v) == BitByBit(LAMBDA x, y : x + y - x * y, u, v)
Xor(u, v) == BitByBit(LAMBDA x, y : (x + y) % 2, u, v)
=============================================================================
