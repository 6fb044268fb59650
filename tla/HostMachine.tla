---------------------------- MODULE HostMachine ----------------------------
(***************************************************************************)
(* The part of an x86-64 machine that the translator's integer code uses:  *)
(* general purpose registers, one comparison's flags, memory, jumps over   *)
(* the instructions that follow.  Words are scaled (Words.tla): a byte has *)
(* BYTE bits, a short SHORT bits.                                          *)
(*                                                                         *)
(* An instruction is [op, w, d, s, i]: operation, operand width, register  *)
(* (or base) of the destination, of the source, immediate.                 *)
(***************************************************************************)
EXTENDS Words, Sequences

CONSTANTS BYTE, SHORT

ASSUME SizesAssumption == BYTE \in 1 .. SHORT /\ SHORT \in 1 .. HALF

\* Facts about powers and bits, which proofs take as a premise.  They hold of any
\* such sizes when XLEN is a power of two.
SizeFacts ==
    /\ \A j \in 0 .. XLEN : 2^j \in Nat \ {0} /\ \A k \in 0 .. XLEN - j : 2^(j + k) = 2^j * 2^k
    /\ 2^1 = 2 /\ 2^HALF % XLEN = 0
    /\ \A u, v \in Word : And(u, v) \in Word /\ Or(u, v) \in Word /\ Xor(u, v) \in Word
    /\ \A u, v \in Word : And(u, v) = And(v, u) /\ Or(u, v) = Or(v, u) /\ Xor(u, v) = Xor(v, u)
    /\ \A u \in Word : Xor(u, u) = 0
    /\ \A u \in Word, v \in 0 .. 2^HALF - 1 :
          And(u, v) = And(Low(u), v) /\ And(u, v) \in 0 .. 2^HALF - 1

NONE == "NONE"      \* in place of a register

Ins(op, w, d, s, i) == [op |-> op, w |-> w, d |-> d, s |-> s, i |-> i]
RR(op, w, d, s) == Ins(op, w, d, s, 0)
RI(op, w, d, i) == Ins(op, w, d, NONE, i)
R1(op, w, d) == Ins(op, w, d, NONE, 0)
Jump(op, n) == Ins(op, XLEN, NONE, NONE, n)     \* over the next n instructions

Trunc(v, w) == v % 2^w
If(b) == IF b THEN 1 ELSE 0
Abs(n) == IF n < 0 THEN 0 - n ELSE n

\* Division of numbers, truncated towards zero.
Quotient(n, d) == LET q == Abs(n) \div Abs(d) IN IF (n < 0) = (d < 0) THEN q ELSE 0 - q
Remainder(n, d) == n - d * Quotient(n, d)

\* An arithmetic shift of a w bit value; shift amounts are taken modulo w.
ShiftRightArithmetic(x, n, w) == Trunc(SignedOf(x, w) \div 2^n, w)

Alu(op, w, x, y) ==
    LET n == y % w
    IN  CASE op = "MOV" -> y
          [] op = "ADD" -> Trunc(x + y, w)
          [] op = "SUB" -> Trunc(x - y, w)
          [] op = "AND" -> And(x, y)
          [] op = "OR"  -> Or(x, y)
          [] op = "XOR" -> Xor(x, y)
          [] op = "IMUL" -> Trunc(x * y, w)
          [] op = "SHL" -> Trunc(x * 2^n, w)
          [] op = "SHR" -> x \div 2^n
          [] op = "SAR" -> ShiftRightArithmetic(x, n, w)

AluOps == {"MOV", "ADD", "SUB", "AND", "OR", "XOR", "IMUL", "SHL", "SHR", "SAR"}

\* The flags of the last CMP or TEST, as what was compared.
Holds(cc, f) ==
    CASE cc = "Z"  -> f.x = f.y
      [] cc = "C"  -> f.x < f.y
      [] cc = "A"  -> f.x > f.y
      [] cc = "L"  -> SignedOf(f.x, f.w) < SignedOf(f.y, f.w)
      [] cc = "G"  -> SignedOf(f.x, f.w) > SignedOf(f.y, f.w)
      [] cc = "NS" -> SignedOf(f.x, f.w) >= 0
      [] cc = "ALWAYS" -> TRUE

-----------------------------------------------------------------------------
(* m: reg, mem (words at the addresses that are mapped), flags, fault.     *)

OneWord(a, v) == [x \in {a} |-> v]       \* a memory that has only the address a

Set(m, r, v) == [m EXCEPT !.reg[r] = v]
Fault(m) == [m EXCEPT !.fault = TRUE]

\* The accesses of w bits at the address in register b.
At(m, b, i) == W(m.reg[b] + i)
LoadAt(m, b, i, w) == Trunc(m.mem[At(m, b, i)], w)
StoreAt(m, b, i, w, v) ==
    [m EXCEPT !.mem[At(m, b, i)] = @ - Trunc(@, w) + Trunc(v, w)]

Source(m, e) == Trunc(IF e.s = NONE THEN e.i ELSE m.reg[e.s], e.w)

\* DX:AX divided by a register, DX:AX as the product of AX and a register.
Divide(m, e) ==
    LET d == Trunc(m.reg[e.d], e.w)
        hi == Trunc(m.reg["DX"], e.w)
        lo == Trunc(m.reg["AX"], e.w)
        s == e.op = "IDIV"
        n == (IF s THEN SignedOf(hi, e.w) ELSE hi) * 2^e.w + lo
        y == IF s THEN SignedOf(d, e.w) ELSE d
        fits == IF s THEN -(2^(e.w - 1)) .. 2^(e.w - 1) - 1 ELSE 0 .. 2^e.w - 1
    IN  IF d = 0 THEN Fault(m)
        ELSE IF Quotient(n, y) \notin fits THEN Fault(m)
        ELSE Set(Set(m, "AX", Trunc(Quotient(n, y), e.w)), "DX", Trunc(Remainder(n, y), e.w))

Multiply(m, e) ==
    LET a == m.reg["AX"]
        d == m.reg[e.d]
        p == IF e.op = "IMUL1" THEN Signed(a) * Signed(d) ELSE a * d
    IN  Set(Set(m, "AX", W(p)), "DX", W(p \div 2^XLEN))

\* One instruction that is not a jump.
Perform(m, e) ==
    CASE e.op \in AluOps -> Set(m, e.d, Alu(e.op, e.w, Trunc(m.reg[e.d], e.w), Source(m, e)))
      [] e.op = "NEG"    -> Set(m, e.d, Trunc(0 - m.reg[e.d], e.w))
      [] e.op = "MOVSX"  -> Set(m, e.d, W(SignedOf(m.reg[e.s], e.w)))
      [] e.op = "MOVZX"  -> Set(m, e.d, Trunc(m.reg[e.s], e.w))
      [] e.op = "LEA"    -> Set(m, e.d, Trunc(m.reg[e.s] + e.i, e.w))
      [] e.op = "LEA_SUM" -> Set(m, e.d, Trunc(m.reg[e.s[1]] + m.reg[e.s[2]], e.w))
      [] e.op = "LEA_SCALED" -> Set(m, e.d, Trunc(m.reg[e.s] * e.i, e.w))
      [] e.op \in {"CMP", "TEST"} ->
            [m EXCEPT !.flags = [x |-> Trunc(m.reg[e.d], e.w), w |-> e.w,
                                 y |-> IF e.op = "TEST" THEN 0 ELSE Source(m, e)]]
      [] e.op \in {"SETL", "SETC"} ->
            Set(m, e.d, m.reg[e.d] - Trunc(m.reg[e.d], BYTE)
                        + If(Holds(IF e.op = "SETL" THEN "L" ELSE "C", m.flags)))
      [] e.op = "CMOV"   -> Set(m, e.d, Trunc(m.reg[IF Holds(e.i, m.flags) THEN e.s ELSE e.d], e.w))
      [] e.op \in {"IMUL1", "MUL1"} -> Multiply(m, e)
      [] e.op \in {"IDIV", "DIV"} -> Divide(m, e)
      [] e.op = "SEP"    -> Set(m, "DX", Trunc(0 - If(SignedOf(m.reg["AX"], e.w) < 0), e.w))
      [] e.op = "LOAD"   -> Set(m, e.d, LoadAt(m, e.s, e.i, e.w))
      [] e.op = "LOADSX" -> Set(m, e.d, W(SignedOf(LoadAt(m, e.s, e.i, e.w), e.w)))
      [] e.op = "STORE"  -> StoreAt(m, e.d, e.i, e.w, m.reg[e.s])
      [] e.op = "RMW"    -> StoreAt(m, e.d, 0, e.w,
                                Alu(e.i, e.w, LoadAt(m, e.d, 0, e.w), Trunc(m.reg[e.s], e.w)))
=============================================================================
