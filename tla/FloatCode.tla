----------------------------- MODULE FloatCode -----------------------------
(***************************************************************************)
(* The host code emitted for a floating point instruction (gen/instr/ext/  *)
(* translate_f_ext.c and translate_d_ext.c), executed on HostMachine with  *)
(* SSE registers, against what the guest instruction computes.  Single and *)
(* double precision emit the same code but for the widths; where they do   *)
(* not, a mnemonic ends in S or D as theirs.                               *)
(*                                                                         *)
(* A floating point register holds a number, counted in halves, or NaN;    *)
(* for sign injection, classification and moves it holds its bits.  The    *)
(* rounding mode is FloatControl's subject: here it is to nearest, or      *)
(* towards zero where the instruction says so (rtz).                       *)
(***************************************************************************)
EXTENDS HostMachine, TLC

CONSTANTS gp_map, fp_map,   \* guest registers with a host register of their own
          FpUnmapped,       \* floating point registers without: FIRST and SECOND stand in
          Forms,            \* [mnem, rs1, rs2, rs3, rd, rtz, at, imm]
          Valuations(_),    \* what the operands of a form may hold
          Stales,           \* what FIRST and SECOND may hold from before
          Cells,            \* what the memory word may hold
          NaN,
          PRECISION,        \* bits of a significand
          MantS, MantD      \* bits of the mantissa in the two formats

gp_mapped == DOMAIN gp_map
fp_mapped == DOMAIN fp_map

VARIABLES form, start, code, ip, m
vars == <<form, start, code, ip, m>>

ArithOps == {"FADD", "FSUB", "FMUL", "FDIV", "FSQRT", "FMIN", "FMAX",
             "FMADD", "FMSUB", "FNMSUB", "FNMADD", "FCVTDS", "FCVTSD"}
SignOps == {"FSGNJS", "FSGNJNS", "FSGNJXS", "FSGNJD", "FSGNJND", "FSGNJXD"}
CompareOps == {"FEQ", "FLT", "FLE"}
ClassOps == {"FCLASSS", "FCLASSD"}
FromFloatOps == {"FCVTW", "FCVTWU", "FCVTL", "FCVTLU", "FMVXW", "FMVXD"}
ToFloatOps == {"FCVTFW", "FCVTFWU", "FCVTFL", "FCVTSLU", "FCVTDLU", "FMVWX", "FMVDX"}
LoadOps == {"FLW", "FLD"}
StoreOps == {"FSW", "FSD"}

\* FCVT.LU subtracts from the register of rs1 itself where that is mapped.
FormsAssumption == \A f \in Forms :
    /\ f.mnem \in ArithOps \cup SignOps \cup CompareOps \cup ClassOps
                  \cup FromFloatOps \cup ToFloatOps \cup LoadOps \cup StoreOps
    /\ f.mnem = "FCVTLU" => f.rs1 \notin fp_mapped

-----------------------------------------------------------------------------
(* Numbers.                                                                *)

\* n to PRECISION significant bits, to nearest, ties to even.
Rounded(n) ==
    LET a == Abs(n)
        e == CHOOSE k \in 0 .. 2 * XLEN : a < 2^(PRECISION + k) /\ (k = 0 \/ a >= 2^(PRECISION + k - 1))
        q == a \div 2^e
        r == 2 * (a % 2^e)
        up == r > 2^e \/ (r = 2^e /\ q % 2 = 1)
        v == (q + If(up)) * 2^e
    IN  IF n < 0 THEN 0 - v ELSE v

\* A number of halves as an integer: to nearest, or truncated.
Nearest(n) == LET q == n \div 2 IN IF n % 2 = 0 \/ q % 2 = 0 THEN q ELSE q + 1
Truncated(n) == Quotient(n, 2)
ToInteger(n, rtz) == IF rtz THEN Truncated(n) ELSE Nearest(n)

\* What has no small value stands for itself: a number no other term gives.
Float(op, x, y) ==
    \* A square root or a conversion does not read the destination.
    IF y = NaN \/ (x = NaN /\ op \notin {"FSQRT", "FCVTDS", "FCVTSD"})
    THEN IF op \in {"FMIN", "FMAX"} THEN y ELSE NaN
    ELSE CASE op = "FADD" -> x + y
           [] op = "FSUB" -> x - y
           [] op = "FMUL" -> x * y
           [] op = "FDIV" -> 10000 + 100 * x + y
           [] op = "FSQRT" -> 5000 + y
           [] op = "FCVTDS" -> y
           [] op = "FCVTSD" -> Rounded(y)
           [] op = "FMIN" -> IF x < y THEN x ELSE y
           [] op = "FMAX" -> IF x > y THEN x ELSE y

\* CVTSS2SI and CVTTSS2SI: the smallest integer stands for "not representable".
Integer(n, rtz, w) ==
    IF n # NaN /\ ToInteger(n, rtz) \in -(2^(w - 1)) .. 2^(w - 1) - 1
    THEN Trunc(ToInteger(n, rtz), w) ELSE 2^(w - 1)

-----------------------------------------------------------------------------
(* HostMachine's instructions and those of SSE.  A comparison with NaN is  *)
(* unordered: its flags are Z, C and P.                                    *)

Unordered == [x |-> NaN, y |-> NaN, w |-> 0]
Flag(cc, f) ==
    IF f = Unordered THEN cc \in {"Z", "C", "P", "ALWAYS"}
    ELSE CASE cc = "P"  -> FALSE
           [] cc = "NZ" -> ~Holds("Z", f)
           [] cc = "NC" -> ~Holds("C", f)
           [] cc = "NP" -> TRUE
           [] cc = "S"  -> ~Holds("NS", f)
           [] OTHER     -> Holds(cc, f)

JumpOps == {"Z", "NZ", "A", "NC", "P", "S", "ALWAYS"}
SetOps == [SETA |-> "A", SETNC |-> "NC", SETNP |-> "NP", SETS |-> "S", SETNS |-> "NS"]

\* The low w bits of register d become v, the others stay.
SetPart(s, d, w, v) == Set(s, d, s.reg[d] - Trunc(s.reg[d], w) + Trunc(v, w))
Count(s, e) == Trunc(s.reg[e.s], BYTE) % (4 * BYTE)

PerformFloat(s, e) ==
    LET x == s.reg[e.d]
        y == s.reg[e.s]
    IN  CASE e.op = "FMOV"  -> Set(s, e.d, y)
          [] e.op = "FZERO" -> Set(s, e.d, 0)
          [] e.op = "FCONST" -> Set(s, e.d, e.i)
          [] e.op \in ArithOps -> Set(s, e.d, Float(e.op, x, y))
          [] e.op = "COMIS" -> [s EXCEPT !.flags =
                IF x = NaN \/ y = NaN THEN Unordered ELSE [x |-> x, y |-> y, w |-> XLEN]]
          [] e.op = "CVT"   -> Set(s, e.d, Integer(y, e.i = 1, e.w))
          [] e.op = "CVTSI" -> Set(s, e.d, Rounded(2 * SignedOf(y, e.w)))
          [] e.op \in DOMAIN SetOps -> SetPart(s, e.d, BYTE, If(Flag(SetOps[e.op], s.flags)))
          [] e.op = "CMOVNZ" -> Set(s, e.d, IF Flag("NZ", s.flags) THEN y ELSE x)
          [] e.op = "NOT"   -> Set(s, e.d, 2^e.w - 1 - Trunc(x, e.w))
          [] e.op = "ROR1"  -> Set(s, e.d, x \div 2 + (x % 2) * 2^(XLEN - 1))
          [] e.op = "BTC"   -> Set(s, e.d, IF x < 2^e.i THEN x + 2^e.i ELSE x - 2^e.i)
          [] e.op = "BTR"   -> Set(s, e.d, IF x < 2^e.i THEN x ELSE x - 2^e.i)
          [] e.op = "DEC8"  -> SetPart(s, e.d, BYTE, x - 1)
          [] e.op = "AND8"  -> SetPart(s, e.d, BYTE, And(x, e.i))
          [] e.op = "SHR8"  -> SetPart(s, e.d, BYTE, Trunc(x, BYTE) \div 2^Count(s, e))
          [] e.op = "SHL8"  -> SetPart(s, e.d, BYTE, x * 2^Count(s, e))
          [] e.op = "SHL16" -> SetPart(s, e.d, SHORT, x * 2^Count(s, e))
          [] e.op \in {"AND", "SHL"} ->   \* these set the flags a jump then reads
                LET t == Perform(s, e)
                IN  [t EXCEPT !.flags = [x |-> t.reg[e.d], y |-> 0, w |-> e.w]]
          [] OTHER -> Perform(s, e)

-----------------------------------------------------------------------------
(* Operands.  An unmapped floating point register has a slot in memory,    *)
(* here a register of its name.                                            *)

getFpRegNoLoad(r, replacement) == IF r \in fp_mapped THEN fp_map[r] ELSE replacement
getFpReg(r, replacement) == IF r \in fp_mapped THEN <<>> ELSE <<RR("FMOV", XLEN, replacement, r)>>
setFpReg(r, used) == IF r \in fp_mapped THEN <<>> ELSE <<RR("FMOV", XLEN, r, used)>>

\* An unmapped integer operand is in a replacement register: rs1 where it was
\* left (at), rd in AX.  The oldest of the others is the scratch register.
regGp(f, r) == IF r \in gp_mapped THEN gp_map[r] ELSE f.at
invalidateOldest(taken) == IF taken = "AX" THEN "DX" ELSE "AX"

FMove(d, s) == IF d = s THEN <<>> ELSE <<RR("FMOV", XLEN, d, s)>>
F(op, d, s) == <<RR(op, XLEN, d, s)>>

\* Either the instructions fall, or (on cc) taken, then what follows.
Branch(cc, fall, taken) ==
    <<Jump(cc, Len(fall) + 1)>> \o fall \o <<Jump("ALWAYS", Len(taken))>> \o taken
SkipIf(cc, fall) == <<Jump(cc, Len(fall))>> \o fall

-----------------------------------------------------------------------------
(* Arithmetic.                                                             *)

doFpArithmCommutative(s1, s2, d, op) ==
    IF d = s1 THEN F(op, s1, s2)
    ELSE IF d = s2 THEN F(op, s2, s1)
    ELSE FMove(d, s1) \o F(op, d, s2)

Commutative(f, op) ==
    LET s1 == getFpRegNoLoad(f.rs1, "FIRST")
        s2 == getFpRegNoLoad(f.rs2, "SECOND")
        d == getFpRegNoLoad(f.rd, "FIRST")
    IN  getFpReg(f.rs1, "FIRST") \o getFpReg(f.rs2, "SECOND")
        \o doFpArithmCommutative(s1, s2, d, op) \o setFpReg(f.rd, d)

\* rs2 out of the way of rd, rs1 into rd, then the operation.
IntoDest(f, op) ==
    LET d == getFpRegNoLoad(f.rd, "FIRST")
        s2 == getFpRegNoLoad(f.rs2, "SECOND")
        saved == IF s2 = d THEN "SECOND" ELSE s2
    IN  getFpReg(f.rs2, "SECOND") \o FMove(saved, s2)
        \o getFpReg(f.rs1, d) \o FMove(d, getFpRegNoLoad(f.rs1, d)) \o F(op, d, saved)

FDIV(f) == IntoDest(f, "FDIV") \o setFpReg(f.rd, getFpRegNoLoad(f.rd, "FIRST"))

FSUB(f) ==
    LET d == getFpRegNoLoad(f.rd, "FIRST")
    IN  (IF f.rd = f.rs1 /\ f.rd = f.rs2 THEN F("FZERO", d, d) ELSE IntoDest(f, "FSUB"))
        \o setFpReg(f.rd, d)

\* FSQRT and the conversions between the two formats.
Unary(f, op) ==
    LET d == getFpRegNoLoad(f.rd, "FIRST")
    IN  getFpReg(f.rs1, "FIRST") \o F(op, d, getFpRegNoLoad(f.rs1, "FIRST")) \o setFpReg(f.rd, d)

\* rs1 times rs2 in SECOND, with FIRST free again.
Product(f) ==
    getFpReg(f.rs1, "SECOND") \o getFpReg(f.rs2, "FIRST")
    \o FMove("SECOND", getFpRegNoLoad(f.rs1, "SECOND"))
    \o F("FMUL", "SECOND", getFpRegNoLoad(f.rs2, "FIRST"))

FMADD(f) ==
    LET d == getFpRegNoLoad(f.rd, "FIRST")
    IN  Product(f) \o getFpReg(f.rs3, d) \o FMove(d, getFpRegNoLoad(f.rs3, d))
        \o F("FADD", d, "SECOND") \o setFpReg(f.rd, d)

FNMSUB(f) ==
    LET d == getFpRegNoLoad(f.rd, "FIRST")
    IN  Product(f) \o getFpReg(f.rs3, "FIRST") \o FMove(d, getFpRegNoLoad(f.rs3, "FIRST"))
        \o F("FSUB", d, "SECOND") \o setFpReg(f.rd, d)

\* d - rs3, for p in register p; an rs3 that is d is first moved to free.
LessRs3(f, d, p, free) ==
    LET s3 == getFpRegNoLoad(f.rs3, free)
    IN  getFpReg(f.rs3, free) \o (IF s3 = d THEN FMove(free, s3) ELSE <<>>)
        \o FMove(d, p) \o F("FSUB", d, IF s3 = d THEN free ELSE s3)

FMSUB(f) ==
    LET d == getFpRegNoLoad(f.rd, "SECOND")
    IN  Product(f) \o LessRs3(f, d, "SECOND", "FIRST") \o setFpReg(f.rd, d)

FNMADD(f) ==
    LET d == getFpRegNoLoad(f.rd, "FIRST")
    IN  Product(f) \o F("FZERO", "FIRST", "FIRST") \o F("FSUB", "FIRST", "SECOND")
        \o LessRs3(f, d, "FIRST", "SECOND") \o setFpReg(f.rd, d)

\* MINSS and MAXSS return the second operand when one is NaN: the other one is
\* tested, and is first where it is rd.
MinMax(f, op) ==
    LET s1 == getFpRegNoLoad(f.rs1, "FIRST")
        s2 == getFpRegNoLoad(f.rs2, "SECOND")
        d == getFpRegNoLoad(f.rd, "FIRST")
    IN  getFpReg(f.rs1, "FIRST") \o getFpReg(f.rs2, "SECOND")
        \o (IF s1 = s2 THEN FMove(d, s1)
            ELSE IF s2 = d THEN F("COMIS", s1, s1) \o SkipIf("P", F(op, d, s1))
            ELSE IF s1 = d THEN F("COMIS", s2, s2) \o SkipIf("P", F(op, d, s2))
            ELSE F("COMIS", s2, s2) \o Branch("P", FMove(d, s1) \o F(op, d, s2), FMove(d, s1)))
        \o setFpReg(f.rd, d)

-----------------------------------------------------------------------------
(* Bits: sign injection, moves, classification.                            *)

SignBit(w) == 2^(w - 1)
NoSign(w) == 2^(w - 1) - 1

\* The two values in FIRST_REG and SECOND_REG, how the sign is made, the merge.
InjectS(f, sign) ==
    LET d == getFpRegNoLoad(f.rd, "FIRST")
    IN  getFpReg(f.rs1, "FIRST") \o getFpReg(f.rs2, "SECOND")
        \o <<RR("MOV", HALF, "AX", getFpRegNoLoad(f.rs1, "FIRST")),
             RR("MOV", HALF, "DX", getFpRegNoLoad(f.rs2, "SECOND"))>>
        \o sign
        \o <<RI("AND", HALF, "AX", NoSign(HALF)), RI("AND", HALF, "DX", SignBit(HALF)),
             RR("OR", HALF, "AX", "DX"), RR("MOV", HALF, d, "AX")>>
        \o setFpReg(f.rd, d)

\* rs1 and rs2 the same: a move.
MoveFloat(f) ==
    LET d == getFpRegNoLoad(f.rd, "FIRST")
    IN  getFpReg(f.rs1, "FIRST") \o FMove(d, getFpRegNoLoad(f.rs1, "FIRST")) \o setFpReg(f.rd, d)

FSGNJS(f) == IF f.rs1 = f.rs2 THEN MoveFloat(f) ELSE InjectS(f, <<>>)
FSGNJNS(f) == InjectS(f, <<R1("NOT", HALF, "DX")>>)
FSGNJXS(f) == InjectS(f, <<RR("XOR", HALF, "DX", "AX")>>)

\* The mask is a one rotated into the sign's place.
InjectD(f, sign) ==
    LET d == getFpRegNoLoad(f.rd, "FIRST")
    IN  getFpReg(f.rs1, "FIRST") \o getFpReg(f.rs2, "SECOND")
        \o <<RR("MOV", XLEN, "AX", getFpRegNoLoad(f.rs1, "FIRST")),
             RR("MOV", XLEN, "CX", getFpRegNoLoad(f.rs2, "SECOND")),
             RI("MOV", XLEN, "DX", 1), R1("ROR1", XLEN, "DX")>>
        \o sign
        \o <<RI("BTR", XLEN, "AX", XLEN - 1), RR("AND", XLEN, "CX", "DX"),
             RR("OR", XLEN, "AX", "CX"), RR("MOV", XLEN, d, "AX")>>
        \o setFpReg(f.rd, d)

FSGNJD(f) == IF f.rs1 = f.rs2 THEN MoveFloat(f) ELSE InjectD(f, <<>>)
FSGNJND(f) == InjectD(f, <<R1("NOT", XLEN, "CX")>>)

FSGNJXD(f) == InjectD(f, <<RR("XOR", XLEN, "CX", "AX")>>)

\* A class for positive values, shifted right by n when CX says negative.
Shifted(d, class, n) ==
    <<RI("MOV", XLEN, d, class), R1("DEC8", BYTE, "CX"), RI("AND8", BYTE, "CX", n),
      RR("SHR8", BYTE, d, "CX")>>

\* By exponent: all zeroes, all ones, or neither; test puts the sign into CX
\* where it is not there yet; cmp compares rd with an exponent of all ones.
Classify(d, w, mant, cmp, test) ==
    LET zero == <<RI("MOV", XLEN, d, 8), RR("SHL8", BYTE, d, "CX")>>
        nan == <<R1("TEST", w, "DX"), RI("MOV", XLEN, d, 256), R1("SETS", BYTE, "CX"),
                 RR("SHL16", SHORT, d, "CX")>>
        mantissa == test \o <<RI("SHL", w, "DX", w - mant)>>
        zeroes == mantissa \o Branch("NZ", zero, Shifted(d, 32, 3))
        ones == mantissa \o Branch("NZ", Shifted(d, 128, 7), nan)
    IN  Branch("Z", <<cmp>> \o Branch("Z", test \o Shifted(d, 64, 5), ones), zeroes)

Sign(w) == <<R1("TEST", w, "DX"), R1("SETNS", BYTE, "CX")>>

FCLASSS(f) ==
    LET d == regGp(f, f.rd)
        ones == 2^(HALF - 1) - 2^MantS
    IN  getFpReg(f.rs1, "FIRST")
        \o <<RR("MOV", XLEN, d, getFpRegNoLoad(f.rs1, "FIRST")), RR("MOV", XLEN, "DX", d)>>
        \o Sign(HALF) \o <<RI("AND", HALF, d, ones)>>
        \o Classify(d, HALF, MantS, RI("CMP", HALF, d, ones), <<>>)

FCLASSD(f) ==
    LET d == regGp(f, f.rd)
        ones == 2^(XLEN - 1) - 2^MantD
    IN  getFpReg(f.rs1, "FIRST")
        \o <<RR("MOV", XLEN, d, getFpRegNoLoad(f.rs1, "FIRST")), RR("MOV", XLEN, "DX", d),
             RI("MOV", XLEN, "CX", ones), RR("AND", XLEN, d, "CX")>>
        \o Classify(d, XLEN, MantD, RR("CMP", XLEN, d, "CX"), Sign(XLEN))

FMVXW(f) ==
    LET d == regGp(f, f.rd)
    IN  getFpReg(f.rs1, "FIRST")
        \o <<RR("MOV", HALF, d, getFpRegNoLoad(f.rs1, "FIRST")), RR("MOVSX", HALF, d, d)>>

FMVXD(f) == getFpReg(f.rs1, "FIRST") \o <<RR("MOV", XLEN, regGp(f, f.rd), getFpRegNoLoad(f.rs1, "FIRST"))>>

FMoveFromGp(f, w) ==
    LET d == getFpRegNoLoad(f.rd, "FIRST")
    IN  <<RR("MOV", w, d, regGp(f, f.rs1))>> \o setFpReg(f.rd, d)

FLoad(f, w) ==
    LET d == getFpRegNoLoad(f.rd, "FIRST")
    IN  <<Ins("LOAD", w, d, regGp(f, f.rs1), f.imm)>> \o setFpReg(f.rd, d)

FStore(f, w) ==
    getFpReg(f.rs2, "FIRST") \o <<Ins("STORE", w, regGp(f, f.rs1), getFpRegNoLoad(f.rs2, "FIRST"), f.imm)>>

-----------------------------------------------------------------------------
(* Comparisons and conversions.                                            *)

\* The operands of a comparison in the order that makes unordered "not below".
FCompare(f, swapped, set) ==
    LET s1 == getFpRegNoLoad(f.rs1, "FIRST")
        s2 == getFpRegNoLoad(f.rs2, "SECOND")
        d == regGp(f, f.rd)
    IN  getFpReg(f.rs1, "FIRST") \o getFpReg(f.rs2, "SECOND")
        \o <<RR("XOR", HALF, d, d)>>
        \o (IF swapped THEN F("COMIS", s2, s1) ELSE F("COMIS", s1, s2))
        \o set

FEQ(f) ==
    LET scratch == invalidateOldest(regGp(f, f.rd))
    IN  FCompare(f, FALSE, <<RI("MOV", XLEN, scratch, 0), R1("SETNP", BYTE, regGp(f, f.rd)),
                             RR("CMOVNZ", XLEN, regGp(f, f.rd), scratch)>>)
FLT(f) == FCompare(f, TRUE, <<R1("SETA", BYTE, regGp(f, f.rd))>>)
FLE(f) == FCompare(f, TRUE, <<R1("SETNC", BYTE, regGp(f, f.rd))>>)

Convert(f, w, d, s) == <<Ins("CVT", w, d, s, If(f.rtz))>>

FCVTW(f) ==
    LET d == regGp(f, f.rd)
    IN  getFpReg(f.rs1, "FIRST") \o Convert(f, HALF, d, getFpRegNoLoad(f.rs1, "FIRST"))
        \o <<RR("MOVSX", HALF, d, d)>>

FCVTL(f) ==
    getFpReg(f.rs1, "FIRST") \o Convert(f, XLEN, regGp(f, f.rd), getFpRegNoLoad(f.rs1, "FIRST"))

\* What is below zero gives zero; it is FIRST that is compared.
ZeroUnless(d, nonNegative) ==
    <<R1("FZERO", XLEN, "SECOND"), RR("XOR", XLEN, d, d), RR("COMIS", XLEN, "SECOND", "FIRST")>>
    \o SkipIf("A", nonNegative)

FCVTWU(f) ==
    LET d == regGp(f, f.rd)
    IN  getFpReg(f.rs1, "FIRST")
        \o ZeroUnless(d, <<R1("FZERO", XLEN, "SECOND")>> \o Convert(f, XLEN, d, getFpRegNoLoad(f.rs1, "FIRST")))

\* Mutant: the constant is loaded into a register that was not given up.
FCVTLUAnyScratch(f) ==
    LET d == regGp(f, f.rd)
        s == getFpRegNoLoad(f.rs1, "FIRST")
    IN  getFpReg(f.rs1, "FIRST")
        \o ZeroUnless(d,
            <<RI("MOV", XLEN, "CX", 0), Ins("FCONST", XLEN, "SECOND", "CX", 2^XLEN),
              RR("COMIS", XLEN, s, "SECOND")>>
            \o Branch("NC", Convert(f, XLEN, d, s),
                      F("FSUB", s, "SECOND") \o Convert(f, XLEN, d, s)
                      \o <<RI("BTC", XLEN, d, XLEN - 1)>>))

\* C0, the number 2^(XLEN - 1), is subtracted from what is not below it.
FCVTLU(f) ==
    LET d == regGp(f, f.rd)
        s == getFpRegNoLoad(f.rs1, "FIRST")
        scratch == invalidateOldest(d)
    IN  getFpReg(f.rs1, "FIRST")
        \o ZeroUnless(d,
            <<RI("MOV", XLEN, scratch, 0), Ins("FCONST", XLEN, "SECOND", scratch, 2^XLEN),
              RR("COMIS", XLEN, s, "SECOND")>>
            \o Branch("NC", Convert(f, XLEN, d, s),
                      F("FSUB", s, "SECOND") \o Convert(f, XLEN, d, s)
                      \o <<RI("BTC", XLEN, d, XLEN - 1)>>))

FromSigned(f, w) ==
    LET d == getFpRegNoLoad(f.rd, "FIRST")
    IN  F("FZERO", d, d) \o <<RR("CVTSI", w, d, regGp(f, f.rs1))>> \o setFpReg(f.rd, d)

FromUnsignedWord(f) ==
    LET d == getFpRegNoLoad(f.rd, "FIRST")
        scratch == invalidateOldest(regGp(f, f.rs1))
    IN  <<RR("MOV", HALF, scratch, regGp(f, f.rs1))>>
        \o F("FZERO", d, d) \o <<RR("CVTSI", XLEN, d, scratch)>> \o setFpReg(f.rd, d)

\* rs1 in both AX and DX, whichever it was in.
Doubled(s) ==
    CASE s = "AX" -> <<RR("MOV", XLEN, "DX", s), RR("MOV", XLEN, "AX", "DX")>>
      [] s = "DX" -> <<RR("MOV", XLEN, "AX", s), RR("MOV", XLEN, "DX", "AX")>>
      [] OTHER    -> <<RR("MOV", XLEN, "AX", s), RR("MOV", XLEN, "DX", s)>>

\* Half of it, the bit that is lost kept as a sticky bit, converted and doubled.
Halved(d) ==
    <<RI("SHR", XLEN, "DX", 1), RR("OR", XLEN, "DX", "AX"), RR("CVTSI", XLEN, d, "DX"),
      RR("FADD", XLEN, d, d)>>

FCVTSLU(f) ==
    LET d == getFpRegNoLoad(f.rd, "FIRST")
        s == regGp(f, f.rs1)
    IN  Doubled(s) \o F("FZERO", d, d) \o <<R1("TEST", XLEN, s)>>
        \o Branch("S", <<RR("CVTSI", XLEN, d, s)>>,
                  <<RI("AND", HALF, "AX", 1), R1("FZERO", XLEN, "FIRST")>> \o Halved(d))
        \o setFpReg(f.rd, d)

FCVTDLU(f) ==
    LET d == getFpRegNoLoad(f.rd, "FIRST")
    IN  Doubled(regGp(f, f.rs1)) \o F("FZERO", d, d) \o <<R1("TEST", XLEN, "AX")>>
        \o Branch("S", <<RR("CVTSI", XLEN, d, "AX")>>, <<RI("AND", HALF, "AX", 1)>> \o Halved(d))
        \o setFpReg(f.rd, d)

Emission(f) ==
    CASE f.mnem \in {"FADD", "FMUL"}  -> Commutative(f, f.mnem)
      [] f.mnem = "FSUB" -> FSUB(f)     [] f.mnem = "FDIV" -> FDIV(f)
      [] f.mnem \in {"FSQRT", "FCVTDS", "FCVTSD"} -> Unary(f, f.mnem)
      [] f.mnem \in {"FMIN", "FMAX"}  -> MinMax(f, f.mnem)
      [] f.mnem = "FMADD" -> FMADD(f)   [] f.mnem = "FMSUB" -> FMSUB(f)
      [] f.mnem = "FNMADD" -> FNMADD(f) [] f.mnem = "FNMSUB" -> FNMSUB(f)
      [] f.mnem = "FSGNJS" -> FSGNJS(f) [] f.mnem = "FSGNJD" -> FSGNJD(f)
      [] f.mnem = "FSGNJNS" -> FSGNJNS(f) [] f.mnem = "FSGNJND" -> FSGNJND(f)
      [] f.mnem = "FSGNJXS" -> FSGNJXS(f) [] f.mnem = "FSGNJXD" -> FSGNJXD(f)
      [] f.mnem = "FCLASSS" -> FCLASSS(f) [] f.mnem = "FCLASSD" -> FCLASSD(f)
      [] f.mnem = "FEQ" -> FEQ(f) [] f.mnem = "FLT" -> FLT(f) [] f.mnem = "FLE" -> FLE(f)
      [] f.mnem = "FCVTW" -> FCVTW(f)   [] f.mnem = "FCVTWU" -> FCVTWU(f)
      [] f.mnem = "FCVTL" -> FCVTL(f)   [] f.mnem = "FCVTLU" -> FCVTLU(f)
      [] f.mnem = "FCVTFW" -> FromSigned(f, HALF) [] f.mnem = "FCVTFL" -> FromSigned(f, XLEN)
      [] f.mnem = "FCVTFWU" -> FromUnsignedWord(f)
      [] f.mnem = "FCVTSLU" -> FCVTSLU(f) [] f.mnem = "FCVTDLU" -> FCVTDLU(f)
      [] f.mnem = "FMVXW" -> FMVXW(f)   [] f.mnem = "FMVXD" -> FMVXD(f)
      [] f.mnem = "FMVWX" -> FMoveFromGp(f, HALF) [] f.mnem = "FMVDX" -> FMoveFromGp(f, XLEN)
      [] f.mnem = "FLW" -> FLoad(f, HALF)  [] f.mnem = "FLD" -> FLoad(f, XLEN)
      [] f.mnem = "FSW" -> FStore(f, HALF) [] f.mnem = "FSD" -> FStore(f, XLEN)

-----------------------------------------------------------------------------
(* The host executes the code.                                             *)

GpDests == CompareOps \cup ClassOps \cup FromFloatOps
GpSources == ToFloatOps \cup LoadOps \cup StoreOps
FpSources(f) == (IF f.mnem \in ToFloatOps \cup LoadOps THEN {}
                 ELSE IF f.mnem \in StoreOps THEN {f.rs2}
                 ELSE {f.rs1, f.rs2, f.rs3}) \ {""}

fpPlace(r) == getFpRegNoLoad(r, r)
Dest(f) == IF f.mnem \in GpDests THEN regGp(f, f.rd) ELSE fpPlace(f.rd)

Fps == {fp_map[r] : r \in fp_mapped} \cup FpUnmapped
Hosts == {"AX", "DX", "CX", "FIRST", "SECOND"} \cup {gp_map[r] : r \in gp_mapped} \cup Fps

\* val gives the sources their values.
HostWith(f, val, stale, cell) ==
    LET at(r) == IF r \in FpSources(f) THEN fpPlace(r) ELSE regGp(f, r)
        held(h) == {r \in DOMAIN val : at(r) = h}
    IN  [reg |-> [h \in Hosts |-> IF h \in {"FIRST", "SECOND"} THEN stale
                                  ELSE IF held(h) = {} THEN 1
                                  ELSE val[CHOOSE r \in held(h) : TRUE]],
         mem |-> IF f.mnem \in LoadOps \cup StoreOps THEN W(val[f.rs1] + f.imm) :> cell ELSE <<>>,
         flags |-> [x |-> 0, y |-> 0, w |-> XLEN],
         fault |-> FALSE]

Init ==
    /\ form \in Forms
    /\ \E val \in Valuations(form), stale \in Stales, cell \in Cells :
          start = HostWith(form, val, stale, cell)
    /\ code = Emission(form) /\ ip = 1
    /\ m = start

Step ==
    /\ ip <= Len(code)
    /\ code[ip].op \notin JumpOps
    /\ m' = PerformFloat(m, code[ip])
    /\ ip' = ip + 1
    /\ UNCHANGED <<form, start, code>>

StepJump ==
    /\ ip <= Len(code)
    /\ code[ip].op \in JumpOps
    /\ ip' = ip + 1 + (IF Flag(code[ip].op, m.flags) THEN code[ip].i ELSE 0)
    /\ UNCHANGED <<form, start, code, m>>

Next == Step \/ StepJump
Spec == Init /\ [][Next]_vars

-----------------------------------------------------------------------------
(* What the guest instruction computes, from the RISC-V specification.     *)

\* IEEE minimumNumber and maximumNumber.
Lesser(x, y) == IF x = NaN THEN y ELSE IF y = NaN \/ x < y THEN x ELSE y
Greater(x, y) == IF x = NaN THEN y ELSE IF y = NaN \/ x > y THEN x ELSE y

\* An integer in lo .. hi, the nearest of them, hi for NaN.
Clipped(n, rtz, lo, hi) ==
    IF n = NaN THEN hi
    ELSE LET i == ToInteger(n, rtz) IN IF i < lo THEN lo ELSE IF i > hi THEN hi ELSE i

\* The class of a bit pattern, of w bits with mant of them mantissa.
ClassOf(v, w, mant) ==
    LET bits == Trunc(v, w)
        negative == bits >= 2^(w - 1)
        exponent == (bits % 2^(w - 1)) \div 2^mant
        mantissa == bits % 2^mant
    IN  CASE exponent = 2^(w - 1 - mant) - 1 /\ mantissa # 0 ->
                  IF mantissa >= 2^(mant - 1) THEN 2^9 ELSE 2^8
          [] exponent = 2^(w - 1 - mant) - 1 /\ mantissa = 0 -> IF negative THEN 2^0 ELSE 2^7
          [] exponent = 0 /\ mantissa = 0 -> IF negative THEN 2^3 ELSE 2^4
          [] exponent = 0 /\ mantissa # 0 -> IF negative THEN 2^2 ELSE 2^5
          [] OTHER -> IF negative THEN 2^1 ELSE 2^6

\* The value with the magnitude of a and the sign bit s.
WithSign(a, s, w) == (a % 2^(w - 1)) + s * 2^(w - 1)
SignOf(a, w) == Trunc(a, w) \div 2^(w - 1)

Computes(f, a, b, c) ==
    LET mn == f.mnem IN
    CASE mn \in {"FADD", "FSUB", "FMUL", "FDIV"} -> Float(mn, a, b)
      [] mn \in {"FSQRT", "FCVTDS", "FCVTSD"} -> Float(mn, a, a)
      [] mn = "FMIN" -> Lesser(a, b)
      [] mn = "FMAX" -> Greater(a, b)
      [] mn = "FMADD" -> Float("FADD", Float("FMUL", a, b), c)
      [] mn = "FMSUB" -> Float("FSUB", Float("FMUL", a, b), c)
      [] mn = "FNMSUB" -> Float("FSUB", c, Float("FMUL", a, b))
      [] mn = "FNMADD" -> Float("FSUB", Float("FSUB", 0, Float("FMUL", a, b)), c)
      [] mn = "FEQ" -> If(a # NaN /\ a = b)
      [] mn = "FLT" -> IF NaN \in {a, b} THEN 0 ELSE If(a < b)
      [] mn = "FLE" -> IF NaN \in {a, b} THEN 0 ELSE If(a <= b)
      [] mn = "FSGNJS" -> WithSign(a, SignOf(b, HALF), HALF)
      [] mn = "FSGNJNS" -> WithSign(a, 1 - SignOf(b, HALF), HALF)
      [] mn = "FSGNJXS" -> WithSign(a, If(SignOf(a, HALF) # SignOf(b, HALF)), HALF)
      [] mn = "FSGNJD" -> WithSign(a, SignOf(b, XLEN), XLEN)
      [] mn = "FSGNJND" -> WithSign(a, 1 - SignOf(b, XLEN), XLEN)
      [] mn = "FSGNJXD" -> WithSign(a, If(SignOf(a, XLEN) # SignOf(b, XLEN)), XLEN)
      [] mn = "FCLASSS" -> ClassOf(a, HALF, MantS)
      [] mn = "FCLASSD" -> ClassOf(a, XLEN, MantD)
      [] mn = "FMVXW" -> W(SignedLow(a))
      [] mn = "FMVWX" -> Trunc(a, HALF)
      [] mn \in {"FMVXD", "FMVDX"} -> a
      [] mn = "FCVTW" -> W(Clipped(a, f.rtz, -(2^(HALF - 1)), 2^(HALF - 1) - 1))
      [] mn = "FCVTWU" -> Clipped(a, f.rtz, 0, 2^HALF - 1)
      [] mn = "FCVTL" -> W(Clipped(a, f.rtz, -(2^(XLEN - 1)), 2^(XLEN - 1) - 1))
      [] mn = "FCVTLU" -> Clipped(a, f.rtz, 0, 2^XLEN - 1)
      [] mn = "FCVTFW" -> Rounded(2 * SignedOf(a, HALF))
      [] mn = "FCVTFWU" -> Rounded(2 * Trunc(a, HALF))
      [] mn = "FCVTFL" -> Rounded(2 * Signed(a))
      [] mn \in {"FCVTSLU", "FCVTDLU"} -> Rounded(2 * a)

\* A single precision result is the lower half of its register.
OfHalf == {"FSGNJS", "FSGNJNS", "FSGNJXS"}

Operand(r) == IF r = "" THEN 0 ELSE start.reg[fpPlace(r)]
Operand1 == IF form.mnem \in GpSources THEN start.reg[regGp(form, form.rs1)] ELSE Operand(form.rs1)
Cell == W(Operand1 + form.imm)

Result ==
    CASE form.mnem = "FLW" -> Trunc(start.mem[Cell], HALF)
      [] form.mnem = "FLD" -> start.mem[Cell]
      [] OTHER -> Computes(form, Operand1, Operand(form.rs2), Operand(form.rs3))

StoredWidth == IF form.mnem = "FSW" THEN HALF ELSE XLEN

-----------------------------------------------------------------------------
Done == ip = Len(code) + 1

\* When the emitted code has run, rd (or memory) holds what the guest instruction
\* computes, whichever operands are mapped or the same, and for NaN in arithmetic
\* and comparison (the "Description" of each translate_F*).  It does not for every
\* operand: conversions of NaN and of numbers out of range, FCVT.WU from the sign
\* bit on or of a mapped register, fused operations that round, FSUB of a register
\* with itself are left out of the instance and listed in README.md (Divergences).
ComputesResult == Done =>
    IF form.mnem \in StoreOps
    THEN m.mem[Cell] = start.mem[Cell] - Trunc(start.mem[Cell], StoredWidth)
                       + Trunc(Operand(form.rs2), StoredWidth)
    ELSE IF form.mnem \in OfHalf THEN Trunc(m.reg[Dest(form)], HALF) = Result
    ELSE m.reg[Dest(form)] = Result

\* The integer registers an emission invalidates before it uses them.
GivenUp ==
    CASE form.mnem \in ClassOps \cup SignOps -> {"AX", "DX", "CX"}
      [] form.mnem \in {"FCVTSLU", "FCVTDLU"} -> {"AX", "DX"}
      [] form.mnem \in {"FEQ", "FCVTLU"} -> {invalidateOldest(regGp(form, form.rd))}
      [] form.mnem = "FCVTFWU" -> {invalidateOldest(regGp(form, form.rs1))}
      [] OTHER -> {}

\* No emitted code changes a register of the guest other than rd, be it mapped,
\* in its slot or in a replacement register (the operands of translate_F*).
OthersKept == Done =>
    \A h \in Hosts \ ({"FIRST", "SECOND", Dest(form)} \cup GivenUp) : m.reg[h] = start.reg[h]
=============================================================================
