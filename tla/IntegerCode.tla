---------------------------- MODULE IntegerCode ----------------------------
(***************************************************************************)
(* The host code emitted for an integer instruction (gen/instr/core/       *)
(* translate_arithmetic.c, translate_loadstore.c, ext/translate_m_ext.c,   *)
(* ext/translate_a_ext.c), executed on HostMachine, against what the guest *)
(* instruction computes.                                                   *)
(*                                                                         *)
(* Each emission is a sequence of host instructions that depends on which  *)
(* of its operands share a host register.  Where the operands are placed   *)
(* is Replacements' subject; here they are where a block that starts with  *)
(* the instruction finds them.                                             *)
(***************************************************************************)
EXTENDS HostMachine, FiniteSets, TLC

CONSTANTS gp_map,    \* guest registers with a host register of their own
          Unmapped,  \* guest registers without
          Forms,     \* instructions: [mnem, rs1, rs2, rd, imm]
          Values,    \* what the operands may hold
          Cells,     \* what the memory word may hold
          Admits(_, _, _)   \* an instruction's values of rs1 and rs2

gp_mapped == DOMAIN gp_map
Regs == gp_mapped \cup Unmapped

ImmOps == {"ADDI", "ADDIW", "SLTI", "SLTIU", "XORI", "ORI", "ANDI", "SLLI", "SRLI", "SRAI",
           "SLLIW", "SRLIW", "SRAIW"}
RegOps == {"ADD", "ADDW", "SUB", "SUBW", "SLT", "SLTU", "XOR", "OR", "AND", "MUL", "MULW"}
ShiftOps == {"SLL", "SRL", "SRA", "SLLW", "SRLW", "SRAW"}
MulHighOps == {"MULH", "MULHU", "MULHSU"}
DivOps == {"DIV", "DIVU", "REM", "REMU", "DIVW", "DIVUW", "REMW", "REMUW"}
LoadOps == {"LB", "LH", "LW", "LBU", "LHU", "LWU", "LD", "LRW", "LRD"}
StoreOps == {"SB", "SH", "SW", "SD", "SCW", "SCD"}
AmoOps == {"AMOSWAPW", "AMOADDW", "AMOXORW", "AMOANDW", "AMOORW",
           "AMOSWAPD", "AMOADDD", "AMOXORD", "AMOANDD", "AMOORD"}
MinMaxOps == {"AMOMINW", "AMOMAXW", "AMOMINUW", "AMOMAXUW",
              "AMOMIND", "AMOMAXD", "AMOMINUD", "AMOMAXUD"}

\* The operations on the lower half, whose results are sign-extended.
WOps == {"ADDIW", "SLLIW", "SRLIW", "SRAIW", "ADDW", "SUBW", "MULW", "SLLW", "SRLW", "SRAW",
         "DIVW", "DIVUW", "REMW", "REMUW", "LRW", "SCW",
         "AMOSWAPW", "AMOADDW", "AMOXORW", "AMOANDW", "AMOORW",
         "AMOMINW", "AMOMAXW", "AMOMINUW", "AMOMAXUW"}
Width(mn) == IF mn \in WOps THEN HALF ELSE XLEN

\* The mapped registers have host registers of their own.
ASSUME MapAssumption ==
    /\ gp_mapped \cap Unmapped = {}
    /\ \A r \in gp_mapped : gp_map[r] \notin {NONE, "AX", "DX", "CX", "SP", "SWAP", "FILE"}
    /\ \A q, r \in gp_mapped : gp_map[q] = gp_map[r] => q = r

\* An address has an offset in plain loads and stores only.  Without the operand
\* combinations that Replacements finds misread: one unmapped register asked for
\* in two places.
ASSUME FormsAssumption == \A f \in Forms :
    /\ f.mnem \in ImmOps \cup RegOps \cup ShiftOps \cup MulHighOps \cup DivOps
                  \cup LoadOps \cup StoreOps \cup AmoOps \cup MinMaxOps
    /\ {f.rs1, f.rs2, f.rd} \subseteq Regs /\ f.imm \in Int
    /\ f.mnem \in {"LRW", "LRD", "SCW", "SCD"} \cup AmoOps \cup MinMaxOps => f.imm = 0
    /\ f.mnem \in MulHighOps \cup DivOps \cup MinMaxOps => f.rs1 # f.rs2 \/ f.rs1 \in gp_mapped

ASSUME ValuesAssumption == Values \subseteq Word /\ Cells \subseteq Word

VARIABLES form,   \* the instruction
          start,  \* the host when its code is entered
          code, ip, m

vars == <<form, start, code, ip, m>>

-----------------------------------------------------------------------------
(* Where the operands are.                                                 *)

\* Unmapped operands, in the order they are asked for, get AX, DX, CX.
Order(f) == CASE f.mnem \in ShiftOps   -> <<f.rs2, f.rs1, f.rd>>
              [] OTHER                 -> <<f.rs1, f.rs2, f.rd>>

FirstAt(s, r) == CHOOSE k \in 1 .. Len(s) : s[k] = r /\ \A l \in 1 .. k - 1 : s[l] # r
Asked(s) == {s[k] : k \in 1 .. Len(s)}
Before(s, r) == {q \in Asked(s) \ gp_mapped : FirstAt(s, q) < FirstAt(s, r)}

\* rs2 is in CX for a shift, in DX for AMOMIN and AMOMAX; multiplications and
\* divisions have rs1 in AX and rs2 in CX and put an unmapped rd into AX.
Place(f, r) ==
    IF r \in gp_mapped THEN gp_map[r]
    ELSE CASE f.mnem \in ShiftOps ->
                  IF r = f.rs2 THEN "CX"
                  ELSE IF Before(Order(f), r) \subseteq {f.rs2} THEN "AX" ELSE "DX"
           [] f.mnem \in MinMaxOps ->
                  IF r = f.rs2 THEN "DX"
                  ELSE IF Before(Order(f), r) \subseteq {f.rs2} THEN "AX" ELSE "CX"
           [] f.mnem \in MulHighOps \cup DivOps -> IF r = f.rs2 THEN "CX" ELSE "AX"
           [] OTHER -> <<"AX", "DX", "CX">>[Cardinality(Before(Order(f), r)) + 1]

regSrc1(f) == IF f.mnem \in MulHighOps \cup DivOps THEN "AX" ELSE Place(f, f.rs1)
regSrc2(f) == CASE f.mnem \in ShiftOps \cup MulHighOps \cup DivOps -> "CX"
                [] f.mnem \in MinMaxOps -> "DX"
                [] OTHER -> Place(f, f.rs2)

\* A shift whose rd is the unmapped rs2 writes it elsewhere, and not over rs1.
regDest(f) ==
    IF f.mnem \in ShiftOps /\ Place(f, f.rd) = "CX" /\ f.rd # f.rs1
    THEN IF Place(f, f.rs1) = "AX" THEN "DX" ELSE "AX"
    ELSE Place(f, f.rd)

-----------------------------------------------------------------------------
(* The emissions, for s1, s2, d: the host registers of the operands.       *)

SignExtend(d) == <<RR("MOVSX", HALF, d, d)>>
MoveIfOther(w, d, s) == IF d = s THEN <<>> ELSE <<RR("MOV", w, d, s)>>

AddImm(w, d, s1, imm) ==
    IF d # s1 THEN <<Ins("LEA", w, d, s1, imm)>>
    ELSE IF imm # 0 THEN <<RI("ADD", w, d, imm)>> ELSE <<>>

\* The shifts by 1, 2 and 3 to another register are a scaled index.
ShiftLeftImm(w, d, s1, n) ==
    IF d # s1 /\ n \in {1, 2, 3} THEN <<Ins("LEA_SCALED", w, d, s1, 2^n)>>
    ELSE MoveIfOther(w, d, s1) \o <<RI("SHL", w, d, n)>>

\* A mask whose upper half is zero needs the lower half only.
AndImm(d, s1, imm) ==
    LET w == IF W(imm) < 2^HALF THEN HALF ELSE XLEN
    IN  MoveIfOther(w, d, s1) \o <<RI("AND", w, d, imm)>>

SetIf(set, d) == <<R1(set, BYTE, d), RR("MOVZX", BYTE, d, d)>>

OpImm(op, w, d, s1, imm) == MoveIfOther(w, d, s1) \o <<RI(op, w, d, imm)>>

ImmCode(mn, d, s1, imm) ==
    CASE mn = "ADDI"  -> AddImm(XLEN, d, s1, imm)
      [] mn = "ADDIW" -> AddImm(HALF, d, s1, imm) \o SignExtend(d)
      [] mn = "SLTI"  -> <<RI("CMP", XLEN, s1, imm)>> \o SetIf("SETL", d)
      [] mn = "SLTIU" -> <<RI("CMP", XLEN, s1, imm)>> \o SetIf("SETC", d)
      [] mn = "XORI"  -> OpImm("XOR", XLEN, d, s1, imm)
      [] mn = "ORI"   -> OpImm("OR", XLEN, d, s1, imm)
      [] mn = "ANDI"  -> AndImm(d, s1, imm)
      [] mn = "SLLI"  -> ShiftLeftImm(XLEN, d, s1, imm % XLEN)
      [] mn = "SRLI"  -> OpImm("SHR", XLEN, d, s1, imm % XLEN)
      [] mn = "SRAI"  -> OpImm("SAR", XLEN, d, s1, imm % XLEN)
      [] mn = "SLLIW" -> ShiftLeftImm(HALF, d, s1, imm % HALF) \o SignExtend(d)
      [] mn = "SRLIW" -> OpImm("SHR", HALF, d, s1, imm % HALF) \o SignExtend(d)
      [] mn = "SRAIW" -> OpImm("SAR", HALF, d, s1, imm % HALF) \o SignExtend(d)

doArithmCommutative(op, w, d, s1, s2) ==
    IF d = s1 THEN <<RR(op, w, s1, s2)>>
    ELSE IF d = s2 THEN <<RR(op, w, s2, s1)>>
    ELSE <<RR("MOV", XLEN, d, s1), RR(op, w, d, s2)>>

Add(w, d, s1, s2) ==
    IF d \notin {s1, s2} THEN <<Ins("LEA_SUM", w, d, <<s1, s2>>, 0)>>
    ELSE doArithmCommutative("ADD", w, d, s1, s2)

Subtract(w, d, s1, s2) ==
    IF d # s2 THEN doArithmCommutative("SUB", w, d, s1, s2)
    ELSE IF d = s1 THEN <<RR("XOR", HALF, d, d)>>
    ELSE <<R1("NEG", w, s2), RR("ADD", w, s2, s1)>>

RegCode(mn, d, s1, s2) ==
    CASE mn = "ADD"  -> Add(XLEN, d, s1, s2)
      [] mn = "ADDW" -> Add(HALF, d, s1, s2) \o SignExtend(d)
      [] mn = "SUB"  -> Subtract(XLEN, d, s1, s2)
      [] mn = "SUBW" -> Subtract(HALF, d, s1, s2) \o SignExtend(d)
      [] mn = "SLT"  -> <<RR("CMP", XLEN, s1, s2)>> \o SetIf("SETL", d)
      [] mn = "SLTU" -> <<RR("CMP", XLEN, s1, s2)>> \o SetIf("SETC", d)
      [] mn \in {"XOR", "OR", "AND"} -> doArithmCommutative(mn, XLEN, d, s1, s2)
      [] mn = "MUL"  -> doArithmCommutative("IMUL", XLEN, d, s1, s2)
      [] mn = "MULW" -> doArithmCommutative("IMUL", HALF, d, s1, s2) \o SignExtend(d)

ShiftOp(mn) == CASE mn \in {"SLL", "SLLW"} -> "SHL"
                 [] mn \in {"SRL", "SRLW"} -> "SHR"
                 [] mn \in {"SRA", "SRAW"} -> "SAR"

ShiftCode(mn, d, s1, s2) ==
    MoveIfOther(Width(mn), d, s1) \o <<RR(ShiftOp(mn), Width(mn), d, s2)>>
    \o (IF mn \in WOps THEN SignExtend(d) ELSE <<>>)

-----------------------------------------------------------------------------
(* The M extension: AX holds rs1, CX holds rs2.                            *)

\* rs1: where the value of rs1 still is after AX is overwritten.
MulHighCode(mn, d, rs1) ==
    <<R1(IF mn = "MULHU" THEN "MUL1" ELSE "IMUL1", XLEN, "CX")>>
    \o (IF mn # "MULHSU" THEN <<>>
        ELSE <<R1("TEST", XLEN, "CX"), Jump("NS", 1), RR("ADD", XLEN, "DX", rs1)>>)
    \o MoveIfOther(XLEN, d, "DX")

IsSigned(mn) == mn \in {"DIV", "REM", "DIVW", "REMW"}
IsQuotient(mn) == mn \in {"DIV", "DIVU", "DIVW", "DIVUW"}

\* The dividend is sign-extended or zero-extended into DX.
DivideBy(mn, w) ==
    IF IsSigned(mn) THEN <<R1("SEP", w, "DX"), R1("IDIV", w, "CX")>>
    ELSE <<RR("XOR", HALF, "DX", "DX"), R1("DIV", w, "CX")>>

\* Mutant: the divisor is not tested for zero.
Div64Untested(mn, d) ==
    DivideBy(mn, XLEN) \o MoveIfOther(XLEN, d, IF IsQuotient(mn) THEN "AX" ELSE "DX")

Div64(mn, d) ==
    LET result == IF IsQuotient(mn) THEN "AX" ELSE "DX"
        byZero == IF IsQuotient(mn) THEN RI("MOV", XLEN, "AX", -1) ELSE RR("MOV", XLEN, "DX", "AX")
    IN  <<R1("TEST", XLEN, "CX"), Jump("Z", 3)>> \o DivideBy(mn, XLEN)
        \o <<Jump("ALWAYS", 1), byZero>> \o MoveIfOther(XLEN, d, result)

\* Mutant: the remainder of a division by zero is not sign-extended.
Div32ZeroExtends(mn, d) ==
    LET result == IF IsQuotient(mn) THEN "AX" ELSE "DX"
        byZero == IF IsQuotient(mn) THEN RI("MOV", XLEN, d, -1) ELSE RR("MOV", HALF, d, "AX")
    IN  <<R1("TEST", HALF, "CX"), Jump("Z", 4)>> \o DivideBy(mn, HALF)
        \o <<RR("MOVSX", HALF, d, result), Jump("ALWAYS", 1), byZero>>

Div32(mn, d) ==
    LET result == IF IsQuotient(mn) THEN "AX" ELSE "DX"
        byZero == IF IsQuotient(mn) THEN RI("MOV", XLEN, d, -1) ELSE RR("MOVSX", HALF, d, "AX")
    IN  <<R1("TEST", HALF, "CX"), Jump("Z", 4)>> \o DivideBy(mn, HALF)
        \o <<RR("MOVSX", HALF, d, result), Jump("ALWAYS", 1), byZero>>

-----------------------------------------------------------------------------
(* Loads, stores and the A extension: s1 holds the address.  SP is the     *)
(* scratch register, kept in the swap file in between.                     *)

LoadCode(mn, d, s1, imm) ==
    CASE mn = "LB"  -> <<Ins("LOADSX", BYTE, d, s1, imm)>>
      [] mn = "LH"  -> <<Ins("LOADSX", SHORT, d, s1, imm)>>
      [] mn = "LW"  -> <<Ins("LOADSX", HALF, d, s1, imm)>>
      [] mn = "LBU" -> <<Ins("LOAD", BYTE, d, s1, imm)>>
      [] mn = "LHU" -> <<Ins("LOAD", SHORT, d, s1, imm)>>
      [] mn = "LWU" -> <<Ins("LOAD", HALF, d, s1, imm)>>
      [] mn = "LD"  -> <<Ins("LOAD", XLEN, d, s1, imm)>>
      [] mn = "LRW" -> <<Ins("LOADSX", HALF, d, s1, 0)>>
      [] mn = "LRD" -> <<Ins("LOAD", XLEN, d, s1, 0)>>

StoreWidth(mn) == CASE mn = "SB" -> BYTE [] mn = "SH" -> SHORT
                    [] mn \in {"SW", "SCW"} -> HALF [] mn \in {"SD", "SCD"} -> XLEN

\* A store conditional always succeeds.
StoreCode(mn, d, s1, s2, imm) ==
    IF mn \in {"SCW", "SCD"}
    THEN <<Ins("STORE", StoreWidth(mn), s1, s2, 0), RI("MOV", XLEN, d, 0)>>
    ELSE <<Ins("STORE", StoreWidth(mn), s1, s2, imm)>>

Saved == <<RR("MOV", XLEN, "SWAP", "SP")>>
Restored == <<RR("MOV", XLEN, "SP", "SWAP")>>
ToDest(mn, d) == IF mn \in WOps THEN <<RR("MOVSX", HALF, d, "SP")>> ELSE <<RR("MOV", XLEN, d, "SP")>>

AmoOp(mn) == CASE mn \in {"AMOSWAPW", "AMOSWAPD"} -> "MOV" [] mn \in {"AMOADDW", "AMOADDD"} -> "ADD"
               [] mn \in {"AMOXORW", "AMOXORD"} -> "XOR" [] mn \in {"AMOANDW", "AMOANDD"} -> "AND"
               [] mn \in {"AMOORW", "AMOORD"} -> "OR"

AmoCode(mn, d, s1, s2) ==
    Saved \o <<Ins("LOAD", Width(mn), "SP", s1, 0), Ins("RMW", Width(mn), s1, s2, AmoOp(mn))>>
    \o ToDest(mn, d) \o Restored

\* The old value replaces rs2 in DX when it is the one to keep.
Keeps(mn) == CASE mn \in {"AMOMINW", "AMOMIND"} -> "L" [] mn \in {"AMOMAXW", "AMOMAXD"} -> "G"
               [] mn \in {"AMOMINUW", "AMOMINUD"} -> "C" [] mn \in {"AMOMAXUW", "AMOMAXUD"} -> "A"

MinMaxCode(mn, d, s1) ==
    Saved \o <<Ins("LOAD", Width(mn), "SP", s1, 0), RR("CMP", Width(mn), "SP", "DX"),
               Ins("CMOV", Width(mn), "DX", "SP", Keeps(mn)),
               Ins("STORE", Width(mn), s1, "DX", 0)>>
    \o ToDest(mn, d) \o Restored

Emission(f) ==
    LET mn == f.mnem
        s1 == regSrc1(f)
        s2 == regSrc2(f)
        d == regDest(f)
    IN  CASE mn \in ImmOps     -> ImmCode(mn, d, s1, f.imm)
          [] mn \in RegOps     -> RegCode(mn, d, s1, s2)
          [] mn \in ShiftOps   -> ShiftCode(mn, d, s1, s2)
          [] mn \in MulHighOps -> MulHighCode(mn, d, IF f.rs1 \in gp_mapped THEN gp_map[f.rs1] ELSE "FILE")
          [] mn \in DivOps     -> IF mn \in WOps THEN Div32(mn, d) ELSE Div64(mn, d)
          [] mn \in LoadOps    -> LoadCode(mn, d, s1, f.imm)
          [] mn \in StoreOps   -> StoreCode(mn, d, s1, s2, f.imm)
          [] mn \in AmoOps     -> AmoCode(mn, d, s1, s2)
          [] mn \in MinMaxOps  -> MinMaxCode(mn, d, s1)

-----------------------------------------------------------------------------
(* The host executes the code.                                             *)

Hosts == {"AX", "DX", "CX", "SP", "SWAP", "FILE"} \cup {gp_map[r] : r \in gp_mapped}
Accesses(f) == f.mnem \in LoadOps \cup StoreOps \cup AmoOps \cup MinMaxOps

\* val gives the operands their values; registers of no operand hold 1.
HostWith(f, val, cell) ==
    LET held(h) == {r \in DOMAIN val : Place(f, r) = h}
    IN  [reg |-> [h \in Hosts |->
            CASE h = "AX" /\ regSrc1(f) = "AX" -> val[f.rs1]
              [] h = "CX" /\ regSrc2(f) = "CX" -> val[f.rs2]
              [] h = "DX" /\ regSrc2(f) = "DX" -> val[f.rs2]
              [] h = "FILE" -> val[f.rs1]
              [] OTHER -> IF held(h) = {} THEN 1 ELSE val[CHOOSE r \in held(h) : TRUE]],
         mem |-> IF Accesses(f) THEN OneWord(W(val[f.rs1] + f.imm), cell) ELSE <<>>,
         flags |-> [x |-> 0, y |-> 0, w |-> XLEN],
         fault |-> FALSE]

Init ==
    /\ form \in Forms
    /\ \E val \in [{form.rs1, form.rs2, form.rd} -> Values], cell \in Cells :
          /\ form.rd \notin {form.rs1, form.rs2} => val[form.rd] = 1
          /\ Admits(form, val[form.rs1], val[form.rs2])
          /\ Accesses(form) \/ cell = 0
          /\ start = HostWith(form, val, cell)
    /\ code = Emission(form) /\ ip = 1
    /\ m = start

JumpOps == {"Z", "NS", "ALWAYS"}

Step ==
    /\ ip <= Len(code) /\ ~m.fault
    /\ code[ip].op \notin JumpOps
    /\ m' = Perform(m, code[ip])
    /\ ip' = ip + 1
    /\ UNCHANGED <<form, start, code>>

StepJump ==
    /\ ip <= Len(code) /\ ~m.fault
    /\ code[ip].op \in JumpOps
    /\ ip' = IF Holds(code[ip].op, m.flags) THEN ip + 1 + code[ip].i ELSE ip + 1
    /\ UNCHANGED <<form, start, code, m>>

Next == Step \/ StepJump
Spec == Init /\ [][Next]_vars

-----------------------------------------------------------------------------
(* What the guest instruction computes, from the RISC-V specification: a   *)
(* and b are the values of rs1 and rs2 (or the immediate), c the memory's. *)

\* The operation of the W forms, on lower halves.
Plain(mn) == CASE mn = "ADDIW" -> "ADDI" [] mn = "SLLIW" -> "SLLI" [] mn = "SRLIW" -> "SRLI"
               [] mn = "SRAIW" -> "SRAI" [] mn = "ADDW" -> "ADD" [] mn = "SUBW" -> "SUB"
               [] mn = "MULW" -> "MUL" [] mn = "SLLW" -> "SLL" [] mn = "SRLW" -> "SRL"
               [] mn = "SRAW" -> "SRA" [] mn = "DIVW" -> "DIV" [] mn = "DIVUW" -> "DIVU"
               [] mn = "REMW" -> "REM" [] mn = "REMUW" -> "REMU" [] OTHER -> mn

Computes(mn, a, b, w) ==
    LET sa == SignedOf(a, w)
        sb == SignedOf(b, w)
        n == b % w
    IN  CASE mn \in {"ADD", "ADDI"} -> a + b
          [] mn = "SUB" -> a - b
          [] mn \in {"SLT", "SLTI"} -> If(sa < sb)
          [] mn \in {"SLTU", "SLTIU"} -> If(a < b)
          [] mn \in {"XOR", "XORI"} -> Xor(a, b)
          [] mn \in {"OR", "ORI"} -> Or(a, b)
          [] mn \in {"AND", "ANDI"} -> And(a, b)
          [] mn \in {"SLL", "SLLI"} -> a * 2^n
          [] mn \in {"SRL", "SRLI"} -> a \div 2^n
          [] mn \in {"SRA", "SRAI"} -> sa \div 2^n
          [] mn = "MUL" -> sa * sb
          [] mn = "MULH" -> (sa * sb) \div 2^w
          [] mn = "MULHU" -> (a * b) \div 2^w
          [] mn = "MULHSU" -> (sa * b) \div 2^w
          [] mn = "DIV" -> IF sb = 0 THEN -1 ELSE Quotient(sa, sb)
          [] mn = "DIVU" -> IF b = 0 THEN -1 ELSE a \div b
          [] mn = "REM" -> IF sb = 0 THEN sa ELSE Remainder(sa, sb)
          [] mn = "REMU" -> IF b = 0 THEN a ELSE a % b

MemoryOp(mn) == IF mn \in AmoOps THEN AmoOp(mn) ELSE Keeps(mn)
Combines(op, c, b, w) ==
    CASE op = "MOV" -> b [] op = "ADD" -> c + b [] op = "XOR" -> Xor(c, b)
      [] op = "AND" -> And(c, b) [] op = "OR" -> Or(c, b)
      [] op = "L" -> IF SignedOf(c, w) < SignedOf(b, w) THEN c ELSE b
      [] op = "G" -> IF SignedOf(c, w) > SignedOf(b, w) THEN c ELSE b
      [] op = "C" -> IF c < b THEN c ELSE b
      [] op = "A" -> IF c > b THEN c ELSE b

LoadedAs(mn, c) ==
    CASE mn = "LB" -> SignedOf(c, BYTE) [] mn = "LBU" -> Trunc(c, BYTE)
      [] mn = "LH" -> SignedOf(c, SHORT) [] mn = "LHU" -> Trunc(c, SHORT)
      [] mn \in {"LW", "LRW"} -> SignedOf(c, HALF) [] mn = "LWU" -> Trunc(c, HALF)
      [] mn \in {"LD", "LRD"} -> c

Operand1 == start.reg[regSrc1(form)]
Operand2 == IF form.mnem \in ImmOps THEN W(form.imm) ELSE start.reg[regSrc2(form)]
Cell == start.mem[W(Operand1 + form.imm)]

\* What rd must hold in the end, and the memory word.
Result ==
    LET mn == form.mnem
        w == Width(mn)
        a == Trunc(Operand1, w)
        b == Trunc(Operand2, w)
    IN  CASE mn \in LoadOps -> W(LoadedAs(mn, Cell))
          [] mn \in StoreOps -> 0
          [] mn \in AmoOps \cup MinMaxOps -> W(SignedOf(Cell, w))
          [] OTHER -> W(SignedOf(Computes(Plain(mn), a, b, w), w))

NewCell ==
    LET mn == form.mnem
        w == IF mn \in StoreOps THEN StoreWidth(mn) ELSE Width(mn)
        b == Trunc(Operand2, w)
    IN  CASE mn \in LoadOps -> Cell
          [] mn \in StoreOps -> Cell - Trunc(Cell, w) + b
          [] OTHER -> Cell - Trunc(Cell, w) + Trunc(Combines(MemoryOp(mn), Trunc(Cell, w), b, w), w)

-----------------------------------------------------------------------------
(* Properties.                                                             *)

Done == ip = Len(code) + 1
WritesRd == form.mnem \notin {"SB", "SH", "SW", "SD"}

\* Registers are words, jumps stay in the code (every emission of the four files).
TypeOK ==
    /\ m.reg \in [Hosts -> Word]
    /\ \A a \in DOMAIN m.mem : a \in Word /\ m.mem[a] \in Word
    /\ m.fault \in BOOLEAN
    /\ ip \in 1 .. Len(code) + 1

\* When the emitted code has run, rd and memory hold what the guest
\* instruction computes, whichever operands share a register, for all sign and
\* width edges, by-zero divisions included (translate_*, table 7.1 of m_ext.c).
ComputesResult == Done =>
    /\ WritesRd => m.reg[regDest(form)] = Result
    /\ Accesses(form) => m.mem = OneWord(W(Operand1 + form.imm), NewCell)

\* The registers the translator goes on to rely on: those mapped to guest
\* registers, SP, and the replacement registers it has not given up.
GivenUp == CASE form.mnem \in MulHighOps \cup DivOps -> {"AX", "DX"}
             [] form.mnem \in MinMaxOps -> {"DX"}
             [] OTHER -> {}
Relied == Hosts \ ({"SWAP"} \cup GivenUp \cup {regDest(form)})

\* No emitted code changes a register the translator takes for unchanged: an
\* operand that stays in a replacement register, a mapped one, SP (getRs*Into,
\* invalidateReplacement, saveScratchReg and the code between them).
OthersKept == Done => \A h \in Relied : m.reg[h] = start.reg[h]

\* The smallest number divided by -1, in the width of the instruction.
Overflows == LET w == Width(form.mnem)
             IN  /\ form.mnem \in DivOps /\ IsSigned(form.mnem)
                 /\ Trunc(Operand1, w) = 2^(w - 1) /\ Trunc(Operand2, w) = 2^w - 1

\* The emitted code traps for a signed division that overflows, which RISC-V
\* defines without a trap, and for no other instruction: the zero divisors that
\* m_ext.c tests for never reach an IDIV or DIV.
TrapsOnOverflow == (Done => ~Overflows) /\ (m.fault => Overflows)
=============================================================================
