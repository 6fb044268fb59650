------------------------------ MODULE Encoding ------------------------------
(***************************************************************************)
(* The instruction formats of RV64IMAFD, as the manual encodes them: the   *)
(* reference the decoder is compared with.                                 *)
(***************************************************************************)
EXTENDS Integers

\* rm is "dyn" where funct3 is a rounding mode, "none" where it is a code.
Form(fmt, opcode, names, funct7, float, rm) ==
    {[mnem |-> m, fmt |-> fmt, opcode |-> opcode, funct3 |-> names[m],
      funct7 |-> funct7, rs2 |-> 0, float |-> float, rm |-> rm] : m \in DOMAIN names}
Fixed(fmt, opcode, names, funct7) == Form(fmt, opcode, names, funct7, FALSE, "none")
Floating(fmt, names, funct7, rm) == Form(fmt, 20, names, funct7, TRUE, rm)

\* Conversions, square root, moves: rs2 is a code, not a register.
Unary(names, funct7, funct3, rm) ==
    {[mnem |-> m, fmt |-> "CVT", opcode |-> 20, funct3 |-> funct3, funct7 |-> funct7,
      rs2 |-> names[m], float |-> TRUE, rm |-> rm] : m \in DOMAIN names}

Amo(funct5, w, d) ==
    Fixed("AMO", 11, w, 4 * funct5) \cup Fixed("AMO", 11, d, 4 * funct5)

IntegerForms ==
    Fixed("U", 13, [LUI |-> 0], 0) \cup Fixed("U", 5, [AUIPC |-> 0], 0)
    \cup Fixed("J", 27, [JAL |-> 0], 0) \cup Fixed("I", 25, [JALR |-> 0], 0)
    \cup Fixed("B", 24, [BEQ |-> 0, BNE |-> 1, BLT |-> 4, BGE |-> 5, BLTU |-> 6, BGEU |-> 7], 0)
    \cup Fixed("I", 0, [LB |-> 0, LH |-> 1, LW |-> 2, LD |-> 3, LBU |-> 4, LHU |-> 5, LWU |-> 6], 0)
    \cup Fixed("S", 8, [SB |-> 0, SH |-> 1, SW |-> 2, SD |-> 3], 0)
    \cup Fixed("I", 4, [ADDI |-> 0, SLTI |-> 2, SLTIU |-> 3, XORI |-> 4, ORI |-> 6, ANDI |-> 7], 0)
    \cup Fixed("SH6", 4, [SLLI |-> 1, SRLI |-> 5], 0) \cup Fixed("SH6", 4, [SRAI |-> 5], 32)
    \cup Fixed("I", 6, [ADDIW |-> 0], 0)
    \cup Fixed("SH5", 6, [SLLIW |-> 1, SRLIW |-> 5], 0) \cup Fixed("SH5", 6, [SRAIW |-> 5], 32)
    \cup Fixed("R", 12, [ADD |-> 0, SLL |-> 1, SLT |-> 2, SLTU |-> 3, XOR |-> 4, SRL |-> 5,
                       OR |-> 6, AND |-> 7], 0)
    \cup Fixed("R", 12, [SUB |-> 0, SRA |-> 5], 32)
    \cup Fixed("R", 12, [MUL |-> 0, MULH |-> 1, MULHSU |-> 2, MULHU |-> 3, DIV |-> 4, DIVU |-> 5,
                       REM |-> 6, REMU |-> 7], 1)
    \cup Fixed("R", 14, [ADDW |-> 0, SLLW |-> 1, SRLW |-> 5], 0)
    \cup Fixed("R", 14, [SUBW |-> 0, SRAW |-> 5], 32)
    \cup Fixed("R", 14, [MULW |-> 0, DIVW |-> 4, DIVUW |-> 5, REMW |-> 6, REMUW |-> 7], 1)
    \cup Fixed("I", 3, [FENCE |-> 0, FENCE_I |-> 1], 0)
    \cup Fixed("I", 28, [CSRRW |-> 1, CSRRS |-> 2, CSRRC |-> 3, CSRRWI |-> 5, CSRRSI |-> 6,
                       CSRRCI |-> 7], 0)

AtomicForms ==
    Amo(2, [LRW |-> 2], [LRD |-> 3]) \cup Amo(3, [SCW |-> 2], [SCD |-> 3])
    \cup Amo(1, [AMOSWAPW |-> 2], [AMOSWAPD |-> 3]) \cup Amo(0, [AMOADDW |-> 2], [AMOADDD |-> 3])
    \cup Amo(4, [AMOXORW |-> 2], [AMOXORD |-> 3]) \cup Amo(12, [AMOANDW |-> 2], [AMOANDD |-> 3])
    \cup Amo(8, [AMOORW |-> 2], [AMOORD |-> 3]) \cup Amo(16, [AMOMINW |-> 2], [AMOMIND |-> 3])
    \cup Amo(20, [AMOMAXW |-> 2], [AMOMAXD |-> 3])
    \cup Amo(24, [AMOMINUW |-> 2], [AMOMINUD |-> 3])
    \cup Amo(28, [AMOMAXUW |-> 2], [AMOMAXUD |-> 3])

FloatForms ==
    Form("IF", 1, [FLW |-> 2, FLD |-> 3], 0, TRUE, "none")
    \cup Form("SF", 9, [FSW |-> 2, FSD |-> 3], 0, TRUE, "none")
    \cup UNION {Form("R4", 16 + o, <<[FMADDS |-> 0], [FMSUBS |-> 0], [FNMSUBS |-> 0],
                                     [FNMADDS |-> 0]>>[o + 1], 0, TRUE, "dyn") : o \in 0 .. 3}
    \cup UNION {Form("R4", 16 + o, <<[FMADDD |-> 0], [FMSUBD |-> 0], [FNMSUBD |-> 0],
                                     [FNMADDD |-> 0]>>[o + 1], 1, TRUE, "dyn") : o \in 0 .. 3}
    \cup UNION {Floating("R", <<[FADDS |-> 0], [FSUBS |-> 0], [FMULS |-> 0], [FDIVS |-> 0]>>[o + 1],
                      4 * o, "dyn") : o \in 0 .. 3}
    \cup UNION {Floating("R", <<[FADDD |-> 0], [FSUBD |-> 0], [FMULD |-> 0], [FDIVD |-> 0]>>[o + 1],
                      4 * o + 1, "dyn") : o \in 0 .. 3}
    \cup Floating("R", [FSGNJS |-> 0, FSGNJNS |-> 1, FSGNJXS |-> 2], 16, "none")
    \cup Floating("R", [FSGNJD |-> 0, FSGNJND |-> 1, FSGNJXD |-> 2], 17, "none")
    \cup Floating("R", [FMINS |-> 0, FMAXS |-> 1], 20, "none")
    \cup Floating("R", [FMIND |-> 0, FMAXD |-> 1], 21, "none")
    \cup Floating("R", [FLES |-> 0, FLTS |-> 1, FEQS |-> 2], 80, "none")
    \cup Floating("R", [FLED |-> 0, FLTD |-> 1, FEQD |-> 2], 81, "none")
    \cup Unary([FSQRTS |-> 0], 44, 0, "dyn") \cup Unary([FSQRTD |-> 0], 45, 0, "dyn")
    \cup Unary([FCVTSD |-> 1], 32, 0, "dyn") \cup Unary([FCVTDS |-> 0], 33, 0, "dyn")
    \cup Unary([FCVTWS |-> 0, FCVTWUS |-> 1, FCVTLS |-> 2, FCVTLUS |-> 3], 96, 0, "dyn")
    \cup Unary([FCVTWD |-> 0, FCVTWUD |-> 1, FCVTLD |-> 2, FCVTLUD |-> 3], 97, 0, "dyn")
    \cup Unary([FCVTSW |-> 0, FCVTSWU |-> 1, FCVTSL |-> 2, FCVTSLU |-> 3], 104, 0, "dyn")
    \cup Unary([FCVTDW |-> 0, FCVTDWU |-> 1, FCVTDL |-> 2, FCVTDLU |-> 3], 105, 0, "dyn")
    \cup Unary([FMVXW |-> 0], 112, 0, "none") \cup Unary([FMVXD |-> 0], 113, 0, "none")
    \cup Unary([FCLASSS |-> 0], 112, 1, "none") \cup Unary([FCLASSD |-> 0], 113, 1, "none")
    \cup Unary([FMVWX |-> 0], 120, 0, "none") \cup Unary([FMVDX |-> 0], 121, 0, "none")
-----------------------------------------------------------------------------
\* The low n bits of v from bit lo on.
Bits(v, lo, n) == (v \div 2^lo) % 2^n

\* A word as a signed number, from its upper seven bits, three five bit
\* fields, the funct3 and the opcode.
Pack(upper, f20, f15, funct3, f7, opcode) ==
    (IF upper < 64 THEN upper ELSE upper - 128) * 2^25 + f20 * 2^20 + f15 * 2^15
      + funct3 * 2^12 + f7 * 2^7 + opcode * 4 + 3

EncodeR(f, upper, rs2, rs1, rm, rd) == Pack(upper, rs2, rs1, rm, rd, f.opcode)
EncodeI(f, rd, rs1, imm) == Pack(Bits(imm, 5, 7), Bits(imm, 0, 5), rs1, f.funct3, rd, f.opcode)
EncodeS(f, rs1, rs2, imm) == Pack(Bits(imm, 5, 7), rs2, rs1, f.funct3, Bits(imm, 0, 5), f.opcode)
EncodeB(f, rs1, rs2, imm) ==
    Pack(Bits(imm, 12, 1) * 64 + Bits(imm, 5, 6), rs2, rs1, f.funct3,
         Bits(imm, 1, 4) * 2 + Bits(imm, 11, 1), f.opcode)
\* imm has its lower twelve bits clear.
EncodeU(f, rd, imm) == imm + rd * 2^7 + f.opcode * 4 + 3
EncodeJ(f, rd, imm) ==
    Pack(Bits(imm, 20, 1) * 64 + Bits(imm, 5, 6), Bits(imm, 1, 4) * 2 + Bits(imm, 11, 1),
         Bits(imm, 15, 5), Bits(imm, 12, 3), rd, f.opcode)
=============================================================================
