------------------------------ MODULE Decoder ------------------------------
(***************************************************************************)
(* The instruction parser (src/parser/parser.c): from a 32 bit word to the *)
(* struct the rest of the translator works on.  The word is the int32_t    *)
(* the code reads, so a shift to the right is a division that rounds down  *)
(* and a mask of low bits a remainder; the parts of an immediate do not    *)
(* overlap, so `|' is `+'.                                                 *)
(*                                                                         *)
(* One entry of the parse buffer is followed while parse_block() fills it  *)
(* again and again: parse_instruction() assigns only the fields a format   *)
(* has, the others keep what the entry was initialised with.               *)
(***************************************************************************)
EXTENDS Integers, Sequences

CONSTANTS
    Instructions,      \* what the guest's code may hold: records with a field word
    Before,            \* bound: the instructions another one is parsed after
    fail_silently      \* option -s: go on where the translator would stop

VARIABLES
    guest,             \* the instruction parsed last
    entry,             \* the entry of the parse buffer
    outcome            \* "none", "ok", "error", "panic"

vars == <<guest, entry, outcome>>
-----------------------------------------------------------------------------
\* Mutant: bit 11 is left out.
ImmBWithoutBit11(w) ==
    (IF w < 0 THEN -4096 ELSE 0) + ((w \div 33554432) % 64) * 32 + ((w \div 256) % 16) * 2

\* The fields of a word.
extract_rd(w) == (w \div 128) % 32
extract_rs1(w) == (w \div 32768) % 32
extract_rs2(w) == (w \div 1048576) % 32
extract_rs3(w) == (w \div 134217728) % 32
extract_funct2(w) == (w \div 33554432) % 4
extract_funct3(w) == (w \div 4096) % 8
extract_funct7(w) == (w \div 33554432) % 128
extract_big_shamt(w) == (w \div 1048576) % 64
extract_small_shamt(w) == (w \div 1048576) % 32
extract_opcode(w) == (w \div 4) % 32
Bit20(w) == (w \div 1048576) % 2 = 1
Bit25(w) == (w \div 33554432) % 2 = 1
Bit30(w) == (w \div 1073741824) % 2 = 1

extract_imm_U(w) == w - (w % 4096)
extract_imm_I(w) == w \div 1048576
extract_imm_S(w) == (w \div 33554432) * 32 + ((w \div 128) % 32)
extract_imm_J(w) ==
    ((w \div 4096) % 256) * 4096 + ((w \div 1048576) % 2) * 2048
      + ((w \div 2097152) % 1024) * 2 + (IF w < 0 THEN -1048576 ELSE 0)
extract_imm_B(w) ==
    (IF w < 0 THEN -4096 ELSE 0) + ((w \div 128) % 2) * 2048
      + ((w \div 33554432) % 64) * 32 + ((w \div 256) % 16) * 2
-----------------------------------------------------------------------------
\* The mnemonics in the order of their enumeration, which the parser does
\* arithmetic on: Mnems[i] is the one with the number i, INVALID_MNEM is 0.
Mnems == <<"LUI", "AUIPC", "JAL", "JALR", "BEQ", "BNE", "BLT", "BGE", "BLTU", "BGEU",
    "LB", "LH", "LW", "LBU", "LHU", "SB", "SH", "SW",
    "ADDI", "SLTI", "SLTIU", "XORI", "ORI", "ANDI", "SLLI", "SRLI", "SRAI",
    "ADD", "SUB", "SLL", "SLT", "SLTU", "XOR", "SRL", "SRA", "OR", "AND",
    "FENCE", "ECALL", "EBREAK", "FENCE_I",
    "CSRRW", "CSRRS", "CSRRC", "CSRRWI", "CSRRSI", "CSRRCI", "MANUAL_CSRR",
    "LWU", "LD", "SD", "ADDIW", "SLLIW", "SRLIW", "SRAIW",
    "ADDW", "SUBW", "SLLW", "SRLW", "SRAW",
    "MUL", "MULH", "MULHSU", "MULHU", "DIV", "DIVU", "REM", "REMU",
    "MULW", "DIVW", "DIVUW", "REMW", "REMUW",
    "LRW", "SCW", "AMOSWAPW", "AMOADDW", "AMOXORW", "AMOANDW", "AMOORW",
    "AMOMINW", "AMOMAXW", "AMOMINUW", "AMOMAXUW",
    "LRD", "SCD", "AMOSWAPD", "AMOADDD", "AMOXORD", "AMOANDD", "AMOORD",
    "AMOMIND", "AMOMAXD", "AMOMINUD", "AMOMAXUD",
    "FLW", "FSW", "FMADDS", "FMSUBS", "FNMSUBS", "FNMADDS",
    "FADDS", "FSUBS", "FMULS", "FDIVS", "FSQRTS", "FSGNJS", "FSGNJNS", "FSGNJXS",
    "FMINS", "FMAXS", "FCVTWS", "FCVTWUS", "FMVXW", "FEQS", "FLTS", "FLES",
    "FCLASSS", "FCVTSW", "FCVTSWU", "FMVWX", "FCVTLS", "FCVTLUS", "FCVTSL", "FCVTSLU",
    "FLD", "FSD", "FMADDD", "FMSUBD", "FNMSUBD", "FNMADDD",
    "FADDD", "FSUBD", "FMULD", "FDIVD", "FSQRTD", "FSGNJD", "FSGNJND", "FSGNJXD",
    "FMIND", "FMAXD", "FCVTWD", "FCVTWUD", "FMVXD", "FEQD", "FLTD", "FLED",
    "FCLASSD", "FCVTDW", "FCVTDWU", "FMVDX", "FCVTLD", "FCVTLUD", "FCVTDL", "FCVTDLU",
    "FCVTSD", "FCVTDS", "PC_NEXT_INST", "SILENT_NOP", "PATTERN_EMIT">>

Number(m) ==
    IF m = "INVALID_MNEM" THEN 0 ELSE CHOOSE i \in DOMAIN Mnems : Mnems[i] = m

\* mnem += to - from
Moved(m, from, to) == Mnems[Number(m) + Number(to) - Number(from)]

INVALID_REG == 33

\* (t_risc_instr) {.addr = ...}: every other field is zero, which is the
\* mnemonic INVALID_MNEM and the type REG_REG.  imm shares its memory with
\* reg_src_3 and rounding_mode; no instruction assigns both.
Zeroed == [mnem |-> "INVALID_MNEM", optype |-> "REG_REG", reg_src_1 |-> 0,
           reg_src_2 |-> 0, reg_dest |-> 0, imm |-> 0,
           reg_src_3 |-> 0, rounding_mode |-> 0]

\* fill basic struct
Basic(s, w) == [s EXCEPT !.reg_dest = extract_rd(w), !.reg_src_1 = extract_rs1(w),
                         !.reg_src_2 = INVALID_REG]
-----------------------------------------------------------------------------
\* A parse is the struct and how it ended.
Parse(s, how) == [struct |-> s, how |-> how]
Ok(s) == Parse(s, "ok")

set_error_message(s, w, error_code) ==
    Parse([s EXCEPT !.optype = "INVALID_INSTRUCTION", !.mnem = "INVALID_MNEM",
                    !.reg_dest = error_code, !.imm = w], "error")

\* The mnemonic a table gives for a code, or set_error_message().
Lookup(s, w, table, code, error_code) ==
    IF code \in DOMAIN table THEN Ok([s EXCEPT !.mnem = table[code]])
    ELSE set_error_message(s, w, error_code)

\* The same where critical_not_yet_implemented() is in the place of the
\* error: it returns when the translator was told to fail silently.
Require(s, table, code) ==
    IF code \in DOMAIN table THEN Ok([s EXCEPT !.mnem = table[code]])
    ELSE IF fail_silently THEN Ok(s) ELSE Parse(s, "panic")

From0(names) == [i \in 0 .. Len(names) - 1 |-> names[i + 1]]
At(codes, names) ==
    [c \in {codes[i] : i \in DOMAIN codes} |-> names[CHOOSE i \in DOMAIN codes : codes[i] = c]]

Upper(s, w, mnem, optype) ==
    Ok([s EXCEPT !.optype = optype, !.mnem = mnem, !.reg_src_1 = INVALID_REG,
                 !.imm = extract_imm_U(w)])
JAL(s, w) ==
    Ok([s EXCEPT !.optype = "JUMP", !.mnem = "JAL", !.reg_src_1 = INVALID_REG,
                 !.imm = extract_imm_J(w)])
JALR(s, w) == Ok([s EXCEPT !.optype = "JUMP", !.mnem = "JALR", !.imm = extract_imm_I(w)])

LOAD_FP(s, w) ==
    Require([s EXCEPT !.optype = "FLOAT", !.imm = extract_imm_I(w)],
            At(<<2, 3>>, <<"FLW", "FLD">>), extract_funct3(w))
STORE_FP(s, w) ==
    Require([s EXCEPT !.optype = "FLOAT", !.imm = extract_imm_S(w), !.reg_src_2 = extract_rs2(w)],
            At(<<2, 3>>, <<"FSW", "FSD">>), extract_funct3(w))

MISC_MEM(s, w) ==
    Lookup([s EXCEPT !.optype = "SYSTEM", !.imm = extract_imm_I(w)], w,
           From0(<<"FENCE", "FENCE_I">>), extract_funct3(w), 1)
BRANCH(s, w) ==
    Lookup([s EXCEPT !.optype = "BRANCH", !.reg_src_2 = extract_rs2(w),
                     !.reg_dest = INVALID_REG, !.imm = extract_imm_B(w)], w,
           At(<<0, 1, 4, 5, 6, 7>>, <<"BEQ", "BNE", "BLT", "BGE", "BLTU", "BGEU">>),
           extract_funct3(w), 2)
LOAD(s, w) ==
    Lookup([s EXCEPT !.optype = "IMMEDIATE", !.imm = extract_imm_I(w)], w,
           From0(<<"LB", "LH", "LW", "LD", "LBU", "LHU", "LWU">>), extract_funct3(w), 3)
STORE(s, w) ==
    Lookup([s EXCEPT !.optype = "STORE", !.imm = extract_imm_S(w),
                     !.reg_dest = INVALID_REG, !.reg_src_2 = extract_rs2(w)], w,
           From0(<<"SB", "SH", "SW", "SD">>), extract_funct3(w), 4)

OP(s, w) ==
    Lookup([s EXCEPT !.optype = "REG_REG", !.reg_src_2 = extract_rs2(w)], w,
           IF Bit25(w) THEN From0(<<"MUL", "MULH", "MULHSU", "MULHU", "DIV", "DIVU", "REM", "REMU">>)
           ELSE From0(<<IF Bit30(w) THEN "SUB" ELSE "ADD", "SLL", "SLT", "SLTU", "XOR",
                        IF Bit30(w) THEN "SRA" ELSE "SRL", "OR", "AND">>),
           extract_funct3(w), 5)
SYSTEM(s, w) ==
    Lookup([s EXCEPT !.optype = "SYSTEM", !.imm = extract_imm_I(w)], w,
           At(<<0, 1, 2, 3, 5, 6, 7>>,
              <<IF Bit20(w) THEN "EBREAK" ELSE "ECALL", "CSRRW", "CSRRS", "CSRRC",
                "CSRRWI", "CSRRSI", "CSRRCI">>), extract_funct3(w), 6)

OP_IMM_32(s, w) ==
    Lookup([s EXCEPT !.optype = "IMMEDIATE",
                     !.imm = CASE extract_funct3(w) = 0 -> extract_imm_I(w)
                               [] extract_funct3(w) \in {1, 5} -> extract_small_shamt(w)
                               [] OTHER -> s.imm], w,
           At(<<0, 1, 5>>, <<"ADDIW", "SLLIW", IF Bit30(w) THEN "SRAIW" ELSE "SRLIW">>),
           extract_funct3(w), 7)
OP_32(s, w) ==
    LET t == [s EXCEPT !.optype = "REG_REG", !.reg_src_2 = extract_rs2(w)]
    IN IF Bit25(w)
       THEN Lookup(t, w, At(<<0, 4, 5, 6, 7>>, <<"MULW", "DIVW", "DIVUW", "REMW", "REMUW">>),
                   extract_funct3(w), 8)
       ELSE Lookup(t, w, At(<<0, 1, 5>>, <<IF Bit30(w) THEN "SUBW" ELSE "ADDW", "SLLW",
                                           IF Bit30(w) THEN "SRAW" ELSE "SRLW">>),
                   extract_funct3(w), 9)
OP_IMM(s, w) ==
    Lookup([s EXCEPT !.optype = "IMMEDIATE",
                     !.imm = IF extract_funct3(w) \in {1, 5} THEN extract_big_shamt(w)
                             ELSE extract_imm_I(w)], w,
           From0(<<"ADDI", "SLLI", "SLTI", "SLTIU", "XORI",
                   IF Bit30(w) THEN "SRAI" ELSE "SRLI", "ORI", "ANDI">>),
           extract_funct3(w), 10)
-----------------------------------------------------------------------------
\* Round to nearest, ties to max magnitude (4) is not supported.
RoundingMode(funct3) == IF funct3 = 4 THEN 0 ELSE funct3

\* OP_MADD, OP_MSUB, OP_NMADD, OP_NMSUB: first is what the code assigns
\* before it looks at the operand size.
Fused(s, w, first, names) ==
    Require([s EXCEPT !.optype = "FLOAT", !.mnem = first,
                      !.reg_src_2 = extract_rs2(w), !.reg_src_3 = extract_rs3(w),
                      !.rounding_mode = RoundingMode(extract_funct3(w))],
            From0(names), extract_funct2(w))

\* The table of OP_FP: the upper five bits of funct7 choose the instruction,
\* for some of them with funct3 or rs2.
FpTable(funct5, funct3, rs2) ==
    CASE funct5 = 0  -> <<From0(<<"FADDS">>), 0>>
      [] funct5 = 1  -> <<From0(<<"FSUBS">>), 0>>
      [] funct5 = 2  -> <<From0(<<"FMULS">>), 0>>
      [] funct5 = 3  -> <<From0(<<"FDIVS">>), 0>>
      [] funct5 = 4  -> <<From0(<<"FSGNJS", "FSGNJNS", "FSGNJXS">>), funct3>>
      [] funct5 = 5  -> <<From0(<<"FMINS", "FMAXS">>), funct3>>
      [] funct5 = 8  -> <<From0(<<"FCVTDS", "FCVTSD">>), rs2>>
      [] funct5 = 11 -> <<From0(<<"FSQRTS">>), 0>>
      [] funct5 = 20 -> <<From0(<<"FLES", "FLTS", "FEQS">>), funct3>>
      [] funct5 = 24 -> <<From0(<<"FCVTWS", "FCVTWUS", "FCVTLS", "FCVTLUS">>), rs2>>
      [] funct5 = 26 -> <<From0(<<"FCVTSW", "FCVTSWU", "FCVTSL", "FCVTSLU">>), rs2>>
      [] funct5 = 28 -> <<From0(<<"FMVXW", "FCLASSS">>), funct3>>
      [] funct5 = 30 -> <<From0(<<"FMVWX">>), 0>>
      [] OTHER       -> <<<<>>, 0>>

\* The masks the code tests funct7 with are beyond its seven bits: reg_src_2
\* and the rounding mode are assigned whatever the instruction is.
OP_FP(s, w) ==
    LET funct5 == extract_funct7(w) \div 4
        size == extract_funct7(w) % 4
        named == FpTable(funct5, extract_funct3(w), extract_rs2(w))
        found == Require([s EXCEPT !.optype = "FLOAT", !.reg_src_2 = extract_rs2(w),
                                   !.rounding_mode = RoundingMode(extract_funct3(w))],
                         named[1], named[2])
    IN CASE found.how = "panic" \/ funct5 = 8 \/ size = 0 -> found
         [] size = 1 -> Ok([found.struct EXCEPT !.mnem = Moved(@, "FLW", "FLD")])
         [] OTHER -> IF fail_silently THEN found ELSE Parse(found.struct, "panic")

AmoTable == At(<<0, 1, 2, 3, 4, 8, 12, 16, 20, 24, 28>>,
               <<"AMOADDW", "AMOSWAPW", "LRW", "SCW", "AMOXORW", "AMOORW", "AMOANDW",
                 "AMOMINW", "AMOMAXW", "AMOMINUW", "AMOMAXUW">>)

\* optype is not assigned.
AMO(s, w) ==
    LET found == Lookup([s EXCEPT !.reg_src_2 = extract_rs2(w), !.imm = extract_funct7(w)], w,
                        AmoTable, extract_funct7(w) \div 4, 11)
    IN CASE found.how = "error" \/ extract_funct3(w) = 2 -> found
         [] extract_funct3(w) = 3 -> Ok([found.struct EXCEPT !.mnem = Moved(@, "LRW", "LRD")])
         [] OTHER -> set_error_message(found.struct, w, 12)

parse_instruction(s0, w) ==
    LET s == Basic(s0, w)
        o == extract_opcode(w)
    IN CASE o = 0  -> LOAD(s, w)        [] o = 1  -> LOAD_FP(s, w)
         [] o = 3  -> MISC_MEM(s, w)    [] o = 4  -> OP_IMM(s, w)
         [] o = 5  -> Upper(s, w, "AUIPC", "IMMEDIATE")
         [] o = 6  -> OP_IMM_32(s, w)   [] o = 8  -> STORE(s, w)
         [] o = 9  -> STORE_FP(s, w)    [] o = 11 -> AMO(s, w)
         [] o = 12 -> OP(s, w)          [] o = 13 -> Upper(s, w, "LUI", "UPPER_IMMEDIATE")
         [] o = 14 -> OP_32(s, w)
         [] o = 16 -> Fused(s, w, "FMADDS", <<"FMADDS", "FMADDD">>)
         [] o = 17 -> Fused(s, w, s.mnem, <<"FMSUBS", "FMSUBD">>)
         [] o = 18 -> Fused(s, w, s.mnem, <<"FNMSUBS", "FNMSUBD">>)
         [] o = 19 -> Fused(s, w, s.mnem, <<"FNMADDS", "FNMADDD">>)
         [] o = 20 -> OP_FP(s, w)       [] o = 24 -> BRANCH(s, w)
         [] o = 25 -> JALR(s, w)        [] o = 27 -> JAL(s, w)
         [] o = 28 -> SYSTEM(s, w)
         [] OTHER  -> set_error_message(s, w, 0)
-----------------------------------------------------------------------------
\* What parse_block() does with the entry before it is parsed.
Cleared(s) == Zeroed

Nothing == [word |-> 0, fmt |-> "none"]

Init == guest = Nothing /\ entry = Zeroed /\ outcome = "none"

\* parse_block() comes to the next instruction; the process ends at a panic.
Next ==
    /\ outcome # "panic"
    /\ guest = Nothing \/ guest \in Before
    /\ \E i \in Instructions :
         LET parsed == parse_instruction(Cleared(entry), i.word)
         IN guest' = i /\ entry' = parsed.struct /\ outcome' = parsed.how

Spec == Init /\ [][Next]_vars
-----------------------------------------------------------------------------
Regs == 0 .. INVALID_REG
NoMode == 8            \* of an instruction whose funct3 is not a rounding mode
Optypes == {"REG_REG", "IMMEDIATE", "UPPER_IMMEDIATE", "STORE", "BRANCH", "JUMP",
            "SYSTEM", "FLOAT", "INVALID_INSTRUCTION"}

\* The struct stays within its types: registers are valid or INVALID_REG,
\* the mnemonic is one the enumeration has.
TypeOK ==
    /\ outcome \in {"none", "ok", "error", "panic"}
    /\ entry.mnem \in {Mnems[i] : i \in DOMAIN Mnems} \cup {"INVALID_MNEM"}
    /\ entry.optype \in Optypes
    /\ {entry.reg_src_1, entry.reg_src_2, entry.reg_dest, entry.reg_src_3} \subseteq Regs
    /\ entry.rounding_mode \in 0 .. 7

\* The fields an instruction of this format has are the ones the struct
\* holds afterwards: each format's immediate is put together from its bits
\* with its sign, a shift amount without the bits beside it.
Decodes ==
    guest.fmt \notin {"none", "reserved"} =>
      /\ outcome = "ok"
      /\ entry.mnem = guest.mnem
      /\ guest.fmt \in {"R", "R4", "AMO", "I", "IF", "SH6", "SH5", "U", "J", "CVT"}
           => entry.reg_dest = guest.rd
      /\ guest.fmt \in {"R", "R4", "AMO", "I", "IF", "SH6", "SH5", "S", "SF", "B", "CVT"}
           => entry.reg_src_1 = guest.rs1
      /\ guest.fmt \in {"R", "R4", "AMO", "S", "SF", "B"} => entry.reg_src_2 = guest.rs2
      /\ guest.fmt = "R4" => entry.reg_src_3 = guest.rs3
      /\ guest.fmt \in {"I", "IF", "S", "SF", "B", "U", "J", "SH6", "SH5"} => entry.imm = guest.imm
      /\ guest.rm # NoMode => entry.rounding_mode = RoundingMode(guest.rm)

\* The type of the struct decides where parse_block() ends a block and
\* whether the block needs the floating point registers: it is FLOAT for
\* exactly the F and D instructions, JUMP and BRANCH for exactly the ones
\* that may transfer control (whatever the entry held before).
Classified ==
    guest.fmt \notin {"none", "reserved"} =>
      /\ (entry.optype = "FLOAT") = guest.float
      /\ (entry.optype = "BRANCH") = (guest.fmt = "B")
      /\ (entry.optype = "JUMP") = (guest.mnem \in {"JAL", "JALR"})
      /\ (entry.optype = "SYSTEM") = (guest.opcode \in {3, 28})
      /\ entry.optype # "INVALID_INSTRUCTION"

\* A word the tables have no entry for is never taken for an instruction:
\* it is reported to the caller or ends the translator.
UnknownStaysUnknown ==
    guest.fmt = "reserved" => outcome = "panic" \/ entry.mnem = "INVALID_MNEM"

\* A field the format does not have is INVALID_REG ("Set to not used value
\* for analyzer to work correctly").
UnusedIsInvalid ==
    outcome = "ok" =>
      /\ guest.fmt \in {"S", "SF", "B"} => entry.reg_dest = INVALID_REG
      /\ guest.fmt \in {"U", "J"} => entry.reg_src_1 = INVALID_REG
      /\ guest.fmt \in {"I", "IF", "SH6", "SH5", "U", "J"} => entry.reg_src_2 = INVALID_REG

\* A rounding mode is assigned only where funct3 is one.
RoundingModeIsOne ==
    outcome = "ok" /\ guest.fmt \in {"R", "CVT"} /\ guest.float /\ guest.rm = NoMode
      => entry.rounding_mode = 0
=============================================================================
