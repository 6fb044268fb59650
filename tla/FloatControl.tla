--------------------------- MODULE FloatControl ---------------------------
(***************************************************************************)
(* Control and status registers: the CSR instructions on the register file *)
(* (gen/instr/core/translate_csr.c), fflags, frm and fcsr in the host's    *)
(* MXCSR (runtime/manualCSRR.c), and the rounding mode of a single         *)
(* instruction around its emitted code (util/util.h, saveAndSetRound).     *)
(***************************************************************************)
EXTENDS Integers

CONSTANTS Regs,       \* guest registers other than x0
          WIDTH,      \* bits of a register
          Inputs,     \* what other instructions put into registers
          Raises,     \* the MXCSR flags one instruction can raise
          Modes,      \* the rm fields of instructions
          FileCsrs,   \* [CSR -> its number] of those in the register file
          Operands    \* <<rd, rs1>> of CSR instructions, "x0" included

\* Registers, masks and rounding modes are the sets of their bits that are one.
VARIABLES gp_file,
          mxcsr,
          fctrl,      \* fctrl_file by element, <<>> while it is dead
          csr_file,   \* by number
          stage,      \* of the floating point instruction in progress
          round,      \* its own rounding mode
          used,       \* the rounding mode it computed with
          stopped     \* critical_not_yet_implemented has ended the program

vars == <<gp_file, mxcsr, fctrl, csr_file, stage, round, used, stopped>>

-----------------------------------------------------------------------------
(* Encodings.                                                              *)

RNE == {}
RTZ == {0}
RDN == {1}
RUP == {0, 1}
DYN == {0, 1, 2}
Supported == {RNE, RTZ, RDN, RUP}

\* Bits 10 and 11 of the C library's modes, shifted by 3 in MXCSR.
SSE_ROUND_SHIFT == 3
RoundField == {10 + SSE_ROUND_SHIFT, 11 + SSE_ROUND_SHIFT}
FE_COUNT_RISCV == 5

SSE_FLAGS_MASK == {0, 2, 3, 4, 5}

\* MXCSR when a program starts: every exception masked.
EXCEPTION_MASKS == 7 .. 12

\* The flags NX, UF, OF, DZ and NV as bits of fflags and of MXCSR.
SSEFlag == [b \in 0 .. 4 |-> IF b = 4 THEN 0 ELSE 5 - b]
to_RISCV_flags(n) == {b \in 0 .. 4 : SSEFlag[b] \in n}
to_SSE_flags(n) == {SSEFlag[b] : b \in n \cap 0 .. 4}

\* Down is MXCSR's 01, up its 10, towards zero 11.
to_SSE_RoundMode(r) == CASE r = RNE -> {} [] r = RDN -> {13} [] r = RUP -> {14} [] r = RTZ -> {13, 14}
to_RISCV_RoundMode(n) == CHOOSE r \in Supported : to_SSE_RoundMode(r) = n

RoundBits(r) == to_SSE_RoundMode(r)
RoundOf(n) == to_RISCV_RoundMode(n \cap RoundField)

ShiftLeft(n, k) == {b + k : b \in n}
ShiftRight(n, k) == {b - k : b \in {c \in n : c >= k}}

-----------------------------------------------------------------------------
(* manualCSRR                                                              *)

FpCsrs == {"FFLAGS", "FRM", "FCSR"}

ReadCsr(c) ==
    CASE c = "FFLAGS" -> to_RISCV_flags(mxcsr)
      [] c = "FRM"    -> RoundOf(mxcsr)
      [] c = "FCSR"   -> to_RISCV_flags(mxcsr) \cup ShiftLeft(RoundOf(mxcsr), FE_COUNT_RISCV)

\* Mutant: the mask of CSRRC is not inverted.
MaskNotInverted(op, old, src) == CASE op = "CSRRW" -> src
                                   [] op = "CSRRS" -> old \cup src
                                   [] op = "CSRRC" -> old \cap src

Modified(op, old, src) == CASE op = "CSRRW" -> src
                            [] op = "CSRRS" -> old \cup src
                            [] op = "CSRRC" -> old \ src

\* The rounding mode that a value written to c asks for.
RoundAsked(c, v) == (IF c = "FCSR" THEN ShiftRight(v, FE_COUNT_RISCV) ELSE v) \cap 0 .. 2

WithFlags(n, v) == (n \ SSE_FLAGS_MASK) \cup to_SSE_flags(v)
WithRound(n, r) == (n \ RoundField) \cup RoundBits(r)

WriteCsr(c, v) ==
    CASE c = "FFLAGS" -> /\ mxcsr' = WithFlags(mxcsr, v) /\ UNCHANGED stopped
      [] OTHER ->
            LET r == RoundAsked(c, v)
                n == IF c = "FCSR" THEN WithFlags(mxcsr, v) ELSE mxcsr
            IN  IF r \in Supported
                THEN mxcsr' = WithRound(n, r) /\ UNCHANGED stopped
                ELSE stopped' = TRUE /\ UNCHANGED mxcsr

\* A CSR instruction is [op, c, rd, rs1, uimm]; in the forms with an immediate
\* rs1 is "uimm", in the others uimm is 0.
Immediates == {v \in Inputs : v \subseteq 0 .. 4}
Instrs(cs) == {i \in
    [op : {"CSRRW", "CSRRS", "CSRRC"}, c : cs, rd : {o[1] : o \in Operands},
     rs1 : {o[2] : o \in Operands} \cup {"uimm"}, uimm : Immediates] :
    i.rs1 # "uimm" => i.uimm = {} /\ <<i.rd, i.rs1>> \in Operands}

Value(r) == IF r = "x0" THEN {} ELSE gp_file[r]
Source(i) == IF i.rs1 = "uimm" THEN i.uimm ELSE Value(i.rs1)
NoSource(i) == i.rs1 \in {"x0", "uimm"} /\ i.uimm = {}
ReadsOnly(i) == NoSource(i) /\ i.op # "CSRRW"

Idle == stage = "idle" /\ ~stopped

MANUAL_CSRR(i) ==
    /\ Idle
    /\ gp_file' = IF i.rd = "x0" THEN gp_file ELSE [gp_file EXCEPT ![i.rd] = ReadCsr(i.c)]
    /\ IF ReadsOnly(i) THEN UNCHANGED <<mxcsr, stopped>>
       ELSE WriteCsr(i.c, Modified(i.op, ReadCsr(i.c), Source(i)))
    /\ UNCHANGED <<fctrl, csr_file, stage, round, used>>

-----------------------------------------------------------------------------
(* The other CSRs: one 8 byte cell each, addressed by the instruction's    *)
(* immediate, which is sign-extended from 12 bits (parser.c).              *)

Index(c) == IF FileCsrs[c] >= 2048 THEN FileCsrs[c] - 4096 ELSE FileCsrs[c]
Cell(i) == IF i \in DOMAIN csr_file THEN csr_file[i] ELSE {}

\* rd is loaded first, and rs1 is read afterwards.
CSRR(i) ==
    LET n == Index(i.c)
        old == Cell(n)
        src == IF i.rs1 = i.rd /\ i.rd # "x0" THEN old ELSE Source(i)
    IN  /\ Idle
        /\ gp_file' = IF i.rd = "x0" THEN gp_file ELSE [gp_file EXCEPT ![i.rd] = old]
        /\ csr_file' = [k \in DOMAIN csr_file \cup {n} |->
               IF k # n THEN csr_file[k] ELSE IF ReadsOnly(i) THEN old ELSE Modified(i.op, old, src)]
        /\ UNCHANGED <<mxcsr, fctrl, stage, round, used, stopped>>

-----------------------------------------------------------------------------
(* One floating point instruction: its rounding mode is in MXCSR while its *)
(* host instruction executes.                                              *)

\* The element of the array of 4 byte words at an offset in bytes.
Element(offset) == offset \div 4
SAVE == Element(0)
SCRATCH == Element(8 * 1)

SetRound(rm) == (mxcsr \ RoundField) \cup RoundBits(rm)

saveAndSetRound(rm) ==
    /\ Idle
    /\ IF rm \in Supported
       THEN /\ mxcsr' = SetRound(rm)
            /\ fctrl' = [k \in {SAVE, SCRATCH} |->
                            IF k = SAVE THEN mxcsr \cap RoundField ELSE SetRound(rm)]
            /\ stage' = "set" /\ round' = rm /\ UNCHANGED stopped
       ELSE stopped' = TRUE /\ UNCHANGED <<mxcsr, fctrl, stage, round>>
    /\ UNCHANGED <<gp_file, csr_file, used>>

\* The host instruction; with DYN nothing is set before and restored after.
Operate(rm, raised) ==
    /\ ~stopped
    /\ IF rm = DYN THEN stage = "idle" /\ UNCHANGED stage
       ELSE stage = "set" /\ round = rm /\ stage' = "computed"
    /\ used' = RoundOf(mxcsr)
    /\ mxcsr' = mxcsr \cup raised
    /\ UNCHANGED <<gp_file, fctrl, csr_file, round, stopped>>

\* Mutant: MXCSR is loaded as it was saved.
SavedOnly == fctrl[SAVE] \cup EXCEPTION_MASKS

Restored == fctrl[SAVE] \cup (mxcsr \ RoundField)

restoreFpRound ==
    /\ stage = "computed"
    /\ mxcsr' = Restored
    /\ fctrl' = <<>>
    /\ stage' = "idle" /\ round' = RNE
    /\ UNCHANGED <<gp_file, csr_file, used, stopped>>

\* Any other guest instruction.
Compute(r, v) ==
    /\ Idle
    /\ gp_file' = [gp_file EXCEPT ![r] = v]
    /\ UNCHANGED <<mxcsr, fctrl, csr_file, stage, round, used, stopped>>

Init ==
    /\ gp_file = [r \in Regs |-> {}]
    /\ mxcsr = EXCEPTION_MASKS
    /\ fctrl = <<>> /\ csr_file = <<>>
    /\ stage = "idle" /\ round = RNE /\ used = RNE /\ stopped = FALSE

Next ==
    \/ \E r \in Regs, v \in Inputs : Compute(r, v)
    \/ \E i \in Instrs(FpCsrs) : MANUAL_CSRR(i)
    \/ \E i \in Instrs(DOMAIN FileCsrs) : CSRR(i)
    \/ \E rm \in Modes \ {DYN} : saveAndSetRound(rm)
    \/ \E rm \in Modes, raised \in Raises : Operate(rm, raised)
    \/ restoreFpRound

Spec == Init /\ [][Next]_vars

-----------------------------------------------------------------------------
(* Properties.                                                             *)

\* What an instance has to be: a host instruction raises flags only, and numbers
\* of CSRs have 12 bits.
FloatAssumption ==
    /\ Regs \cap {"x0", "uimm"} = {}
    /\ Operands \subseteq (Regs \cup {"x0"}) \X (Regs \cup {"x0"})
    /\ \A v \in Inputs : v \subseteq Int
    /\ \A f \in Raises : f \subseteq 0 .. 5
    /\ DOMAIN FileCsrs \cap FpCsrs = {}
    /\ \A c, d \in DOMAIN FileCsrs :
          FileCsrs[c] \in 0 .. 4095 /\ (FileCsrs[c] = FileCsrs[d] => c = d)

TypeOK ==
    /\ gp_file \in [Regs -> SUBSET (0 .. WIDTH - 1)]
    /\ mxcsr \subseteq 0 .. 14
    /\ \A k \in DOMAIN fctrl : fctrl[k] \subseteq 0 .. 14
    /\ \A i \in DOMAIN csr_file : csr_file[i] \subseteq 0 .. WIDTH - 1
    /\ stage \in {"idle", "set", "computed"}
    /\ {round, used} \subseteq Supported
    /\ stopped \in BOOLEAN

\* No write of flags or of a rounding mode, in any order, unmasks a host
\* exception: guest floating point code never traps (manualCSRR, util.h).
ExceptionsMasked == EXCEPTION_MASKS \subseteq mxcsr

\* The rounding mode the guest has set, also while an instruction's own one
\* is in MXCSR.
GuestRound == IF fctrl = <<>> THEN RoundOf(mxcsr) ELSE RoundOf(fctrl[SAVE])

Promise == INSTANCE ControlRegisters WITH
    x <- gp_file,
    fcsr <- to_RISCV_flags(mxcsr) \cup ShiftLeft(GuestRound, FE_COUNT_RISCV),
    csrs <- [c \in DOMAIN FileCsrs |-> Cell(Index(c))],
    Others <- DOMAIN FileCsrs

\* translate_CSRRW and its like overwrite an rs1 that is also rd before they read it.
SameRegister(i) == i.rs1 = i.rd /\ i.rd # "x0"

\* A CSR instruction does to registers, flags and rounding mode what the RISC-V
\* specification says it does, over the bits of MXCSR, or ends the program
\* (manualCSRR, translate_csr.c).  In one case it does not: of the CSRs in the
\* register file, rd = rs1 is modified with its own old value in place of rs1's.
\* manualCSRR keeps rs1 and has no such case.
CsrStep == ~stopped' =>
    /\ \A i \in Instrs(FpCsrs) : MANUAL_CSRR(i) => Promise!Csr(i, Source(i), NoSource(i))
    /\ \A i \in Instrs(DOMAIN FileCsrs) : CSRR(i) =>
          Promise!Csr(i, IF SameRegister(i) THEN Promise!Read(i.c) ELSE Source(i), NoSource(i))
CsrAsPromised == [][CsrStep]_vars

\* A floating point instruction rounds by the mode it asks for, its flags
\* accrue, and around it the guest's mode and flags never seem to change
\* (saveAndSetRound, restoreFpRound).
RoundingStep ==
    /\ \A rm \in Modes, raised \in Raises :
          Operate(rm, raised) => Promise!Operate(rm, to_RISCV_flags(raised))
    /\ \A rm \in Modes : saveAndSetRound(rm) => UNCHANGED Promise!vars
    /\ restoreFpRound => UNCHANGED Promise!vars
RoundingAsPromised == [][RoundingStep]_vars

=============================================================================
