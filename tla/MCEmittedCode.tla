--------------------------- MODULE MCEmittedCode ---------------------------
(***************************************************************************)
(* Small instances of IntegerCode and of FloatCode, which share nothing:   *)
(* `part` says which of them a behaviour is of.  Integers are 8 bit words  *)
(* with 4 bit halves, and so are those that numbers are converted from and *)
(* to; the bits of a floating point value need words of 24.  Operands come *)
(* in all ways in which they can be the same and be mapped or not.         *)
(***************************************************************************)
EXTENDS IntegerCode

CONSTANT NaN

VARIABLE part   \* "integers", "numbers" or "bits"

MCMap == [a5 |-> "BX", a4 |-> "BP", a3 |-> "SI"]
MCUnmapped == {"t0", "t1", "t2"}

\* The edges of both widths, signed and unsigned, and numbers in between.
MCValues == {0, 1, 7, 8, 15, 16, 127, 128, 143, 200, 255}
MCCells == {0, 7, 8, 143, 255}
Imms == {-4, -1, 0, 1, 2, 3}
ShiftImms == 0 .. XLEN - 1

\* One of the patterns of equal operands, each mapped or not.
Triples == {<<p, q, r>> \in {"t0", "a5"} \X {"t0", "a5", "t1", "a4"} \X {"t0", "a5", "t1", "a4", "t2", "a3"} :
               q \in {"t1", "a4", p} /\ r \in {"t2", "a3", p, q}}

Form(mn, p, q, r, imm) == [mnem |-> mn, rs1 |-> p, rs2 |-> q, rd |-> r, imm |-> imm]
TwoOperands == {t \in Triples : t[2] = t[1]}

ImmForms ==
    {Form(mn, t[1], t[1], t[3], imm) : mn \in ImmOps \ {"SLLI", "SRLI", "SRAI", "SLLIW", "SRLIW", "SRAIW"},
                                        t \in TwoOperands, imm \in Imms}
    \cup {Form(mn, t[1], t[1], t[3], imm) : mn \in {"SLLI", "SRLI", "SRAI", "SLLIW", "SRLIW", "SRAIW"},
                                            t \in TwoOperands, imm \in ShiftImms}
RegForms(ops) == {Form(mn, t[1], t[2], t[3], 0) : mn \in ops, t \in Triples}

\* rs1 and rs2 the same unmapped register: Replacements shows what goes wrong.
Distinct(f) == f.rs1 # f.rs2 \/ f.rs1 \in gp_mapped

AdmitsAll(f, a, b) == TRUE

ArithmeticForms == ImmForms \cup RegForms(RegOps \cup ShiftOps)
MulDivForms == {f \in RegForms(MulHighOps \cup DivOps) : Distinct(f)}
MemoryForms ==
    {Form(mn, t[1], t[1], t[3], IF mn \in {"LRW", "LRD"} THEN 0 ELSE 1) : mn \in LoadOps, t \in TwoOperands}
    \cup {Form(mn, t[1], t[2], t[1], 1) : mn \in {"SB", "SH", "SW", "SD"}, t \in Triples}
    \cup RegForms({"SCW", "SCD"} \cup AmoOps)
    \cup {f \in RegForms(MinMaxOps) : Distinct(f)}

MCForms == ArithmeticForms \cup MulDivForms \cup MemoryForms

\* The arithmetic that the theorems of EmittedCodeProofs assume is so here.
ASSUME SmallWords == SizeFacts

-----------------------------------------------------------------------------
(* The forms of FloatCode.                                                 *)

GpMap == [a5 |-> "BX"]
FpMap == [fa0 |-> "XMM2", fa1 |-> "XMM3", fa2 |-> "XMM4"]
FpUnmapped == {"ft0", "ft1", "ft2"}

FpRegs == {"fa0", "fa1", "ft0", "ft1"}
GpPlaces == {<<"a5", "AX">>, <<"t0", "AX">>}         \* register, its place if unmapped
RsPlaces == {<<"a5", "AX">>, <<"t0", "AX">>, <<"t0", "DX">>, <<"t0", "CX">>}

FpForm(mn, p, q, r, d, rtz, at, imm) ==
    [mnem |-> mn, rs1 |-> p, rs2 |-> q, rs3 |-> r, rd |-> d, rtz |-> rtz, at |-> at, imm |-> imm]

Forms1(ops) == {FpForm(mn, p, "", "", d, FALSE, "AX", 0) : mn \in ops, p \in FpRegs, d \in FpRegs}
Forms2(ops) == {FpForm(mn, p, q, "", d, FALSE, "AX", 0) :
                    mn \in ops, p \in FpRegs, q \in FpRegs, d \in FpRegs \cup {"fa2", "ft2"}}
Forms3(ops) == {FpForm(mn, p, q, r, d, FALSE, "AX", 0) :
                    mn \in ops, p \in FpRegs, q \in FpRegs \cup {"fa2"}, r \in FpRegs \cup {"fa2", "ft2"},
                    d \in FpRegs \cup {"fa2", "ft2"}}
ToGp2(ops) == {FpForm(mn, p, q, "", g[1], FALSE, g[2], 0) :
                    mn \in ops, p \in FpRegs, q \in FpRegs, g \in GpPlaces}
ToGp1(ops, ps) == {FpForm(mn, p, "", "", g[1], rtz, g[2], 0) :
                    mn \in ops, p \in ps, g \in GpPlaces, rtz \in BOOLEAN}
FromGp(ops) == {FpForm(mn, g[1], "", "", d, FALSE, g[2], 0) :
                    mn \in ops, g \in RsPlaces, d \in {"fa0", "ft0"}}
FpLoads == {FpForm(mn, g[1], "", "", d, FALSE, g[2], 1) :
                    mn \in {"FLW", "FLD"}, g \in RsPlaces, d \in {"fa0", "ft0"}}
FpStores == {FpForm(mn, g[1], q, "", "fa2", FALSE, g[2], 1) :
                    mn \in {"FSW", "FSD"}, g \in RsPlaces, q \in {"fa0", "ft0"}}

\* A register minus itself into itself is zero, even for NaN.
IsZeroing(f) == f.mnem = "FSUB" /\ f.rs1 = f.rs2 /\ f.rs1 = f.rd
Sources(f) == {f.rs1, f.rs2, f.rs3} \ {""}

NumberForms1 == {f \in Forms2({"FADD", "FSUB", "FMUL", "FDIV", "FMIN", "FMAX"}) : ~IsZeroing(f)}
                \cup Forms1({"FSQRT", "FCVTDS", "FCVTSD"})
                \cup ToGp2({"FEQ", "FLT", "FLE"})
FusedForms == Forms3({"FMADD", "FMSUB", "FNMSUB", "FNMADD"})
FromIntForms == FromGp({"FCVTFW", "FCVTFWU", "FCVTFL", "FCVTSLU", "FCVTDLU"})

\* An FCVTWU or FCVTLU of a mapped register compares another one.
ToIntForms == ToGp1({"FCVTW", "FCVTL", "FCVTWU", "FCVTLU"}, {"ft0"}) \cup ToGp1({"FCVTW", "FCVTL"}, {"fa0"})
NumberForms == NumberForms1 \cup FusedForms \cup FromIntForms \cup ToIntForms

\* The halves whose integers the instruction's result can be.
Within(mn) == CASE mn = "FCVTW"  -> -(2^HALF) .. 2^HALF - 2
                [] mn = "FCVTL"  -> -(2^XLEN) .. 2^XLEN - 2
                [] mn = "FCVTWU" -> -(2^XLEN) .. 2^HALF - 2
                [] mn = "FCVTLU" -> -(2^XLEN) .. 2^(XLEN + 1) - 2

Prime(r) == CASE r = "fa0" -> 2 [] r = "fa1" -> 3 [] r = "fa2" -> 5
              [] r = "ft0" -> 7 [] r = "ft1" -> 11 [] r = "ft2" -> 13

Numbers(f) == CASE f \in FusedForms -> {[r \in Sources(f) |-> Prime(r)]}
                [] f \in FromIntForms -> [Sources(f) -> Word]
                [] f \in ToIntForms -> [Sources(f) -> Within(f.mnem)]
                [] OTHER -> [Sources(f) -> {-3, 2, 77, NaN}]

\* FIRST and SECOND hold what nobody loaded: below and above zero.
Leftover == {-5, 9}

-----------------------------------------------------------------------------
(* Bits: a single precision value is the lower half of its register.       *)

WIDE == 24
PART == 12
MANTS == 7
MANTD == 18

SingleSign == {"FSGNJS", "FSGNJNS", "FSGNJXS"}
DoubleSign == {"FSGNJD", "FSGNJND", "FSGNJXD"}
BitForms == {f \in Forms2(SingleSign \cup DoubleSign) : f.rd \in FpRegs}
            \cup ToGp1({"FCLASSS", "FCLASSD", "FMVXW", "FMVXD"}, {"ft0", "fa0"})
            \cup FromGp({"FMVWX", "FMVDX"}) \cup FpLoads \cup FpStores

\* Both signs, the two exponents at each end, the edges of the mantissa.
Edges(w, mant) == {s * 2^(w - 1) + e * 2^mant + t :
                      s \in {0, 1}, e \in {0, 1, 2^(w - 1 - mant) - 2, 2^(w - 1 - mant) - 1},
                      t \in {0, 1, 2^(mant - 1) - 1, 2^(mant - 1), 2^mant - 1}}
Few(w, mant) == {v \in Edges(w, mant) : v % 2^(mant - 1) = 0 /\ (v \div 2^mant) % 4 # 0}
Bits(f) ==
    CASE f.mnem \in {"FCLASSS", "FMVXW", "FMVWX"} ->
            [Sources(f) -> {v + 2^PART * g : v \in Edges(PART, MANTS), g \in {0, 2^(PART - 1) + 1}}]
      [] f.mnem \in {"FCLASSD", "FMVXD", "FMVDX"} -> [Sources(f) -> Edges(WIDE, MANTD)]
      [] f.mnem \in SingleSign -> [Sources(f) -> Few(PART, MANTS)]
      [] f.mnem \in DoubleSign -> [Sources(f) -> Few(WIDE, MANTD)]
      [] OTHER -> [Sources(f) -> {1, 2^PART + 7, 2^(WIDE - 1) + 3}]

-----------------------------------------------------------------------------

N == INSTANCE FloatCode WITH
        gp_map <- GpMap, fp_map <- FpMap, Forms <- NumberForms, Valuations <- Numbers,
        Stales <- Leftover, Cells <- {0}, PRECISION <- 4, MantS <- 1, MantD <- 3

B == INSTANCE FloatCode WITH
        XLEN <- WIDE, HALF <- PART, SHORT <- 10, BYTE <- 8,
        gp_map <- GpMap, fp_map <- FpMap, Forms <- BitForms, Valuations <- Bits,
        Stales <- {9}, Cells <- {0, 4099}, PRECISION <- 4, MantS <- MANTS, MantD <- MANTD

\* The premise of the theorem on FloatCode in EmittedCodeProofs.
ASSUME FloatForms == N!FormsAssumption /\ B!FormsAssumption

MCInit == \/ part = "integers" /\ Init
          \/ part = "numbers" /\ N!Init
          \/ part = "bits" /\ B!Init

MCNext == \/ part = "integers" /\ Step /\ UNCHANGED part
          \/ part = "integers" /\ StepJump /\ UNCHANGED part
          \/ part = "numbers" /\ N!Step /\ UNCHANGED part
          \/ part = "numbers" /\ N!StepJump /\ UNCHANGED part
          \/ part = "bits" /\ B!Step /\ UNCHANGED part

MCSpec == MCInit /\ [][MCNext]_<<vars, part>>

\* When the code emitted for an instruction has run, its destination and memory
\* hold what the guest instruction computes, whichever operands are the same,
\* share a host register or are mapped (every translate_* of the four files).
RightResult == CASE part = "integers" -> ComputesResult
                 [] part = "numbers" -> N!ComputesResult
                 [] part = "bits" -> B!ComputesResult

\* No emitted code changes a register that the translator goes on to rely on.
RegistersKept == CASE part = "integers" -> OthersKept
                   [] part = "numbers" -> N!OthersKept
                   [] part = "bits" -> B!OthersKept
=============================================================================
