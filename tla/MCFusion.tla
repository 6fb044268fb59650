------------------------------ MODULE MCFusion ------------------------------
(* Small instances of Fusion: 8 bit words with 4 bit halves, immediates of 3 *)
(* bits, 0xff is 3, two registers and x0.                                  *)
EXTENDS Fusion, TLC

CONSTANTS ra, rb    \* guest registers

MCRegs == {x0, ra, rb}

\* Values with both signs in either half.
MCFiles == {(x0 :> 0) @@ (ra :> u) @@ (rb :> v) : u \in {5, 143, 240}, v \in {0, 120, 200}}

Instr(m, rs1, rs2, rd, imm) == [mnem |-> m, rs1 |-> rs1, rs2 |-> rs2, rd |-> rd, imm |-> imm]
I(m, rs1, rd, imm) == Instr(m, rs1, x0, rd, imm)
R(m, rs1, rs2, rd) == Instr(m, rs1, rs2, rd, 0)

\* A block: the instructions with their addresses, and its last jump.
BlockOf(s) ==
    LET e == Append(s, I("END", x0, x0, 0))
    IN  [k \in 0 .. Len(e) - 1 |-> [addr |-> k] @@ e[k + 1]]

\* Upper immediates have their low bits zero.
Uppers == {I(m, x0, rd, imm) : m \in {"LUI", "AUIPC"}, rd \in {x0, ra, rb}, imm \in {-8, 0}}
Adds == {I("ADDI", rs1, rd, imm) : rs1 \in {x0, ra, rb}, rd \in {x0, ra, rb}, imm \in {-3, 0, 2}}
AddWs == {I("ADDIW", rs1, rd, imm) : rs1 \in {x0, ra, rb}, rd \in {ra, rb}, imm \in {-3, 0}}
Shifts == {I(m, rs1, rd, imm) : m \in {"SLLI", "SRLI"}, rs1 \in {ra, rb}, rd \in {ra, rb},
                               imm \in {1, HALF, HALF + 1}}
Masks == {I("ANDI", rs1, rd, imm) : rs1 \in {ra, rb}, rd \in {ra, rb}, imm \in {1, FF}}
Loads == {I(m, rs1, rd, 1) : m \in {"LW", "LD"}, rs1 \in {ra, rb}, rd \in {ra, rb}}
Sets == {I("SLTIU", rs1, rd, 1) : rs1 \in {x0, ra}, rd \in {ra, rb}}
        \cup {I("XORI", rs1, rd, -1) : rs1 \in {x0, ra}, rd \in {ra, rb}}
        \cup {R(m, x0, rs2, rd) : m \in {"SUB", "SUBW", "SLT", "SLTU"},
                                  rs2 \in {x0, ra, rb}, rd \in {x0, ra, rb}}
        \cup {R("SUB", ra, rb, ra), R("SLT", ra, rb, rb), R("SLTU", rb, ra, rb)}

Kinds == Uppers \cup Adds \cup AddWs \cup Shifts \cup Masks \cup Loads \cup Sets

\* Every two instructions that can be the start of a pattern and what may follow,
\* and every three of those the longer patterns and their parts are made of.
Firsts == Uppers \cup AddWs \cup Shifts
Thirds == {e \in AddWs \cup Shifts \cup Masks : e.imm \in {-3, HALF, FF} /\ e.rs1 # x0}
ShortBlocks ==
    {BlockOf(<<p, q>>) : p \in Firsts, q \in Adds \cup AddWs \cup Shifts \cup Masks \cup Loads}
    \cup {BlockOf(<<e>>) : e \in Kinds}
    \cup {BlockOf(<<p, q, r>>) : p \in Thirds, q \in Thirds, r \in Thirds}

\* Occurrences of the longer patterns, which contain shorter ones ...
IncMem == <<I("AUIPC", x0, ra, 0), I("ADDI", ra, ra, 2), I("LW", ra, rb, 1), I("ADDIW", rb, rb, 1),
            Instr("SW", ra, rb, x0, 1)>>
Masked == <<I("LUI", x0, ra, -8), I("ADDI", ra, rb, 0), I("SLLI", ra, ra, HALF), I("SRLI", ra, ra, HALF)>>
AddLow == <<I("ADDIW", ra, rb, -3), I("SLLI", rb, rb, HALF), I("SRLI", rb, rb, HALF)>>

\* ... between instructions that can be part of occurrences with them.
Around == {I("AUIPC", x0, ra, 0), I("LUI", x0, rb, -8), I("ADDI", ra, ra, 0), I("ADDIW", ra, rb, 0),
           I("SLLI", rb, rb, HALF), I("SRLI", rb, rb, HALF), I("ANDI", rb, rb, FF)}
UpTo1(S) == {<<>>} \cup {<<e>> : e \in S}
UpTo2(S) == UpTo1(S) \cup {<<e, f>> : e \in S, f \in S}

OverlappingBlocks == {BlockOf(p \o o \o q) : p \in UpTo2(Around), q \in UpTo1(Around),
                                             o \in {IncMem, Masked, AddLow}}

MCBlocks == ShortBlocks \cup OverlappingBlocks

ASSUME SmallWords == PowersOf2 /\ BitFacts

\* SameEffect fails for each of these as Blocks: the two patterns whose code is
\* not equivalent, SLTZ, and SEXTW with x0.
IncMemBlocks == {BlockOf(IncMem)}
MaskedBlocks == {BlockOf(Masked)}
SltzBlocks == {BlockOf(<<R("SLT", rs1, x0, rd)>>) : rs1 \in {ra, rb}, rd \in {ra, rb}}
SextwX0Blocks == {BlockOf(<<I("ADDIW", rs1, x0, 0), I("ADDIW", x0, rd, 0)>>) : rs1 \in {ra, rb}, rd \in {ra, rb}}
=============================================================================
