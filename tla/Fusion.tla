------------------------------- MODULE Fusion -------------------------------
(***************************************************************************)
(* Instruction fusion (src/src/gen/optimize.c, gen/instr/patterns.c):      *)
(* optimize_patterns looks for each pattern in turn in the parsed block    *)
(* and marks the first instruction of an occurrence PATTERN_EMIT;          *)
(* translate_pattern_emit later emits the pattern's replacement and makes  *)
(* SILENT_NOPs of the rest.  Between the two the marked buffer still holds *)
(* the other instructions of the occurrence, where shorter patterns match. *)
(*                                                                         *)
(* The guest executes the block as it was parsed, the host executes what   *)
(* was emitted.  Words are scaled (Words.tla); 0xff is 2^BYTE - 1.  A      *)
(* memory address names one word, SW writes the lower half of it.          *)
(***************************************************************************)
EXTENDS Words, Sequences, FiniteSets

CONSTANTS BYTE,      \* the bits of 0xff
          Regs, x0,  \* guest registers, and the one that is zero
          Blocks,    \* parsed blocks: functions from 0 .. n - 1 to instructions
          Files      \* contents of the registers when the block is entered

ASSUME FusionAssumption ==
    /\ BYTE \in 1 .. HALF
    /\ x0 \in Regs /\ x0 \notin {"DONT_CARE", "rd_h1", "rd_h2", "not_rd_h1"}
    /\ Files \subseteq {f \in [Regs -> Word] : f[x0] = 0}

Mnemonics == {"LUI", "AUIPC", "ADDI", "ADDIW", "SLLI", "SRLI", "ANDI", "XORI", "SLTIU", "SUB",
              "SUBW", "SLT", "SLTU", "LW", "LD", "SW", "END"}

\* The parser leaves no marks in a block: PATTERN_EMIT and SILENT_NOP are not parsed.
ASSUME BlocksAssumption == \A b \in Blocks :
    /\ IsFiniteSet(DOMAIN b) /\ DOMAIN b = 0 .. Cardinality(DOMAIN b) - 1
    /\ \A k \in DOMAIN b :
          /\ b[k].mnem \in Mnemonics
          /\ b[k].rs1 \in Regs /\ b[k].rs2 \in Regs /\ b[k].rd \in Regs
          /\ b[k].addr \in Int /\ b[k].imm \in Int
          /\ b[k].mnem \in {"SLLI", "SRLI"} => b[k].imm \in 0 .. XLEN - 1

VARIABLES block,          \* the block as parsed
          mnem, optype,   \* these fields of block_cache, where marks are left
          i, j,           \* the loops of optimize_patterns
          t,              \* the instruction translate_block_instructions is at
          phase,
          guest, host,    \* registers and memory: as the block says, as emitted
          times           \* how often each instruction was given effect

vars == <<block, mnem, optype, i, j, t, phase, guest, host, times>>

-----------------------------------------------------------------------------
(* The machine.  regs[x0] is the slot of x0 in the register file.          *)

Get(m, r) == IF r = x0 THEN 0 ELSE m.regs[r]
Put(m, r, v) == IF r = x0 THEN m ELSE [m EXCEPT !.regs[r] = W(v)]

\* Words that were never written hold their own address.
Load(m, a) == IF W(a) \in DOMAIN m.mem THEN m.mem[W(a)] ELSE W(a)
Store(m, a, v) ==
    [m EXCEPT !.mem = [b \in DOMAIN @ \cup {W(a)} |-> IF b = W(a) THEN v ELSE @[b]]]
StoreLow(m, a, v) == Store(m, a, High(Load(m, a)) * 2^HALF + Low(v))

If(b) == IF b THEN 1 ELSE 0

\* One instruction; END stands for the jump or branch at the end of a block.
Execute(m, e) ==
    LET s1 == Get(m, e.rs1)
        s2 == Get(m, e.rs2)
    IN  CASE e.mnem = "LUI"   -> Put(m, e.rd, e.imm)
          [] e.mnem = "AUIPC" -> Put(m, e.rd, e.addr + e.imm)
          [] e.mnem = "ADDI"  -> Put(m, e.rd, s1 + e.imm)
          [] e.mnem = "ADDIW" -> Put(m, e.rd, Sext(s1 + e.imm))
          [] e.mnem = "SLLI"  -> Put(m, e.rd, s1 * 2^e.imm)
          [] e.mnem = "SRLI"  -> Put(m, e.rd, s1 \div 2^e.imm)
          [] e.mnem = "ANDI"  -> Put(m, e.rd, And(s1, W(e.imm)))
          [] e.mnem = "XORI"  -> Put(m, e.rd, Xor(s1, W(e.imm)))
          [] e.mnem = "SLTIU" -> Put(m, e.rd, If(s1 < W(e.imm)))
          [] e.mnem = "SUB"   -> Put(m, e.rd, s1 - s2)
          [] e.mnem = "SUBW"  -> Put(m, e.rd, Sext(s1 - s2))
          [] e.mnem = "SLT"   -> Put(m, e.rd, If(Signed(s1) < Signed(s2)))
          [] e.mnem = "SLTU"  -> Put(m, e.rd, If(s1 < s2))
          [] e.mnem = "LW"    -> Put(m, e.rd, Sext(Load(m, s1 + e.imm)))
          [] e.mnem = "LD"    -> Put(m, e.rd, Load(m, s1 + e.imm))
          [] e.mnem = "SW"    -> StoreLow(m, s1 + e.imm, s2)
          [] e.mnem = "END"   -> m

\* What proofs ask of the bits; it holds of any width.
BitFacts ==
    /\ \A u, v \in Word : And(u, v) \in Word /\ Xor(u, v) \in Word
    /\ \A u \in Word : And(u, 2^BYTE - 1) = u % 2^BYTE /\ Xor(u, 2^XLEN - 1) = 2^XLEN - 1 - u

-----------------------------------------------------------------------------
(* The patterns: for every instruction its mnemonic, what is asked of rs1, *)
(* rs2 and rd (nothing, a register, or to be or not to be the rd of the    *)
(* h1-th or h2-th instruction), and what of the immediate: nothing (0), a  *)
(* value (1) or to be that of another instruction (2).                     *)

DONT_CARE == "DONT_CARE"

Element(m, rs1, rs2, rd, h1, h2, imm, value) ==
    [mnem |-> m, rs1 |-> rs1, rs2 |-> rs2, rd |-> rd, h1 |-> h1, h2 |-> h2,
     imm |-> imm, imm_value |-> value]

\* Nothing is asked but the mnemonic.
AnyOf(m) == Element(m, DONT_CARE, DONT_CARE, DONT_CARE, 0, 0, 0, 0)
AnyWith(m, value) == Element(m, DONT_CARE, DONT_CARE, DONT_CARE, 0, 0, 1, value)

\* rs1 and rd are both the rd of the h-th instruction.
Onto(m, h) == Element(m, "rd_h1", DONT_CARE, "rd_h1", h, 0, 0, 0)
OntoWith(m, h, value) == Element(m, "rd_h1", DONT_CARE, "rd_h1", h, 0, 1, value)

Zero1(m) == Element(m, x0, DONT_CARE, DONT_CARE, 0, 0, 0, 0)
Zero2(m) == Element(m, DONT_CARE, x0, DONT_CARE, 0, 0, 0, 0)

FF == 2^BYTE - 1

p_2_elem == <<AnyOf("AUIPC"),
              Element("ADDI", "rd_h1", DONT_CARE, DONT_CARE, 0, 0, 0, 0),
              Element("LW", "rd_h1", DONT_CARE, DONT_CARE, 1, 0, 0, 0),
              Element("ADDIW", "rd_h1", DONT_CARE, DONT_CARE, 2, 0, 0, 0),
              Element("SW", "rd_h1", "rd_h2", DONT_CARE, 0, 3, 2, 2)>>
p_9_elem == <<AnyOf("LUI"),
              Element("ADDI", "rd_h1", DONT_CARE, "not_rd_h1", 0, 0, 1, 0),
              Element("SLLI", "not_rd_h1", DONT_CARE, "rd_h2", 1, 0, 1, HALF),
              OntoWith("SRLI", 2, HALF)>>
p_7_elem == <<AnyOf("ADDIW"), OntoWith("SLLI", 0, HALF), OntoWith("SRLI", 0, HALF)>>
p_3_elem == <<AnyOf("AUIPC"), Onto("ADDI", 0)>>
p_4_elem == <<AnyOf("AUIPC"), Onto("LW", 0)>>
p_5_elem == <<AnyOf("AUIPC"), Onto("LD", 0)>>
p_6_elem == <<AnyWith("SLLI", HALF), OntoWith("SRLI", 0, HALF)>>
p_21_elem == <<AnyWith("SLLI", HALF), Onto("SRLI", 0)>>
\* Mutant: the ADDI may go to another register.
p_19_any_rd == <<AnyOf("LUI"), Element("ADDI", "rd_h1", DONT_CARE, DONT_CARE, 0, 0, 0, 0)>>
p_19_elem == <<AnyOf("LUI"), Onto("ADDI", 0)>>
p_23_elem == <<AnyOf("ADDIW"), OntoWith("ANDI", 0, FF)>>

\* In the order of the table: longer patterns before those they contain.
patterns == <<
    <<"p2", p_2_elem>>, <<"p9", p_9_elem>>, <<"p7", p_7_elem>>, <<"p3", p_3_elem>>,
    <<"p4", p_4_elem>>, <<"p5", p_5_elem>>, <<"p6", p_6_elem>>, <<"p21", p_21_elem>>,
    <<"p19", p_19_elem>>, <<"p23", p_23_elem>>,
    <<"MV", <<AnyWith("ADDI", 0)>> >>, <<"small_LI", <<Zero1("ADDI")>> >>,
    <<"SEXTW", <<AnyWith("ADDIW", 0)>> >>, <<"ZEXTB", <<AnyWith("ANDI", FF)>> >>,
    <<"NOP", <<Element("ADDI", x0, DONT_CARE, x0, 0, 0, 1, 0)>> >>,
    <<"NOT", <<AnyWith("XORI", -1)>> >>, <<"NEG", <<Zero1("SUB")>> >>,
    <<"NEGW", <<Zero1("SUBW")>> >>, <<"SEQZ", <<AnyWith("SLTIU", 1)>> >>,
    <<"SNEZ", <<Zero1("SLTU")>> >>, <<"SLTZ", <<Zero2("SLT")>> >>,
    <<"SGTZ", <<Zero1("SLT")>> >> >>

Name(p) == patterns[p][1]
Elements(p) == patterns[p][2]
PatternLen(p) == Len(Elements(p))
-----------------------------------------------------------------------------
(* Matching: `at` is the instruction an occurrence would start with.       *)

\* A condition on a register: the meta registers speak of another's rd.
RegAsked(asked, r, at, e) ==
    CASE asked = DONT_CARE   -> TRUE
      [] asked = "rd_h1"     -> r = block[at + e.h1].rd
      [] asked = "rd_h2"     -> r = block[at + e.h2].rd
      [] asked = "not_rd_h1" -> r # block[at + e.h1].rd
      [] OTHER               -> r = asked

ImmAsked(imm, at, e) ==
    CASE e.imm = 0 -> TRUE
      [] e.imm = 1 -> imm = e.imm_value
      [] e.imm = 2 -> imm = block[at + e.imm_value].imm

\* The instructions from `at` on, with these mnemonics, are what p asks for.
Fits(p, names, at) == \A k \in 0 .. PatternLen(p) - 1 :
    LET e == Elements(p)[k + 1]
        b == block[at + k]
    IN  /\ names[at + k] = e.mnem
        /\ RegAsked(e.rs1, b.rs1, at, e)
        /\ RegAsked(e.rs2, b.rs2, at, e)
        /\ RegAsked(e.rd, b.rd, at, e)
        /\ ImmAsked(b.imm, at, e)

Matches(p, at) == Fits(p, mnem, at)

-----------------------------------------------------------------------------
(* The emitted code of each pattern, at: its first instruction.            *)

emit_pattern_2(m, at) ==
    LET a == block[at].addr + block[at].imm + block[at + 1].imm + block[at + 2].imm
    IN  StoreLow(m, a, Load(m, a) + block[at + 3].imm)

emit_pattern_3(m, at) ==
    Put(m, block[at + 1].rd, block[at].addr + block[at].imm + block[at + 1].imm)

LoadAddress(at) == block[at].addr + block[at].imm + block[at + 1].imm
emit_pattern_4(m, at) == Put(m, block[at + 1].rd, Sext(Load(m, LoadAddress(at))))
emit_pattern_5(m, at) == Put(m, block[at + 1].rd, Load(m, LoadAddress(at)))

emit_pattern_6(m, at) == Put(m, block[at + 1].rd, Low(Get(m, block[at].rs1)))

emit_pattern_7(m, at) ==
    Put(m, block[at].rd, Low(Get(m, block[at].rs1) + block[at].imm))

\* SEXTW works on the register file, the slot of x0 included.
emit_pattern_8_SEXTW(m, at) ==
    [m EXCEPT !.regs[block[at].rd] = Sext(m.regs[block[at].rs1])]

emit_pattern_9(m, at) == emit_pattern_6(Put(m, block[at].rd, block[at].imm), at + 2)

emit_pattern_10_NOP(m, at) == m
emit_pattern_11_MV(m, at) == Put(m, block[at].rd, Get(m, block[at].rs1))
emit_pattern_12_NOT(m, at) == Put(m, block[at].rd, 2^XLEN - 1 - Get(m, block[at].rs1))
emit_pattern_13_NEG(m, at) == Put(m, block[at].rd, 0 - Get(m, block[at].rs2))
emit_pattern_14_NEGW(m, at) == Put(m, block[at].rd, Sext(0 - Get(m, block[at].rs2)))
emit_pattern_15_SEQZ(m, at) == Put(m, block[at].rd, If(Get(m, block[at].rs1) = 0))
emit_pattern_16_SNEZ(m, at) == Put(m, block[at].rd, If(Get(m, block[at].rs2) # 0))

\* The SHR64ri is emitted without its register: it shifts another one, by 0.
emit_pattern_17_SLTZ(m, at) == Put(m, block[at].rd, Get(m, block[at].rs1))

emit_pattern_18_SGTZ(m, at) == Put(m, block[at].rd, If(Signed(Get(m, block[at].rs2)) > 0))
emit_pattern_19_LI(m, at) == Put(m, block[at].rd, block[at].imm + block[at + 1].imm)
emit_pattern_20_small_LI(m, at) == Put(m, block[at].rd, block[at].imm)

emit_pattern_21(m, at) ==
    LET v == Low(Get(m, block[at].rs1))
        n == block[at + 1].imm
    IN  Put(m, block[at].rd, IF n < HALF THEN v * 2^(HALF - n) ELSE v \div 2^(n - HALF))

emit_pattern_22(m, at) == Put(m, block[at].rd, Get(m, block[at].rs1) % 2^BYTE)

emit_pattern_23(m, at) ==
    Put(m, block[at].rd, Low(Get(m, block[at].rs1) + block[at].imm) % 2^BYTE)

Emit(name, m, at) ==
    CASE name = "p2"   -> emit_pattern_2(m, at)
      [] name = "p3"   -> emit_pattern_3(m, at)
      [] name = "p4"   -> emit_pattern_4(m, at)
      [] name = "p5"   -> emit_pattern_5(m, at)
      [] name = "p6"   -> emit_pattern_6(m, at)
      [] name = "p7"   -> emit_pattern_7(m, at)
      [] name = "p9"   -> emit_pattern_9(m, at)
      [] name = "p21"  -> emit_pattern_21(m, at)
      [] name = "p19"  -> emit_pattern_19_LI(m, at)
      [] name = "p23"  -> emit_pattern_23(m, at)
      [] name = "MV"   -> emit_pattern_11_MV(m, at)
      [] name = "small_LI" -> emit_pattern_20_small_LI(m, at)
      [] name = "SEXTW" -> emit_pattern_8_SEXTW(m, at)
      [] name = "ZEXTB" -> emit_pattern_22(m, at)
      [] name = "NOP"  -> emit_pattern_10_NOP(m, at)
      [] name = "NOT"  -> emit_pattern_12_NOT(m, at)
      [] name = "NEG"  -> emit_pattern_13_NEG(m, at)
      [] name = "NEGW" -> emit_pattern_14_NEGW(m, at)
      [] name = "SEQZ" -> emit_pattern_15_SEQZ(m, at)
      [] name = "SNEZ" -> emit_pattern_16_SNEZ(m, at)
      [] name = "SLTZ" -> emit_pattern_17_SLTZ(m, at)
      [] name = "SGTZ" -> emit_pattern_18_SGTZ(m, at)

-----------------------------------------------------------------------------
(* optimize_patterns: for every pattern, for every place but the last one. *)

len == Cardinality(DOMAIN block)

Init ==
    /\ block \in Blocks
    /\ mnem = [k \in DOMAIN block |-> block[k].mnem]
    /\ optype = [k \in DOMAIN block |-> 0]
    /\ i = 1 /\ j = 0 /\ t = 0
    /\ phase = "match"
    /\ guest = [regs |-> <<>>, mem |-> <<>>] /\ host = guest
    /\ times = [k \in DOMAIN block |-> 0]

InBounds == j < len - PatternLen(i)

Mark ==
    /\ phase = "match" /\ i <= Len(patterns) /\ InBounds
    /\ Matches(i, j)
    /\ mnem' = [mnem EXCEPT ![j] = "PATTERN_EMIT"]
    /\ optype' = [optype EXCEPT ![j] = i]
    /\ j' = j + PatternLen(i)
    /\ UNCHANGED <<block, i, t, phase, guest, host, times>>

Mismatch ==
    /\ phase = "match" /\ i <= Len(patterns) /\ InBounds
    /\ ~Matches(i, j)
    /\ j' = j + 1
    /\ UNCHANGED <<block, mnem, optype, i, t, phase, guest, host, times>>

NextPattern ==
    /\ phase = "match" /\ i <= Len(patterns) /\ ~InBounds
    /\ i' = i + 1 /\ j' = 0
    /\ UNCHANGED <<block, mnem, optype, t, phase, guest, host, times>>

\* Matching is over; guest and host enter the block with the same registers.
Enter ==
    /\ phase = "match" /\ i > Len(patterns)
    /\ phase' = "emit"
    /\ \E f \in Files : guest' = [regs |-> f, mem |-> <<>>]
    /\ host' = guest'
    /\ UNCHANGED <<block, mnem, optype, i, j, t, times>>

(* translate_block_instructions, one instruction of the block at a time.   *)

\* The instructions whose effect the code emitted for t stands for.
Replaced == IF mnem[t] = "PATTERN_EMIT" THEN t .. t + PatternLen(optype[t]) - 1
            ELSE IF mnem[t] = "SILENT_NOP" THEN {} ELSE {t}

Advance ==
    /\ phase = "emit" /\ t < len
    /\ t' = t + 1
    /\ guest' = Execute(guest, block[t])
    /\ times' = [k \in DOMAIN times |-> IF k \in Replaced THEN times[k] + 1 ELSE times[k]]
    /\ UNCHANGED <<block, optype, i, j, phase>>

\* Mutant: the last instruction of the occurrence stays in the buffer.
SilencedButLast == [k \in DOMAIN mnem |->
    IF k \in t + 1 .. t + PatternLen(optype[t]) - 2 THEN "SILENT_NOP" ELSE mnem[k]]

Silenced == [k \in DOMAIN mnem |->
    IF k \in t + 1 .. t + PatternLen(optype[t]) - 1 THEN "SILENT_NOP" ELSE mnem[k]]

translate_pattern_emit ==
    /\ Advance
    /\ mnem[t] = "PATTERN_EMIT"
    /\ host' = Emit(Name(optype[t]), host, t)
    /\ mnem' = Silenced

translate_SILENT_NOP ==
    /\ Advance
    /\ mnem[t] = "SILENT_NOP"
    /\ UNCHANGED <<mnem, host>>

TranslatePlain ==
    /\ Advance
    /\ mnem[t] \notin {"PATTERN_EMIT", "SILENT_NOP"}
    /\ host' = Execute(host, block[t])
    /\ UNCHANGED mnem

Leave ==
    /\ phase = "emit" /\ t = len
    /\ phase' = "done"
    /\ UNCHANGED <<block, mnem, optype, i, j, t, guest, host, times>>

Next == \/ Mark \/ Mismatch \/ NextPattern \/ Enter
        \/ translate_pattern_emit \/ translate_SILENT_NOP \/ TranslatePlain \/ Leave

Spec == Init /\ [][Next]_vars

-----------------------------------------------------------------------------
(* Properties.                                                             *)

Machine(m) == /\ DOMAIN m.regs \in {{}, Regs}
              /\ \A r \in DOMAIN m.regs : m.regs[r] \in Word
              /\ \A a \in DOMAIN m.mem : a \in Word /\ m.mem[a] \in Word

\* Marks name patterns, loop counters stay where they index the block
\* (the loops of optimize_patterns and translate_block_instructions).
TypeOK ==
    /\ phase \in {"match", "emit", "done"}
    /\ i \in 1 .. Len(patterns) + 1 /\ j \in 0 .. len /\ t \in 0 .. len
    /\ \A k \in DOMAIN block : optype[k] \in 0 .. Len(patterns)
    /\ \A k \in DOMAIN block : mnem[k] = "PATTERN_EMIT" => optype[k] > 0
    /\ Machine(guest) /\ Machine(host)

\* However the occurrences of patterns overlap and nest in the buffer, the
\* emitted code gives every instruction of the block effect exactly once, none
\* is dropped and none is executed again (optimize_patterns marks only first instructions,
\* translate_pattern_emit overwrites the marks inside the occurrence).
EachOnce == phase = "done" => \A k \in DOMAIN block : times[k] = 1

\* At the end of a block every register and all of memory are as the guest's
\* own instructions leave them.
SameEffect == phase = "done" =>
    /\ \A r \in Regs : Get(host, r) = Get(guest, r)
    /\ \A a \in DOMAIN host.mem \cup DOMAIN guest.mem : Load(host, a) = Load(guest, a)

\* Pattern p occurs in the block as it was parsed.
Occurs(p, at) ==
    /\ at + PatternLen(p) <= len
    /\ Fits(p, [k \in DOMAIN block |-> block[k].mnem], at)

\* The code of p2 and p9 differs from the instructions it replaces, that of
\* SLTZ too, and SEXTW changes x0.
Equivalent == \A k \in DOMAIN block :
    /\ \A p \in DOMAIN patterns : Name(p) \in {"p2", "p9"} => ~Occurs(p, k)
    /\ block[k].mnem = "SLT" => block[k].rs2 # x0
    /\ block[k].mnem = "ADDIW" /\ block[k].imm = 0 => block[k].rd # x0

\* Fusing the instructions of a block without these patterns changes nothing
\* the guest can see, however occurrences overlap ("Emits the x86 equivalent of
\* the pattern", patterns.c).
SameEffectElsewhere == Equivalent => SameEffect
=============================================================================
