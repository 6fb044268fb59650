--------------------------- MODULE Replacements ---------------------------
(***************************************************************************)
(* The register allocation of the translator (src/src/util/util.h): twelve *)
(* guest registers live in host registers of their own, the others share   *)
(* the three replacement registers AX, DX and CX, least recently used      *)
(* first, and are written back to the register file lazily.                *)
(*                                                                         *)
(* `ri` is both what the translator believes (replacement_content,         *)
(* replacement_recency, current_recency of register_info) and what the     *)
(* code it emits makes true of the host (`host` and `file`), one emitted   *)
(* MOV at a time.  A value is abstracted to the guest register it is the   *)
(* present value of; a value that is none is Stale.                        *)
(*                                                                         *)
(* There is one action for every way in which the translate_* functions    *)
(* take hold of registers.                                                 *)
(***************************************************************************)
EXTENDS Naturals

CONSTANTS Regs,         \* guest registers
          x0,           \* the one that is always zero
          gp_map,       \* the static mapping: guest register -> host register
          INVALID_REG,  \* the content of an unused replacement register
          Stale,        \* a value no guest register has at present
          Forms,        \* the instructions to translate: [family, rs1, rs2, rd]
          MaxRecency    \* bound on current_recency, for TLC

Replace == {"AX", "DX", "CX"}      \* FIRST_REG, SECOND_REG, THIRD_REG
FIRST_REG == "AX"
SECOND_REG == "DX"
THIRD_REG == "CX"

gp_mapped == DOMAIN gp_map

Hosts == Replace \cup {gp_map[r] : r \in gp_mapped}

Families == {"Imm", "Upper", "Reg", "Shift", "MulHigh", "MulHighSU", "Div",
             "Store", "Branch", "Amo", "AmoMinMax",
             "FpToInt", "FpFromWord", "FpFromLong", "FpClass", "FpSign"}

ASSUME RegsAssumption == x0 \in Regs \ gp_mapped /\ gp_mapped \subseteq Regs
ASSUME MapAssumption ==
    /\ \A r \in gp_mapped : gp_map[r] \notin Replace
    /\ \A r, s \in gp_mapped : gp_map[r] = gp_map[s] => r = s
ASSUME TokensAssumption == INVALID_REG \notin Regs /\ Stale \notin Regs
ASSUME FormsAssumption ==
    Forms \subseteq [family : Families, rs1 : Regs, rs2 : Regs, rd : Regs]

VARIABLES ri,        \* the allocation, the host registers and the register file
          misread    \* operands of the last instruction that read a wrong value

vars == <<ri, misread>>

-----------------------------------------------------------------------------
(* The emitted moves.                                                      *)

Mov(s, to, from) == [s EXCEPT !.host[to] = s.host[from]]
Xchg(s, h, g) == [s EXCEPT !.host[h] = s.host[g], !.host[g] = s.host[h]]
WriteBack(s, h, r) == [s EXCEPT !.file[r] = s.host[h]]
Fill(s, h, r) == [s EXCEPT !.host[h] = IF r = x0 THEN x0 ELSE s.file[r]]
Scratch(s, hs) == [s EXCEPT !.host = [h \in Hosts |-> IF h \in hs THEN Stale ELSE @[h]]]

(* The allocation of util.h, on a state s of ri.                           *)

getIndexForReg(h) == CASE h = FIRST_REG -> 0 [] h = SECOND_REG -> 1 [] h = THIRD_REG -> 2

\* The loop that looks for the minimum of the recencies, the first one of equals.
OldestReg(s) == CHOOSE h \in Replace : \A g \in Replace :
    \/ s.recency[h] < s.recency[g]
    \/ s.recency[h] = s.recency[g] /\ getIndexForReg(h) <= getIndexForReg(g)

Holding(s, r) == {h \in Replace : s.content[h] = r}

\* ... and the loop that looks for a register already present.
PresentIn(s, r) == CHOOSE h \in Holding(s, r) : \A g \in Holding(s, r) :
    getIndexForReg(h) <= getIndexForReg(g)

\* Mutant: current_recency stands still.
TickNot(s) == s

Tick(s) == [s EXCEPT !.now = @ + 1]
Note(s, h, r) == [s EXCEPT !.content[h] = r, !.recency[h] = s.now]

\* if (requireValue) load or zero; a register that is only written keeps what it has.
FillIf(s, h, r, requireValue) == IF requireValue THEN Fill(s, h, r) ELSE s
ZeroIfX0(s, h, r) == IF r = x0 THEN Fill(s, h, x0) ELSE s

\* Mutant: x0 is written back like any other register.
invalidateWithX0(s, h) ==
    LET r == s.content[h]
        w == IF r = INVALID_REG THEN s ELSE WriteBack(s, h, r)
    IN  [w EXCEPT !.content[h] = INVALID_REG, !.recency[h] = 0]

invalidateReplacement(s, h) ==
    LET r == s.content[h]
        w == IF r \in {x0, INVALID_REG} THEN s ELSE WriteBack(s, h, r)
    IN  [w EXCEPT !.content[h] = INVALID_REG, !.recency[h] = 0]

invalidateOldest(s) ==
    LET h == OldestReg(s)
    IN  IF s.recency[h] # 0 /\ s.content[h] # INVALID_REG
        THEN invalidateReplacement(s, h) ELSE s

invalidateAllReplacements(s) ==
    invalidateReplacement(
        invalidateReplacement(invalidateReplacement(s, FIRST_REG), SECOND_REG), THIRD_REG)

loadIntoReplacement(s, r, requireValue) ==
    LET t == Tick(s)
    IN  IF Holding(s, r) # {}
        THEN LET h == PresentIn(s, r) IN ZeroIfX0(Note(t, h, r), h, r)
        ELSE LET h == OldestReg(s)
                 w == IF s.content[h] \in {x0, INVALID_REG}
                      THEN t ELSE WriteBack(t, h, s.content[h])
             IN  FillIf(Note(w, h, r), h, r, requireValue)

\* Mutant: the recencies are not exchanged with the contents.
ShuffleKeepsRecency(s, h, g, requireValue) ==
    LET m == CASE s.recency[h] # 0 /\ requireValue  -> Xchg(s, h, g)
               [] s.recency[h] # 0 /\ ~requireValue -> Mov(s, g, h)
               [] s.recency[h] = 0 /\ requireValue  -> Mov(s, h, g)
               [] s.recency[h] = 0 /\ ~requireValue -> s
    IN  [m EXCEPT !.content = [@ EXCEPT ![h] = s.content[g], ![g] = s.content[h]],
                  !.recency[h] = s.now]

\* The register is in another replacement register, g: it changes places with
\* what h holds, and only the values that are still needed are moved.
Shuffle(s, h, g, requireValue) ==
    LET m == CASE s.recency[h] # 0 /\ requireValue  -> Xchg(s, h, g)
               [] s.recency[h] # 0 /\ ~requireValue -> Mov(s, g, h)
               [] s.recency[h] = 0 /\ requireValue  -> Mov(s, h, g)
               [] s.recency[h] = 0 /\ ~requireValue -> s
    IN  [m EXCEPT !.content = [@ EXCEPT ![h] = s.content[g], ![g] = s.content[h]],
                  !.recency = [@ EXCEPT ![h] = s.now, ![g] = s.recency[h]]]

\* Mutant: nothing is written back.
EvictDrops(s, h) == s

\* Write back whatever is there.  The code means to leave x0 out and does not:
\* "content != x0 || content != INVALID_REG" is always true.
Evict(s, h) == IF s.recency[h] # 0 THEN WriteBack(s, h, s.content[h]) ELSE s

loadIntoSpecific(s, r, h, requireValue) ==
    LET t == Tick(s)
    IN  IF Holding(s, r) # {}
        THEN LET g == PresentIn(s, r)
             IN  ZeroIfX0(IF g = h THEN Note(t, h, r) ELSE Shuffle(t, h, g, requireValue), h, r)
        ELSE Note(FillIf(Evict(t, h), h, r, requireValue \/ r = x0), h, r)

\* getRs1, getRs2 and getRd, and the host register each returns.
get(s, r, requireValue) ==
    IF r \in gp_mapped THEN s ELSE loadIntoReplacement(s, r, requireValue)
getRs(s, r) == get(s, r, TRUE)
getRd(s, r) == get(s, r, FALSE)

\* ... the register returned, in the state get leaves behind.
HostOf(s, r) == IF r \in gp_mapped THEN gp_map[r] ELSE PresentIn(s, r)

\* getRs1Into and getRs2Into (no guest register is mapped to a replacement register).
getRsInto(s, r, h) ==
    IF r \notin gp_mapped
    THEN loadIntoSpecific(s, r, h, TRUE)
    ELSE Note(Tick(Mov(invalidateReplacement(s, h), h, gp_map[r])), h, r)

getRdHinted(s, r, h) ==
    IF r \in gp_mapped THEN s ELSE loadIntoSpecific(s, r, h, FALSE)

-----------------------------------------------------------------------------

\* The result goes to host register h: every other copy of rd is out of date.
\* What an instruction writes for x0 is nobody's value, and x0 stays zero.
Assign(s, h, rd) ==
    LET old(t) == IF t = rd /\ rd # x0 THEN Stale ELSE t
    IN  [s EXCEPT !.host = [g \in Hosts |-> CASE g # h -> old(@[g])
                                              [] g = h /\ rd # x0 -> rd
                                              [] g = h /\ rd = x0 -> Stale],
                  !.file = [r \in Regs |-> old(@[r])]]

\* An instruction reads r in host register h.
Reads(h, r) == [host |-> h, reg |-> r]
WrongOperands(s, reads) == {o.reg : o \in {o \in reads : s.host[o.host] # o.reg}}

Init == /\ ri = [content |-> [h \in Replace |-> INVALID_REG],
                 recency |-> [h \in Replace |-> 0],
                 now     |-> 1,
                 host    |-> [h \in Hosts |-> IF h \in Replace THEN Stale
                                              ELSE CHOOSE r \in gp_mapped : gp_map[r] = h],
                 file    |-> [r \in Regs |-> r]]
        /\ misread = {}

Translates(family, f) == f.family = family /\ ri.now < MaxRecency

\* ADDI, LW, SLLI, ...: rs1 and rd.
TranslateImm(f) ==
    LET s1 == getRs(ri, f.rs1)
        s2 == getRd(s1, f.rd)
    IN  /\ Translates("Imm", f)
        /\ misread' = WrongOperands(s2, {Reads(HostOf(s1, f.rs1), f.rs1)})
        /\ ri' = Assign(s2, HostOf(s2, f.rd), f.rd)

\* LUI, and AUIPC (which for x0 does nothing at all).
TranslateUpper(f) ==
    LET s == getRd(ri, f.rd)
    IN  /\ Translates("Upper", f)
        /\ misread' = {}
        /\ ri' = Assign(s, HostOf(s, f.rd), f.rd)

\* ADD, SLT, MUL, ...: rs1, rs2 and rd.
TranslateReg(f) ==
    LET s1 == getRs(ri, f.rs1)
        s2 == getRs(s1, f.rs2)
        s3 == getRd(s2, f.rd)
    IN  /\ Translates("Reg", f)
        /\ misread' = WrongOperands(s3, {Reads(HostOf(s1, f.rs1), f.rs1),
                                         Reads(HostOf(s2, f.rs2), f.rs2)})
        /\ ri' = Assign(s3, HostOf(s3, f.rd), f.rd)

\* SLL, SRA, SRLW, ...: the shift amount is in CX.  When rd would be in CX
\* too, and is not rs1, it moves to a register that rs1 is not in.
ShiftElsewhere(s, f, h1) ==
    LET h == IF h1 = "AX" THEN "DX" ELSE "AX"
    IN  loadIntoSpecific(invalidateReplacement(s, h), f.rd, h, TRUE)

TranslateShift(f) ==
    LET s1 == getRsInto(ri, f.rs2, "CX")
        s2 == getRs(s1, f.rs1)
        s3 == getRd(s2, f.rd)
        h1 == HostOf(s2, f.rs1)
        s4 == IF HostOf(s3, f.rd) # h1 /\ HostOf(s3, f.rd) = "CX"
              THEN ShiftElsewhere(s3, f, h1) ELSE s3
    IN  /\ Translates("Shift", f)
        /\ misread' = WrongOperands(s4, {Reads(h1, f.rs1), Reads("CX", f.rs2)})
        /\ ri' = Assign(s4, HostOf(s4, f.rd), f.rd)

\* MULH, MULHU, MULHSU: RDX:RAX := RAX * CX.  MULHSU adds rs1 again, from the
\* register file when it is not mapped.
AddedAgain(s, f) ==
    IF f.family = "MulHighSU" /\ f.rs1 \notin gp_mapped /\ s.file[f.rs1] # f.rs1
    THEN {f.rs1} ELSE {}

TranslateMulHigh(f) ==
    LET s1 == getRsInto(ri, f.rs1, "AX")
        s2 == getRsInto(s1, f.rs2, "CX")
        s3 == invalidateReplacement(invalidateReplacement(s2, "DX"), "AX")
        s4 == getRd(s3, f.rd)
    IN  /\ Translates("MulHigh", f) \/ Translates("MulHighSU", f)
        /\ misread' = WrongOperands(s4, {Reads("AX", f.rs1), Reads("CX", f.rs2)})
                      \cup AddedAgain(s4, f)
        /\ ri' = Assign(Scratch(s4, {"AX", "DX"}), HostOf(s4, f.rd), f.rd)

\* DIV, DIVU, REM, REMU and their W forms: RAX, RDX := RDX:RAX / CX.
TranslateDiv(f) ==
    LET s1 == getRsInto(ri, f.rs2, "CX")
        s2 == getRsInto(s1, f.rs1, "AX")
        s3 == invalidateReplacement(invalidateReplacement(s2, "DX"), "AX")
        s4 == getRd(s3, f.rd)
    IN  /\ Translates("Div", f)
        /\ misread' = WrongOperands(s4, {Reads("AX", f.rs1), Reads("CX", f.rs2)})
        /\ ri' = Assign(Scratch(s4, {"AX", "DX"}), HostOf(s4, f.rd), f.rd)

\* SB, SH, SW, SD.
TranslateStore(f) ==
    LET s1 == getRs(ri, f.rs1)
        s2 == getRs(s1, f.rs2)
    IN  /\ Translates("Store", f)
        /\ misread' = WrongOperands(s2, {Reads(HostOf(s1, f.rs1), f.rs1),
                                         Reads(HostOf(s2, f.rs2), f.rs2)})
        /\ ri' = s2

\* The comparison of a branch (against zero it only needs rs1), and the end
\* of a block: everything goes back to the register file.
TranslateBranch(f) ==
    LET s1 == getRs(ri, f.rs1)
        s2 == IF f.rs2 = x0 THEN s1 ELSE getRs(s1, f.rs2)
    IN  /\ Translates("Branch", f)
        /\ misread' = WrongOperands(s2,
                        {Reads(HostOf(s1, f.rs1), f.rs1)} \cup
                        {Reads(HostOf(s2, r), r) : r \in {f.rs2} \ {x0}})
        /\ ri' = invalidateAllReplacements(s2)

\* AMOADD, AMOSWAP, SC, ...; with rd = x0 the old value is dropped.
TranslateAmo(f) ==
    LET s1 == getRs(ri, f.rs1)
        s2 == getRs(s1, f.rs2)
        s3 == getRd(s2, f.rd)
    IN  /\ Translates("Amo", f)
        /\ misread' = WrongOperands(s3, {Reads(HostOf(s1, f.rs1), f.rs1),
                                         Reads(HostOf(s2, f.rs2), f.rs2)})
        /\ ri' = IF f.rd = x0 THEN s3 ELSE Assign(s3, HostOf(s3, f.rd), f.rd)

\* AMOMIN, AMOMAXU, ...: rs2 in DX, which then serves as a scratch register.
TranslateAmoMinMax(f) ==
    LET s1 == getRs(ri, f.rs1)
        s2 == getRsInto(s1, f.rs2, SECOND_REG)
        s3 == getRd(s2, f.rd)
        s4 == IF HostOf(s3, f.rd) = SECOND_REG THEN s3
              ELSE invalidateReplacement(s3, SECOND_REG)
        s5 == Scratch(s4, {SECOND_REG})
    IN  /\ Translates("AmoMinMax", f)
        /\ misread' = WrongOperands(s4, {Reads(HostOf(s1, f.rs1), f.rs1),
                                         Reads(SECOND_REG, f.rs2)})
        /\ ri' = IF f.rd = x0 THEN s5 ELSE Assign(s5, HostOf(s3, f.rd), f.rd)

\* FEQ, FCVT.LU.D: rd and a scratch register.
TranslateFpToInt(f) ==
    LET s1 == getRd(ri, f.rd)
        s2 == invalidateOldest(s1)
    IN  /\ Translates("FpToInt", f)
        /\ misread' = {}
        /\ ri' = Assign(Scratch(s2, {OldestReg(s1)}), HostOf(s1, f.rd), f.rd)

\* FCVT.D.WU: rs1 and a scratch register.
TranslateFpFromWord(f) ==
    LET s1 == getRs(ri, f.rs1)
        s2 == invalidateOldest(s1)
    IN  /\ Translates("FpFromWord", f)
        /\ misread' = WrongOperands(s2, {Reads(HostOf(s1, f.rs1), f.rs1)})
        /\ ri' = Scratch(s2, {OldestReg(s1)})

\* FCVT.D.LU: rs1 is copied to AX and DX, which are scratch registers then.
TranslateFpFromLong(f) ==
    LET s1 == getRs(ri, f.rs1)
        h == HostOf(s1, f.rs1)
        s2 == invalidateReplacement(invalidateReplacement(s1, FIRST_REG), SECOND_REG)
    IN  /\ Translates("FpFromLong", f)
        /\ misread' = WrongOperands(s1, {Reads(h, f.rs1)})
        /\ ri' = Scratch(s2, {FIRST_REG, SECOND_REG})

\* FCLASS: rd in AX if it is not mapped, DX and CX are scratch registers.
TranslateFpClass(f) ==
    LET s1 == getRdHinted(ri, f.rd, FIRST_REG)
        s2 == invalidateReplacement(invalidateReplacement(s1, SECOND_REG), THIRD_REG)
        h  == IF f.rd \in gp_mapped THEN gp_map[f.rd] ELSE FIRST_REG
    IN  /\ Translates("FpClass", f)
        /\ misread' = {}
        /\ ri' = Assign(Scratch(s2, {SECOND_REG, THIRD_REG}), h, f.rd)

\* FSGNJ: no guest register, three scratch registers.
TranslateFpSign(f) ==
    /\ Translates("FpSign", f)
    /\ misread' = {}
    /\ ri' = Scratch(invalidateAllReplacements(ri), Replace)

\* init_block and finalize_block.  Between two blocks only the register file
\* and the mapped host registers survive.
EndBlock == /\ misread' = {}
            /\ ri' = Scratch(invalidateAllReplacements(ri), Replace)

Next == \/ \E f \in Forms :
               \/ TranslateImm(f) \/ TranslateUpper(f) \/ TranslateReg(f)
               \/ TranslateShift(f) \/ TranslateMulHigh(f) \/ TranslateDiv(f)
               \/ TranslateStore(f) \/ TranslateBranch(f)
               \/ TranslateAmo(f) \/ TranslateAmoMinMax(f)
               \/ TranslateFpToInt(f) \/ TranslateFpFromWord(f)
               \/ TranslateFpFromLong(f) \/ TranslateFpClass(f)
               \/ TranslateFpSign(f)
        \/ EndBlock

Spec == Init /\ [][Next]_vars

-----------------------------------------------------------------------------

TypeOK ==
    /\ ri \in [content : [Replace -> Regs \cup {INVALID_REG}],
               recency : [Replace -> Nat],
               now     : Nat \ {0},
               host    : [Hosts -> Regs \cup {Stale}],
               file    : [Regs -> Regs \cup {Stale}]]
    /\ misread \subseteq Regs

\* Where the value of r is at present.
Home(r) == IF r \in gp_mapped THEN ri.host[gp_map[r]]
           ELSE IF Holding(ri, r) # {} THEN ri.host[PresentIn(ri, r)]
           ELSE ri.file[r]

(***************************************************************************)
(* No value is ever lost: after any sequence of instructions each guest    *)
(* register's present value is where the translator believes it is - in    *)
(* its own host register, in the one replacement register that is marked   *)
(* as holding it, or else in the register file.  A value dropped by a      *)
(* shuffle, an eviction without write-back or a stale second copy breaks   *)
(* it, often many instructions after the mistake.                          *)
(***************************************************************************)
NoValueLost == /\ \A r \in Regs \ {x0} : Home(r) = r
               /\ \A r \in Regs \ gp_mapped : \A h, g \in Holding(ri, r) : h = g

(***************************************************************************)
(* A replacement register is marked unused exactly when its recency is 0,  *)
(* and recencies of used ones differ, so that the oldest one is never an   *)
(* operand that the same instruction has just taken.                       *)
(***************************************************************************)
RecencyMarks ==
    /\ \A h \in Replace : /\ (ri.recency[h] = 0) <=> (ri.content[h] = INVALID_REG)
                          /\ ri.recency[h] <= ri.now
    /\ \A h, g \in Replace : h # g /\ ri.recency[h] # 0 => ri.recency[h] # ri.recency[g]

(***************************************************************************)
(* When an instruction executes, each register it reads holds the present  *)
(* value of the guest register it stands for: no later get of the same     *)
(* instruction has moved or evicted it.                                    *)
(***************************************************************************)
OperandsRight == misread = {}

(***************************************************************************)
(* The register file keeps 0 in x0 ("write back if we don't have x0 or     *)
(* invalid in there", util.h:364; the debug build checks it after each     *)
(* block).                                                                 *)
(***************************************************************************)
X0StaysZero == ri.file[x0] = x0
=============================================================================
