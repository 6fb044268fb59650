---------------------------- MODULE GuestMachine ----------------------------
(***************************************************************************)
(* The RISC-V hart the translator emulates, as far as control flow goes:   *)
(* a program counter, the registers that hold addresses, and one step per  *)
(* instruction.  Addresses count instructions (one unit is four bytes).    *)
(* Whether a branch is taken, and whether an ecall exits, is left open.    *)
(***************************************************************************)
EXTENDS Integers, Sequences

VARIABLES program,   \* address -> instruction
          pc, regs, halted

vars == <<program, pc, regs, halted>>

INVALID == [op |-> "INVALID", rd |-> "x0", rs1 |-> "x0", imm |-> 0]

InstrAt(a) == IF a \in DOMAIN program THEN program[a] ELSE INVALID

\* A fence has no effect for a single hart, and none on any register.
PastFences(a) ==
    CHOOSE b \in a..(a + Len(program)) :
        /\ InstrAt(b).op # "FENCE"
        /\ \A c \in a..(b - 1) : InstrAt(c).op = "FENCE"

WriteReg(r, v) == IF r = "x0" THEN regs ELSE [regs EXCEPT ![r] = v]

Goto(a) == pc' = PastFences(a)

Init == /\ pc = PastFences(1)
        /\ regs = [r \in {"x0", "x1", "x5", "x6"} |-> IF r = "x0" THEN 0 ELSE 1]
        /\ halted = FALSE

I == InstrAt(pc)

Plain  == /\ I.op = "NOP"
          /\ Goto(pc + 1)
          /\ UNCHANGED <<regs, halted>>

Auipc  == /\ I.op = "AUIPC"
          /\ regs' = WriteReg(I.rd, pc + I.imm)
          /\ Goto(pc + 1)
          /\ UNCHANGED halted

Jal    == /\ I.op = "JAL"
          /\ regs' = WriteReg(I.rd, pc + 1)
          /\ Goto(pc + I.imm)
          /\ UNCHANGED halted

Jalr   == /\ I.op = "JALR"
          /\ regs' = WriteReg(I.rd, pc + 1)
          /\ Goto(regs[I.rs1] + I.imm)
          /\ UNCHANGED halted

Branch == /\ I.op = "BRANCH"
          /\ Goto(pc + I.imm) \/ Goto(pc + 1)
          /\ UNCHANGED <<regs, halted>>

Ecall  == /\ I.op = "ECALL"
          /\ Goto(pc + 1)
          /\ halted' \in BOOLEAN
          /\ UNCHANGED regs

Trap   == /\ I.op = "INVALID"
          /\ halted' = TRUE
          /\ UNCHANGED <<pc, regs>>

Next == /\ ~halted
        /\ Plain \/ Auipc \/ Jal \/ Jalr \/ Branch \/ Ecall \/ Trap
        /\ UNCHANGED program

Spec == Init /\ [][Next]_vars
=============================================================================
