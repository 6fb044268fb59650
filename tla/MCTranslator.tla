---------------------------- MODULE MCTranslator ----------------------------
(***************************************************************************)
(* Guest programs for Translator: all programs of three instructions over  *)
(* a menu of control flow instructions, and larger ones for the situations *)
(* three instructions cannot show.                                         *)
(***************************************************************************)
EXTENDS Translator

Ins(op, rd, rs1, imm) == [op |-> op, rd |-> rd, rs1 |-> rs1, imm |-> imm]

Nop       == Ins("NOP", "x0", "x0", 0)
Fence     == Ins("FENCE", "x0", "x0", 0)
Ecall     == Ins("ECALL", "x0", "x0", 0)
J(d)      == Ins("JAL", "x0", "x0", d)
Call(d)   == Ins("JAL", "x1", "x0", d)
Call5(d)  == Ins("JAL", "x5", "x0", d)
JalX6(d)  == Ins("JAL", "x6", "x0", d)
Ret       == Ins("JALR", "x0", "x1", 0)
Beq(d)    == Ins("BRANCH", "x0", "x0", d)
La(r, d)  == Ins("AUIPC", r, "x0", d)
CallReg(r, s) == Ins("JALR", r, s, 0)

AllFlags == [ras : BOOLEAN, chain : BOOLEAN, jump : BOOLEAN, single_step : BOOLEAN]

\* The return stack needs the return addresses that following jumps translates.
SoundFlags == {f \in AllFlags : f.ras => f.jump}

\* What may stand at address a of a program of three instructions: every jump
\* goes to one of the three.
Menu(a) ==
    {Nop, Ecall, Ret, CallReg("x1", "x5"), CallReg("x5", "x1")}
        \cup UNION {{J(t - a), Call(t - a), Beq(t - a)} : t \in 1..3}

AllPrograms == {<<p, q, r>> : p \in Menu(1), q \in Menu(2), r \in Menu(3)}

ChosenPrograms ==
  { \* a call in a loop, with a fence at the loop head and at the call target
    <<Fence, Call(3), Beq(-2), Ecall, Fence, Nop, Ret>>,
    \* recursion with a base case, deeper than the return stack
    <<Call(2), Ecall, Beq(2), Call(-1), Ret>>,
    \* mutual recursion; f and g share their return
    <<Call(2), Ecall, Beq(3), Call(1), Beq(-2), Ret>>,
    \* two functions that call each other at once, each translated within the other
    <<Call(2), Ecall, Call(1), Call(-1)>>,
    \* a loop around a call, translated within its own return address
    <<Call(2), J(-1), Ret>>,
    \* nested calls with both link registers
    <<Call(2), Ecall, Call5(2), Ret, CallReg("x0", "x5")>>,
    \* a function pointer, and the coroutine swap of pop and push
    <<La("x6", 4), Nop, CallReg("x1", "x6"), Ecall, CallReg("x5", "x1"), Ret>>,
    \* AUIPC and JALR: a far call with its return, then a far tail call
    <<La("x1", 3), CallReg("x1", "x1"), Ecall, La("x6", 2), CallReg("x0", "x6"), Ret>>,
    \* the same through the other link register: the stack is popped as well
    <<La("x1", 3), CallReg("x5", "x1"), Ecall, CallReg("x0", "x5")>>,
    \* straight code longer than the buffer, and a jump that is not a call
    <<Nop, Nop, Nop, Nop, JalX6(2), Nop, Beq(-3), Ecall>>,
    \* an endless loop of a followed jump, unrolled until the buffer is full
    <<Beq(2), Ecall, Fence, J(-1)>> }

MCPrograms == AllPrograms \cup ChosenPrograms

\* f calls g, and then jumps to itself through an AUIPC and JALR pair.  The pair
\* is translated as g's return address, within the translation of f.
FarRecursion == {<<Call(2), Ecall, Call(3), La("x6", -1), CallReg("x0", "x6"), Ret>>}

\* A call and a return.
CallAndReturn == {<<Call(2), Ecall, Ret>>}

RasWithoutJump == {[ras |-> TRUE, chain |-> TRUE, jump |-> FALSE, single_step |-> FALSE]}

\* FENCE_I between AUIPC and JALR.
FencedCall == {<<La("x1", 4), Fence, CallReg("x1", "x1"), Ecall, Ret>>}
=============================================================================
