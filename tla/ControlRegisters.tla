------------------------- MODULE ControlRegisters -------------------------
(***************************************************************************)
(* What the guest is promised of control and status registers and of       *)
(* rounding: the RISC-V CSR instructions, the accrued exception flags and  *)
(* the rounding modes.  A register is the set of its bits that are one.    *)
(***************************************************************************)
EXTENDS Integers

CONSTANTS Regs,    \* integer registers other than x0
          Others   \* CSRs that are neither fflags, frm nor fcsr

VARIABLES x,      \* the integer registers
          fcsr,   \* flags in bits 0 to 4, rounding mode in bits 5 to 7
          csrs,   \* the other CSRs
          used    \* the rounding mode of the last floating point instruction

vars == <<x, fcsr, csrs, used>>

FpCsrs == {"FFLAGS", "FRM", "FCSR"}
DYN == {0, 1, 2}

Window(c) == CASE c = "FFLAGS" -> 0 .. 4 [] c = "FRM" -> 5 .. 7 [] c = "FCSR" -> 0 .. 7
Shift(c) == IF c = "FRM" THEN 5 ELSE 0

Read(c) == IF c \in FpCsrs THEN {b - Shift(c) : b \in fcsr \cap Window(c)} ELSE csrs[c]

Modified(op, old, src) == CASE op = "CSRRW" -> src
                            [] op = "CSRRS" -> old \cup src
                            [] op = "CSRRC" -> old \ src

frm == {b - 5 : b \in fcsr \cap Window("FRM")}

\* A CSR instruction i: op, c, rd ("x0" is not written); the bits of rs1 or of
\* the immediate, and whether that field is x0 or 0, with which CSRRS and CSRRC
\* only read.
Csr(i, src, noSource) ==
    LET old == Read(i.c)
        new == IF noSource /\ i.op # "CSRRW" THEN old ELSE Modified(i.op, old, src)
    IN  /\ x' = IF i.rd = "x0" THEN x ELSE [x EXCEPT ![i.rd] = old]
        /\ IF i.c \in FpCsrs
           THEN /\ fcsr' = (fcsr \ Window(i.c)) \cup ({b + Shift(i.c) : b \in new} \cap Window(i.c))
                /\ csrs' = csrs
           ELSE csrs' = [csrs EXCEPT ![i.c] = new] /\ fcsr' = fcsr
        /\ used' = used

\* A floating point instruction rounds by its own or the dynamic mode, and
\* raises flags.
Operate(rm, raised) ==
    /\ used' = IF rm = DYN THEN frm ELSE rm
    /\ fcsr' = fcsr \cup raised
    /\ UNCHANGED <<x, csrs>>

\* Any other instruction: a register gets a value.
Compute(r, v) == x' = [x EXCEPT ![r] = v] /\ UNCHANGED <<fcsr, csrs, used>>
=============================================================================
