----------------------------- MODULE MCRuntime -----------------------------
(***************************************************************************)
(* Small instances of what runs beside the emitted code: GuestContext      *)
(* ("context"), SystemCalls ("calls") and FloatControl ("float").  Each    *)
(* behaviour is of one of them, `part`; the others stay where they start.  *)
(***************************************************************************)
EXTENDS SystemCalls

VARIABLES
  part,
  val, at, stack, guest, host, loc, zero,                        \* GuestContext
  gp_file, mxcsr, fctrl, csr_file, stage, round, used, stopped   \* FloatControl

context == <<val, at, stack, guest, host, loc, zero>>
float == <<gp_file, mxcsr, fctrl, csr_file, stage, round, used, stopped>>

-----------------------------------------------------------------------------
(* A small mapping: a0 and a3 in the argument registers, a5 in one of two  *)
(* callee-saved ones, one floating point register, one without a place.    *)

C == INSTANCE GuestContext WITH
        gp_map <- [a0 |-> "DI", a3 |-> "SI", a5 |-> "R12"],
        fp_map <- [f0 |-> "XMM10"],
        gp_order <- <<"a0", "a3", "a5">>,
        fp_order <- <<"f0">>,
        Unmapped <- {"pc"},
        callee_saved <- <<"BX", "R12">>,
        swap <- [BX |-> "swap_BX", R12 |-> "swap_R12"],
        CallerSaved <- {"AX", "DX", "DI", "SI", "XMM10"},
        Values <- {0, 1},
        Locs <- {2, 3},
        floatBinary <- TRUE,
        UsesFloat <- TRUE

(* Every number, arguments that are all different, in two orders; the    *)
(* stat records are at 12 and 13.                                          *)

MCArguments == {<<11, 12, 13, 14, 15, 16>>, <<16, 11, 12, 14, 13, 15>>}
MCResults == {-2, 7}

(* Two registers of nine bits, one CSR in the register file; no flags or   *)
(* one with a rounding mode and a bit of neither; rounding modes with and  *)
(* without an instruction's own, and one that is not supported.            *)

F == INSTANCE FloatControl WITH
        Regs <- {"x1", "x2"},
        WIDTH <- 9,
        Inputs <- {{}, {0, 5, 8}},
        Raises <- {{1}, {3, 5}},
        Modes <- {{0}, {0, 1}, {0, 1, 2}, {0, 2}},
        FileCsrs <- [uscratch |-> 64],
        Operands <- {<<"x1", "x2">>, <<"x1", "x0">>, <<"x0", "x2">>, <<"x1", "x1">>}

\* What the theorems of RuntimeProofs assume is so here.
ASSUME SmallInstances == C!ContextAssumption /\ F!FloatAssumption

-----------------------------------------------------------------------------

InContext == part = "context" /\ UNCHANGED <<vars, float, part>>
InCalls == part = "calls" /\ UNCHANGED <<context, float, part>>
InFloat == part = "float" /\ UNCHANGED <<context, vars, part>>

\* A program that has exited, or been replaced or stopped, stays so.
Over == /\ \/ part = "calls" /\ phase \in {"ended", "replaced", "killed"}
           \/ part = "float" /\ stopped
        /\ UNCHANGED <<context, vars, float, part>>

MCInit == part \in {"context", "calls", "float"} /\ C!Init /\ Init /\ F!Init

MCNext ==
    \/ InContext /\ C!execute_in_guest_context
    \/ InContext /\ C!Transfer
    \/ InContext /\ C!JumpOrCall
    \/ InContext /\ C!EndEcall
    \/ InContext /\ C!GuestStep
    \/ InContext /\ C!Ecall
    \/ InContext /\ C!BlockReturns
    \/ InContext /\ C!emulate_ecall
    \/ InCalls /\ GuestCalls
    \/ InCalls /\ emulate_ecall
    \/ InCalls /\ transcode_loop
    \/ \E r \in {"x1", "x2"}, v \in {{}, {0, 5, 8}} : InFloat /\ F!Compute(r, v)
    \/ \E i \in F!Instrs(F!FpCsrs) : InFloat /\ F!MANUAL_CSRR(i)
    \/ \E i \in F!Instrs({"uscratch"}) : InFloat /\ F!CSRR(i)
    \/ \E rm \in {{0}, {0, 1}, {0, 2}} : InFloat /\ F!saveAndSetRound(rm)
    \/ \E rm \in {{0}, {0, 1}, {0, 1, 2}, {0, 2}}, raised \in {{1}, {3, 5}} :
          InFloat /\ F!Operate(rm, raised)
    \/ InFloat /\ F!restoreFpRound
    \/ Over

MCSpec == /\ MCInit /\ [][MCNext]_<<context, vars, float, part>>
          /\ WF_context(C!Transfer \/ C!JumpOrCall \/ C!EndEcall \/ C!emulate_ecall)
          /\ WF_vars(emulate_ecall \/ transcode_loop)

-----------------------------------------------------------------------------

\* Guest code, C code and the emulation of system calls each find their registers
\* where they look for them, and no guest instruction unmasks a host exception in
\* MXCSR (context.c, translate_ECALL, manualCSRR, saveAndSetRound).
RegistersFound == C!GuestFound /\ C!HostFound /\ F!ExceptionsMasked

\* GuestContext: a call from C code gets to the block it names.
CallRuns == C!CallRuns

\* FloatControl: CSR instructions do what the RISC-V specification says, but for
\* the source of those whose rd is rs1 (translate_csr.c:28).
CsrAsPromised == [][part = "float" => F!CsrStep]_<<float, part>>

\* FloatControl: an instruction rounds by its mode, the guest's seems unchanged.
RoundingAsPromised == [][part = "float" => F!RoundingStep]_<<float, part>>
=============================================================================
