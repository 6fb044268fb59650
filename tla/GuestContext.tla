---------------------------- MODULE GuestContext ----------------------------
(***************************************************************************)
(* The two context switching blocks that are generated at start (main/     *)
(* context.c), the calls of them from execute_in_guest_context and from    *)
(* translated ECALL and MANUAL_CSRR instructions, and the C function these *)
(* call (emulate_ecall, manualCSRR), host instruction by host instruction. *)
(*                                                                         *)
(* Guest registers live in host registers while guest code runs, and in    *)
(* the register file while host code does.  val holds both, and the swap   *)
(* file: host registers by their names, guest registers by theirs, swap    *)
(* cells as swap[h] of the callee-saved registers.                         *)
(***************************************************************************)
EXTENDS Naturals, Sequences, FiniteSets

CONSTANTS gp_map, fp_map,     \* guest registers with a host register of their own
          Unmapped,           \* guest registers without
          gp_order, fp_order, \* the mapped registers in the order of their numbers
          callee_saved,       \* the host registers a C function preserves, in the code's order
          swap,               \* their swap cells
          CallerSaved,        \* the host registers it does not
          Values,             \* what guest and host compute with
          Locs,               \* entries of translated blocks
          floatBinary,        \* the ELF file's flags name a floating point ABI
          UsesFloat           \* the guest executes floating point instructions

mapped == [r \in DOMAIN gp_map \cup DOMAIN fp_map |->
              IF r \in DOMAIN gp_map THEN gp_map[r] ELSE fp_map[r]]
Guests == DOMAIN mapped \cup Unmapped
CalleeSaved == {callee_saved[k] : k \in 1 .. Len(callee_saved)}
Hosts == CalleeSaved \cup CallerSaved
Swaps == {swap[h] : h \in CalleeSaved}

VARIABLES
  val,      \* host registers, register file, swap file
  at,       \* the function that executes, and its next instruction
  stack,    \* the return addresses on the host stack
  guest,    \* what the guest program has computed so far
  host,     \* what the C code that called expects in the callee-saved registers
  loc,      \* the block it called
  zero      \* the zero flag of the last TEST

vars == <<val, at, stack, guest, host, loc, zero>>

-----------------------------------------------------------------------------
(* The emitted code.                                                       *)

Mov(d, s) == [op |-> "mov", d |-> d, s |-> s, i |-> 0]
Const(d, i) == [op |-> "const", d |-> d, s |-> "", i |-> i]
Op(op) == [op |-> op, d |-> "", s |-> "", i |-> 0]
Call(f) == [op |-> "call", d |-> "", s |-> f, i |-> 0]
Jmp(f) == [op |-> "jmp", d |-> "", s |-> f, i |-> 0]
JZ(n) == [op |-> "jz", d |-> "", s |-> "", i |-> n]

\* Mutant: the registers of the host are not all taken back.
save_contextLosesLast ==
    (IF floatBinary THEN [k \in 1 .. Len(fp_order) |-> Mov(fp_order[k], fp_map[fp_order[k]])] ELSE <<>>)
    \o [k \in 1 .. Len(gp_order) |-> Mov(gp_order[k], gp_map[gp_order[k]])]
    \o [k \in 1 .. Len(callee_saved) - 1 |-> Mov(callee_saved[k], swap[callee_saved[k]])]
    \o <<Op("ret")>>

save_context ==
    (IF floatBinary THEN [k \in 1 .. Len(fp_order) |-> Mov(fp_order[k], fp_map[fp_order[k]])] ELSE <<>>)
    \o [k \in 1 .. Len(gp_order) |-> Mov(gp_order[k], gp_map[gp_order[k]])]
    \o [k \in 1 .. Len(callee_saved) |-> Mov(callee_saved[k], swap[callee_saved[k]])]
    \o <<Op("ret")>>

LoadGuest ==
    [k \in 1 .. Len(gp_order) |-> Mov(gp_map[gp_order[k]], gp_order[k])]
    \o (IF floatBinary THEN [k \in 1 .. Len(fp_order) |-> Mov(fp_map[fp_order[k]], fp_order[k])] ELSE <<>>)

\* Mutant: the arguments are moved once the guest's registers are loaded.
load_argumentsLate ==
    [k \in 1 .. Len(callee_saved) |-> Mov(swap[callee_saved[k]], callee_saved[k])]
    \o LoadGuest
    \o <<Mov("AX", "DI"), Mov("DX", "SI")>>
    \o <<Op("test"), JZ(2), Op("call_ax"), Jmp("save"), Op("ret")>>

\* The arguments, a block and whether to execute it, would be overwritten.
load_execute_save_context ==
    [k \in 1 .. Len(callee_saved) |-> Mov(swap[callee_saved[k]], callee_saved[k])]
    \o <<Mov("AX", "DI"), Mov("DX", "SI")>>
    \o LoadGuest
    \o <<Op("test"), JZ(2), Op("call_ax"), Jmp("save"), Op("ret")>>

\* In a translated block: addr and the register file are the call's arguments.
translate_ECALL ==
    <<Call("save"), Const("DI", 0), Const("SI", 0), Call("emulate"), Const("SI", 0), Call("load")>>

Code(f) == CASE f = "save" -> save_context
             [] f = "load" -> load_execute_save_context
             [] f = "ecall" -> translate_ECALL
             [] OTHER -> <<>>

-----------------------------------------------------------------------------
Junk == CHOOSE v \in Values : TRUE
Unset == CHOOSE v \in 0 .. Cardinality(Values) : v \notin Values   \* not written yet

Init ==
    /\ guest = [r \in Guests |-> IF r \in DOMAIN fp_map THEN Unset ELSE Junk]
    /\ val = [x \in Guests \cup Hosts \cup Swaps |-> Junk]
    /\ at = [f |-> "host", ip |-> 1]
    /\ stack = <<>>
    /\ host = [h \in CalleeSaved |-> Junk]
    /\ loc = Junk
    /\ zero = FALSE

\* execute_in_guest_context: a C function calls, with any values of its own in
\* the registers, and expects those of the callee-saved ones back.
execute_in_guest_context ==
    /\ at.f = "host"
    /\ \E h \in [CalleeSaved -> Values], l \in Locs, junk \in Values :
          /\ host' = h
          /\ loc' = l
          /\ val' = [x \in DOMAIN val |-> CASE x \in CalleeSaved -> h[x]
                                            [] x = "DI" -> l
                                            [] x = "SI" -> 1
                                            [] x \in CallerSaved \ {"DI", "SI"} -> junk
                                            [] OTHER -> val[x]]
    /\ at' = [f |-> "load", ip |-> 1]
    /\ stack' = <<[f |-> "host", ip |-> 1]>>
    /\ UNCHANGED <<guest, zero>>

Here == Code(at.f)[at.ip]
Emitted == at.f \in {"save", "load", "ecall"} /\ at.ip <= Len(Code(at.f))
NextIp == [at EXCEPT !.ip = @ + 1]

Transfer ==
    /\ Emitted /\ Here.op \in {"mov", "const", "test"}
    /\ val' = IF Here.op = "test" THEN val
              ELSE [val EXCEPT ![Here.d] = IF Here.op = "mov" THEN val[Here.s] ELSE Here.i]
    /\ zero' = IF Here.op = "test" THEN val["DX"] = 0 ELSE zero
    /\ at' = NextIp
    /\ UNCHANGED <<stack, guest, host, loc>>

\* CALL, JMP, JZ and RET; a block is entered at the address in AX.
JumpOrCall ==
    /\ Emitted /\ Here.op \in {"call", "call_ax", "jmp", "jz", "ret"}
    /\ at' = CASE Here.op \in {"call", "jmp"} -> [f |-> Here.s, ip |-> 1]
               [] Here.op = "call_ax" -> [f |-> "block", ip |-> val["AX"]]
               [] Here.op = "jz" -> IF zero THEN [at EXCEPT !.ip = @ + 1 + Here.i] ELSE NextIp
               [] Here.op = "ret" -> stack[1]
    /\ stack' = CASE Here.op \in {"call", "call_ax"} -> <<NextIp>> \o stack
                  [] Here.op = "ret" -> Tail(stack)
                  [] OTHER -> stack
    /\ UNCHANGED <<val, guest, host, loc, zero>>

\* An ECALL's code is over: the block goes on.
EndEcall ==
    /\ at.f = "ecall" /\ at.ip > Len(translate_ECALL)
    /\ at' = [f |-> "block", ip |-> loc]
    /\ UNCHANGED <<val, stack, guest, host, loc, zero>>

\* Guest instructions compute in host registers or in the register file, and
\* use the replacement registers as they like.
GuestStep ==
    /\ at.f = "block"
    /\ \E r \in Guests \ (IF UsesFloat THEN {} ELSE DOMAIN fp_map), v \in Values :
          LET place == IF r \in DOMAIN mapped THEN mapped[r] ELSE r
          IN  /\ guest[r] # v
              /\ guest' = [guest EXCEPT ![r] = v]
              /\ val' = [val EXCEPT ![place] = v, !["AX"] = v, !["DX"] = v]
    /\ UNCHANGED <<at, stack, host, loc, zero>>

Ecall ==
    /\ at.f = "block"
    /\ at' = [f |-> "ecall", ip |-> 1]
    /\ UNCHANGED <<val, stack, guest, host, loc, zero>>

\* The block's RET; chained blocks and the return stack stay in guest code.
BlockReturns ==
    /\ at.f = "block"
    /\ at' = stack[1]
    /\ stack' = Tail(stack)
    /\ UNCHANGED <<val, guest, host, loc, zero>>

\* emulate_ecall and manualCSRR read and write the register file only, and use
\* the caller-saved registers.
emulate_ecall ==
    /\ at.f = "emulate"
    /\ \E r \in Guests \ DOMAIN fp_map, v, junk \in Values :
          /\ val' = [x \in DOMAIN val |-> CASE x = r -> v
                                            [] x \in CallerSaved -> junk
                                            [] OTHER -> val[x]]
          /\ guest' = [guest EXCEPT ![r] = v]
    /\ at' = stack[1]
    /\ stack' = Tail(stack)
    /\ UNCHANGED <<host, loc, zero>>

Next ==
    \/ execute_in_guest_context \/ Transfer \/ JumpOrCall \/ EndEcall
    \/ GuestStep \/ Ecall \/ BlockReturns \/ emulate_ecall

\* The processor goes on with the emitted code and with the C function.
Fairness == WF_vars(Transfer \/ JumpOrCall \/ EndEcall \/ emulate_ecall)

Spec == Init /\ [][Next]_vars /\ Fairness

-----------------------------------------------------------------------------
\* What a mapping has to be: each guest register has a host register of its own
\* or none, none has one that holds the arguments of the switch, and a program
\* that computes with floating point numbers has its registers switched.
ContextAssumption ==
    /\ Guests \cap Hosts = {} /\ Swaps \cap (Guests \cup Hosts) = {}
    /\ DOMAIN gp_map \cap DOMAIN fp_map = {} /\ DOMAIN mapped \cap Unmapped = {}
    /\ \A r, q \in DOMAIN mapped :
          mapped[r] \in Hosts \ {"AX", "DX"} /\ (mapped[r] = mapped[q] => r = q)
    /\ gp_order \in Seq(DOMAIN gp_map) /\ \A r \in DOMAIN gp_map : \E k \in 1 .. Len(gp_order) : gp_order[k] = r
    /\ fp_order \in Seq(DOMAIN fp_map) /\ \A r \in DOMAIN fp_map : \E k \in 1 .. Len(fp_order) : fp_order[k] = r
    /\ callee_saved \in Seq(CalleeSaved) /\ CalleeSaved \cap CallerSaved = {}
    /\ \A g, h \in CalleeSaved : swap[g] = swap[h] => g = h
    /\ {"AX", "DX", "DI", "SI"} \subseteq CallerSaved
    /\ UsesFloat => floatBinary

TypeOK ==
    /\ DOMAIN val = Guests \cup Hosts \cup Swaps
    /\ at.f \in {"host", "load", "save", "ecall", "emulate", "block"}
    /\ Len(stack) <= 3

\* C code, the emulation of system calls included, finds the guest's registers
\* in the register file, and guest code finds them where they are mapped
\* ("stores the context back", execute_in_guest_context; translate_ECALL).
GuestFound ==
    /\ at.f \in {"host", "emulate"} => \A r \in Guests : guest[r] \in {val[r], Unset}
    /\ at.f = "block" => \A r \in DOMAIN mapped : guest[r] \in {val[mapped[r]], Unset}
    /\ \A r \in Unmapped : val[r] = guest[r]

\* Whatever blocks and system calls ran in between, the C code that called gets
\* its callee-saved registers back, and the host stack is as it was (swap_file).
HostFound ==
    at.f = "host" => stack = <<>> /\ \A h \in CalleeSaved : val[h] = host[h]

\* A call from C code gets to the block it names (FIRST_REG and SECOND_REG are
\* loaded before the guest's registers overwrite the arguments).
CallRuns == at = [f |-> "load", ip |-> 1] /\ Len(stack) = 1 ~> at = [f |-> "block", ip |-> loc]
=============================================================================
