--------------------------- MODULE RuntimeProofs ---------------------------
(***************************************************************************)
(* Proofs about what runs beside the emitted code.  SystemCalls hands on   *)
(* what the guest asks for, for any arguments, any results of the kernel,  *)
(* any files and any places of the guest's records.  FloatControl (F) does *)
(* with flags, rounding modes and the other CSRs what ControlRegisters     *)
(* promises, and never unmasks an exception.  GuestContext (C): for every  *)
(* mapping of guest registers, guest code, C code and the emulation of     *)
(* system calls find their registers.  Options (O): the flags are those    *)
(* the usage text promises, and the guest gets its arguments.  Analyzer    *)
(* (An): a node counts what it stands for.                                 *)
(***************************************************************************)
EXTENDS SystemCalls, Integers, SequenceTheorems, FiniteSetTheorems, TLAPS

-----------------------------------------------------------------------------
(* The table. *)

LEMMA ForwardedFormat ==
    ASSUME NEW c \in Forwarded
    PROVE  /\ c[1] \in Nat /\ c[3] \in 0 .. 6
           /\ c[1] \notin {fstatat, fstat, exit, exit_group, rt_sigaction, Unknown}
BY DEF Forwarded, Fs, Process, fstatat, fstat, exit, exit_group, rt_sigaction, Unknown

LEMMA AbiListed ==
    ASSUME NEW c \in Abi
    PROVE  \E f \in Forwarded : f[1] = c[1]
BY DEF Forwarded, Fs, Process, Abi

LEMMA AbiMatched ==
    ASSUME NEW c \in Abi, NEW f \in Forwarded, f[1] = c[1]
    PROVE  f[2] = c[2] /\ c[3] \in 0 .. f[3]
BY DEF Forwarded, Fs, Process, Abi

-----------------------------------------------------------------------------
(* The state: where the record is that a stat call fills. *)

Registers == {ArgRegs[k] : k \in 1 .. 6} \cup {"a7", "pc"}

StateInv ==
    /\ DOMAIN regs = Registers /\ regs = [r \in Registers |-> regs[r]]
    /\ memory = [p \in Pointers |-> memory[p]]
    /\ \A p \in Pointers : memory[p] = [f \in statRiscV |-> memory[p][f]]
    /\ finalize \in BOOLEAN

LEMMA InitStateInv == Init => StateInv
BY DEF Init, StateInv, Registers

LEMMA NextStateInv ==
    ASSUME StateInv, [Next]_vars
    PROVE  StateInv'
<1>1. CASE GuestCalls
  BY <1>1 DEF GuestCalls, StateInv
<1>2. CASE Forward
  <2>1. PICK result \in Results : Return(result) /\ UNCHANGED <<memory, finalize>>
    BY <1>2 DEF Forward
  <2>. QED
    BY <2>1 DEF Return, StateInv
<1>3. CASE Stat
  <2>1. PICK result \in Results, file \in Files :
          /\ memory' = CopyTo(StatPointer(regs["a7"]), IF result >= 0 THEN Filled(file) ELSE Zeroes)
          /\ Return(result)
          /\ UNCHANGED finalize
    BY <1>3 DEF Stat
  <2>2. regs' = [r \in Registers |-> regs'[r]]
    BY <2>1 DEF Return, StateInv
  <2>3. memory' = [p \in Pointers |-> memory'[p]]
    BY <2>1 DEF CopyTo, StateInv
  <2>4. ASSUME NEW p \in Pointers
        PROVE  memory'[p] = [f \in statRiscV |-> memory'[p][f]]
    BY <2>1 DEF CopyTo, StateInv
  <2>. QED
    BY <2>1, <2>2, <2>3, <2>4 DEF StateInv
<1>4. CASE Exit
  BY <1>4 DEF Exit, StateInv
<1>5. CASE rt_sigactionIgnored \/ NotImplemented
  BY <1>5 DEF rt_sigactionIgnored, NotImplemented, Return, StateInv
<1>6. CASE StatFaults \/ transcode_loop \/ UNCHANGED vars
  BY <1>6 DEF StatFaults, transcode_loop, vars, StateInv
<1>. QED
  BY <1>1, <1>2, <1>3, <1>4, <1>5, <1>6 DEF Next, emulate_ecall

-----------------------------------------------------------------------------
(* A forwarded call. *)

\* What a step of an ECALL does with the call c of the ABI.
AsAsked(c) ==
    /\ asked'.name = c[2]
    /\ \A k \in 1 .. c[3] : asked'.args[k] = regs[ArgRegs[k]]
    /\ regs' = [regs EXCEPT !["a0"] = asked'.result, !["pc"] = @ + 4]
    /\ UNCHANGED <<memory, finalize>>

LEMMA ForwardAsAsked ==
    ASSUME StateInv, Forward, NEW c \in Abi, regs["a7"] = c[1]
    PROVE  AsAsked(c)
<1>1. PICK f \in Forwarded, result \in Results :
        /\ regs["a7"] = f[1]
        /\ Ask(f[2], Args(f[3]), result)
        /\ Return(result)
        /\ UNCHANGED <<memory, finalize>>
  BY DEF Forward
<1>2. f[2] = c[2] /\ c[3] \in 0 .. f[3] /\ f[3] \in 0 .. 6
  BY <1>1, AbiMatched, ForwardedFormat
<1>3. asked'.name = f[2] /\ asked'.args = Args(f[3]) /\ asked'.result = result
  BY <1>1 DEF Ask
<1>4. \A k \in 1 .. c[3] : asked'.args[k] = regs[ArgRegs[k]]
  BY <1>2, <1>3 DEF Args
<1>5. regs' = [regs EXCEPT !["a0"] = asked'.result, !["pc"] = @ + 4]
  BY <1>1, <1>3 DEF Return
<1>. QED
  BY <1>1, <1>2, <1>3, <1>4, <1>5 DEF AsAsked

LEMMA StepAsAsked ==
    ASSUME StateInv, Next, phase = "ecall", NEW c \in Abi, regs["a7"] = c[1]
    PROVE  AsAsked(c)
<1>1. PICK f \in Forwarded : f[1] = c[1]
  BY AbiListed
<1>2. /\ regs["a7"] \in {g[1] : g \in Forwarded}
      /\ regs["a7"] \notin {fstatat, fstat, exit, exit_group, rt_sigaction, Unknown}
  BY <1>1, ForwardedFormat
<1>3. Forward
  BY <1>2 DEF Next, GuestCalls, transcode_loop, emulate_ecall, Stat, StatFaults, Exit,
              rt_sigactionIgnored, NotImplemented, Numbers
<1>. QED
  BY <1>3, ForwardAsAsked

\* A call of the guest that is in the table is the same call of the host, with
\* every argument it has, for any registers and any answer of the kernel, and
\* nothing but a0 and the pc changes (the cases of emulate_ecall).
THEOREM CallsAsAskedHolds == Spec => CallsAsAsked
<1> DEFINE Step == phase = "ecall" => \A c \in Abi : regs["a7"] = c[1] =>
        /\ asked'.name = c[2]
        /\ \A k \in 1 .. c[3] : asked'.args[k] = regs[ArgRegs[k]]
        /\ regs' = [regs EXCEPT !["a0"] = asked'.result, !["pc"] = @ + 4]
        /\ UNCHANGED <<memory, finalize>>
<1>1. StateInv /\ [Next]_vars => StateInv'
  BY NextStateInv
<1>2. StateInv /\ [Next]_vars => [Step]_vars
  BY StepAsAsked DEF AsAsked
<1>. QED
  BY <1>1, <1>2, InitStateInv, PTL DEF Spec, CallsAsAsked

-----------------------------------------------------------------------------
(* The records of fstat and fstatat. *)

LEMMA StepIsStat ==
    ASSUME Next, phase = "ecall", regs["a7"] \in {fstatat, fstat}, phase' = "loop"
    PROVE  Stat
<1>1. \A f \in Forwarded : regs["a7"] # f[1]
  BY ForwardedFormat
<1>2. ~Forward
  BY <1>1 DEF Forward
<1>3. ~StatFaults /\ ~GuestCalls /\ ~transcode_loop
  BY DEF StatFaults, GuestCalls, transcode_loop
<1>4. ~Exit /\ ~rt_sigactionIgnored /\ ~NotImplemented
  BY DEF Exit, rt_sigactionIgnored, NotImplemented, Numbers, fstatat, fstat, exit, exit_group,
         rt_sigaction, Unknown
<1>. QED
  BY <1>2, <1>3, <1>4 DEF Next, emulate_ecall

LEMMA StatFills ==
    ASSUME StateInv, Stat, regs["a7"] \in {fstatat, fstat}, asked'.result >= 0,
           NEW p, p = regs[IF regs["a7"] = fstatat THEN "a2" ELSE "a1"]
    PROVE  /\ \E file \in Files : \A f \in Copied : memory'[p][f] = <<file, f>>
           /\ \A q \in Pointers \ {p} : memory'[q] = memory[q]
<1>1. PICK result \in Results, file \in Files :
        /\ StatPointer(regs["a7"]) \in Pointers
        /\ asked'.result = result
        /\ memory' = CopyTo(StatPointer(regs["a7"]), IF result >= 0 THEN Filled(file) ELSE Zeroes)
  BY DEF Stat, Ask
<1>2. p = StatPointer(regs["a7"]) /\ p \in Pointers
  BY <1>1 DEF StatPointer
<1>3. memory' = CopyTo(p, Filled(file))
  BY <1>1, <1>2
<1>4. \A q \in Pointers \ {p} : memory'[q] = memory[q]
  BY <1>2, <1>3 DEF CopyTo, StateInv
<1>5. Copied \subseteq statRiscV
  BY DEF statRiscV
<1>6. memory'[p] = [f \in statRiscV |-> IF f \in Copied THEN Filled(file)[f] ELSE memory[p][f]]
  BY <1>2, <1>3 DEF CopyTo, StateInv
<1>7. \A f \in Copied : memory'[p][f] = <<file, f>>
  BY <1>5, <1>6 DEF Filled
<1>. QED
  BY <1>4, <1>7

\* A stat call that succeeds fills the record the guest named, wherever it is,
\* with what the kernel knows of the file, and no other (cases 79 and 80).
THEOREM StatFilledHolds == Spec => StatFilled
<1> DEFINE Step == phase = "ecall" /\ regs["a7"] \in {fstatat, fstat} /\ phase' = "loop"
                       /\ asked'.result >= 0 =>
        LET p == regs[IF regs["a7"] = fstatat THEN "a2" ELSE "a1"]
        IN  /\ \E file \in Files : \A f \in Copied : memory'[p][f] = <<file, f>>
            /\ \A q \in Pointers \ {p} : memory'[q] = memory[q]
<1>1. StateInv /\ [Next]_vars => StateInv'
  BY NextStateInv
<1>2. StateInv /\ [Next]_vars => [Step]_vars
  BY StepIsStat, StatFills
<1>. QED
  BY <1>1, <1>2, InitStateInv, PTL DEF Spec, StatFilled

-----------------------------------------------------------------------------
(* Control and status registers. *)

CONSTANTS Regs, WIDTH, Inputs, Raises, Modes, FileCsrs, Operands
VARIABLES gp_file, mxcsr, fctrl, csr_file, stage, round, used, stopped

F == INSTANCE FloatControl

-----------------------------------------------------------------------------
(* Rounding modes: three bits of fcsr, two of MXCSR. *)

LEMMA RoundModes ==
    /\ F!to_SSE_RoundMode(F!RNE) = {} /\ F!to_SSE_RoundMode(F!RDN) = {13}
    /\ F!to_SSE_RoundMode(F!RUP) = {14} /\ F!to_SSE_RoundMode(F!RTZ) = {13, 14}
    /\ F!Supported = {F!RNE, F!RTZ, F!RDN, F!RUP} /\ F!RoundField = {13, 14}
<1>1. F!RNE # F!RTZ /\ F!RNE # F!RDN /\ F!RNE # F!RUP /\ F!RTZ # F!RDN /\ F!RTZ # F!RUP /\ F!RDN # F!RUP
  <2>1. /\ 0 \notin F!RNE /\ 0 \in F!RTZ /\ 0 \notin F!RDN /\ 0 \in F!RUP
        /\ 1 \notin F!RNE /\ 1 \notin F!RTZ /\ 1 \in F!RDN /\ 1 \in F!RUP
    BY DEF F!RNE, F!RTZ, F!RDN, F!RUP
  <2>. QED
    BY <2>1
<1>. QED
  BY <1>1 DEF F!to_SSE_RoundMode, F!Supported, F!RoundField, F!SSE_ROUND_SHIFT

LEMMA RoundModesApart ==
    ASSUME NEW r \in F!Supported, NEW q \in F!Supported, F!to_SSE_RoundMode(r) = F!to_SSE_RoundMode(q)
    PROVE  r = q
<1>1. {13} # {14} /\ {13} # {13, 14} /\ {14} # {13, 14} /\ {} # {13} /\ {} # {14} /\ {} # {13, 14}
  OBVIOUS
<1>. QED
  BY <1>1, RoundModes

LEMMA RoundBitsFormat ==
    ASSUME NEW r \in F!Supported
    PROVE  F!RoundBits(r) \subseteq F!RoundField /\ r \subseteq 0 .. 2
<1>1. F!RNE \subseteq 0 .. 2 /\ F!RTZ \subseteq 0 .. 2 /\ F!RDN \subseteq 0 .. 2 /\ F!RUP \subseteq 0 .. 2
  BY DEF F!RNE, F!RTZ, F!RDN, F!RUP
<1>2. r \in {F!RNE, F!RTZ, F!RDN, F!RUP}
  BY RoundModes
<1>3. r \subseteq 0 .. 2
  BY <1>1, <1>2
<1>4. F!to_SSE_RoundMode(r) \in {{}, {13}, {14}, {13, 14}}
  BY <1>2, RoundModes
<1>. QED
  BY <1>3, <1>4, RoundModes DEF F!RoundBits

\* Every content of the field is a mode.
LEMMA RoundOfMode ==
    ASSUME NEW n
    PROVE  F!RoundOf(n) \in F!Supported /\ F!RoundBits(F!RoundOf(n)) = n \cap F!RoundField
<1> DEFINE f == n \cap F!RoundField
<1>1. f \in {{}, {13}, {14}, {13, 14}}
  BY RoundModes
<1>2. \E r \in F!Supported : F!to_SSE_RoundMode(r) = f
  BY <1>1, RoundModes
<1>. QED
  BY <1>2 DEF F!RoundOf, F!to_RISCV_RoundMode, F!RoundBits

LEMMA RoundOfBits ==
    ASSUME NEW n, NEW r \in F!Supported, n \cap F!RoundField = F!RoundBits(r)
    PROVE  F!RoundOf(n) = r
BY RoundOfMode, RoundModesApart DEF F!RoundBits

-----------------------------------------------------------------------------
(* What a write of flags or of the mode does to MXCSR. *)

LEMMA MaskBits ==
    /\ F!SSE_FLAGS_MASK = {F!SSEFlag[b] : b \in 0 .. 4}
    /\ \A b, c \in 0 .. 4 : F!SSEFlag[b] = F!SSEFlag[c] => b = c
    /\ F!SSE_FLAGS_MASK \cap F!RoundField = {}
    /\ F!EXCEPTION_MASKS \cap (F!SSE_FLAGS_MASK \cup F!RoundField) = {}
<1>1. /\ F!SSEFlag[0] = 5 /\ F!SSEFlag[1] = 4 /\ F!SSEFlag[2] = 3 /\ F!SSEFlag[3] = 2 /\ F!SSEFlag[4] = 0
      /\ \A b \in 0 .. 4 : b \in {0, 1, 2, 3, 4}
  BY DEF F!SSEFlag
<1>2. F!SSE_FLAGS_MASK = {F!SSEFlag[b] : b \in 0 .. 4}
  BY <1>1 DEF F!SSE_FLAGS_MASK
<1>3. \A b, c \in 0 .. 4 : F!SSEFlag[b] = F!SSEFlag[c] => b = c
  BY DEF F!SSEFlag
<1>. QED
  BY <1>2, <1>3, RoundModes DEF F!SSE_FLAGS_MASK, F!EXCEPTION_MASKS

LEMMA FlagsOfFlags ==
    ASSUME NEW n, NEW v
    PROVE  /\ F!to_RISCV_flags(F!WithFlags(n, v)) = v \cap 0 .. 4
           /\ F!RoundOf(F!WithFlags(n, v)) = F!RoundOf(n)
           /\ F!WithFlags(n, v) \cap F!EXCEPTION_MASKS = n \cap F!EXCEPTION_MASKS
<1>1. \A b \in 0 .. 4 : F!SSEFlag[b] \in F!WithFlags(n, v) <=> b \in v
  BY MaskBits DEF F!WithFlags, F!to_SSE_flags
<1>2. F!WithFlags(n, v) \cap F!RoundField = n \cap F!RoundField
  BY MaskBits DEF F!WithFlags, F!to_SSE_flags
<1>3. F!WithFlags(n, v) \cap F!EXCEPTION_MASKS = n \cap F!EXCEPTION_MASKS
  BY MaskBits DEF F!WithFlags, F!to_SSE_flags
<1>. QED
  BY <1>1, <1>2, <1>3 DEF F!to_RISCV_flags, F!RoundOf

LEMMA RoundOfRound ==
    ASSUME NEW n, NEW r \in F!Supported
    PROVE  /\ F!RoundOf(F!WithRound(n, r)) = r
           /\ F!to_RISCV_flags(F!WithRound(n, r)) = F!to_RISCV_flags(n)
           /\ F!WithRound(n, r) \cap F!EXCEPTION_MASKS = n \cap F!EXCEPTION_MASKS
           /\ F!WithRound(n, r) \ F!RoundField = n \ F!RoundField
<1>1. F!WithRound(n, r) \cap F!RoundField = F!RoundBits(r)
  BY RoundBitsFormat DEF F!WithRound
<1>2. F!WithRound(n, r) \ F!RoundField = n \ F!RoundField
  BY RoundBitsFormat DEF F!WithRound
<1>3. \A b \in 0 .. 4 : F!SSEFlag[b] \in F!WithRound(n, r) <=> F!SSEFlag[b] \in n
  BY <1>2, MaskBits
<1>4. F!WithRound(n, r) \cap F!EXCEPTION_MASKS = n \cap F!EXCEPTION_MASKS
  BY <1>2, MaskBits
<1>. QED
  BY <1>1, <1>2, <1>3, <1>4, RoundOfBits DEF F!to_RISCV_flags

LEMMA SetRoundIsWithRound == \A rm : F!SetRound(rm) = F!WithRound(mxcsr, rm)
BY DEF F!SetRound, F!WithRound

-----------------------------------------------------------------------------
(* fcsr: flags below the rounding mode. *)

Fcsr(f, r) == f \cup F!ShiftLeft(r, F!FE_COUNT_RISCV)

LEMMA FcsrBits ==
    ASSUME NEW f \in SUBSET (0 .. 4), NEW r \in SUBSET (0 .. 2)
    PROVE  \A b \in Int : b \in Fcsr(f, r) <=> b \in f \/ b - 5 \in r
BY DEF Fcsr, F!ShiftLeft, F!FE_COUNT_RISCV

LEMMA FcsrRange ==
    ASSUME NEW f \in SUBSET (0 .. 4), NEW r \in SUBSET (0 .. 2)
    PROVE  Fcsr(f, r) \subseteq 0 .. 7
<1>1. \A b \in r : b + 5 \in 0 .. 7
  OBVIOUS
<1>2. F!ShiftLeft(r, F!FE_COUNT_RISCV) \subseteq 0 .. 7
  BY <1>1 DEF F!ShiftLeft, F!FE_COUNT_RISCV
<1>3. \A b \in 0 .. 4 : b \in 0 .. 7
  OBVIOUS
<1>. QED
  BY <1>2, <1>3 DEF Fcsr

LEMMA SameBits ==
    ASSUME NEW v \in SUBSET Int
    PROVE  {b + 0 : b \in v} = v /\ {b - 0 : b \in v} = v
<1>1. \A b \in v : b + 0 = b /\ b - 0 = b
  OBVIOUS
<1>2. {b + 0 : b \in v} = v
  BY <1>1
<1>3. {b - 0 : b \in v} = v
  BY <1>1
<1>. QED
  BY <1>2, <1>3

LEMMA FcsrRead ==
    ASSUME NEW f \in SUBSET (0 .. 4), NEW r \in SUBSET (0 .. 2)
    PROVE  /\ {b - 0 : b \in Fcsr(f, r) \cap 0 .. 4} = f
           /\ {b - 5 : b \in Fcsr(f, r) \cap 5 .. 7} = r
           /\ {b - 0 : b \in Fcsr(f, r) \cap 0 .. 7} = Fcsr(f, r)
<1>1. Fcsr(f, r) \subseteq 0 .. 7
  BY FcsrRange
<1>2. {b - 0 : b \in Fcsr(f, r) \cap 0 .. 4} = f
  <2>1. \A b \in 0 .. 4 : b \in Fcsr(f, r) <=> b \in f
    BY FcsrBits
  <2>2. Fcsr(f, r) \cap 0 .. 4 = f
    BY <2>1
  <2>3. \A b \in 0 .. 4 : b \in Int
    OBVIOUS
  <2>4. f \in SUBSET Int
    BY <2>3
  <2>. QED
    BY <2>2, <2>4, SameBits
<1>3. {b - 5 : b \in Fcsr(f, r) \cap 5 .. 7} = r
  <2>1. ASSUME NEW b \in Fcsr(f, r) \cap 5 .. 7
        PROVE  b - 5 \in r
    BY FcsrBits
  <2>2. ASSUME NEW b \in r
        PROVE  b + 5 \in Fcsr(f, r) \cap 5 .. 7 /\ b = (b + 5) - 5
    BY FcsrBits
  <2>. QED
    BY <2>1, <2>2
<1>4. {b - 0 : b \in Fcsr(f, r) \cap 0 .. 7} = Fcsr(f, r)
  <2>1. Fcsr(f, r) \cap 0 .. 7 = Fcsr(f, r) /\ Fcsr(f, r) \in SUBSET Int
    BY <1>1
  <2>. QED
    BY <2>1, SameBits
<1>. QED
  BY <1>2, <1>3, <1>4

\* The flags and the mode in a value that is written to one of the three.
Flags(v) == v \cap 0 .. 4
Mode(v) == v \cap 0 .. 2
UpperMode(v) == F!ShiftRight(v, F!FE_COUNT_RISCV) \cap 0 .. 2

LEMMA FcsrWritten ==
    ASSUME NEW f \in SUBSET (0 .. 4), NEW r \in SUBSET (0 .. 2), NEW v \in SUBSET Int
    PROVE  /\ (Fcsr(f, r) \ 0 .. 4) \cup (F!ShiftLeft(v, 0) \cap 0 .. 4) = Fcsr(Flags(v), r)
           /\ (Fcsr(f, r) \ 5 .. 7) \cup (F!ShiftLeft(v, 5) \cap 5 .. 7) = Fcsr(f, Mode(v))
           /\ (Fcsr(f, r) \ 0 .. 7) \cup (F!ShiftLeft(v, 0) \cap 0 .. 7)
                = Fcsr(Flags(v), UpperMode(v))
<1> DEFINE w == UpperMode(v)
<1>0. Flags(v) \in SUBSET (0 .. 4) /\ Mode(v) \in SUBSET (0 .. 2) /\ w \in SUBSET (0 .. 2)
  BY DEF Flags, Mode, UpperMode
<1> HIDE DEF w
<1>1. Fcsr(f, r) \subseteq 0 .. 7 /\ Fcsr(Flags(v), r) \subseteq 0 .. 7
      /\ Fcsr(f, Mode(v)) \subseteq 0 .. 7 /\ Fcsr(Flags(v), w) \subseteq 0 .. 7
  BY <1>0, FcsrRange
<1>2. \A b \in Int : /\ b \in Fcsr(f, r) <=> b \in f \/ b - 5 \in r
                     /\ b \in Fcsr(Flags(v), r) <=> b \in v \cap 0 .. 4 \/ b - 5 \in r
                     /\ b \in Fcsr(f, Mode(v)) <=> b \in f \/ b - 5 \in v \cap 0 .. 2
                     /\ b \in Fcsr(Flags(v), w) <=> b \in v \cap 0 .. 4 \/ b - 5 \in w
  <2>1. \A b \in Int : /\ b \in Fcsr(f, r) <=> b \in f \/ b - 5 \in r
                       /\ b \in Fcsr(Flags(v), r) <=> b \in Flags(v) \/ b - 5 \in r
                       /\ b \in Fcsr(f, Mode(v)) <=> b \in f \/ b - 5 \in Mode(v)
                       /\ b \in Fcsr(Flags(v), w) <=> b \in Flags(v) \/ b - 5 \in w
    BY <1>0, FcsrBits
  <2>. QED
    BY <2>1 DEF Flags, Mode
<1>3. F!ShiftLeft(v, 0) = v
  BY SameBits DEF F!ShiftLeft
<1>4. \A b \in Int : b \in F!ShiftLeft(v, 5) <=> b - 5 \in v
  <2>1. \A b \in Int : b = (b - 5) + 5 /\ (b + 5) - 5 = b
    OBVIOUS
  <2>. QED
    BY <2>1 DEF F!ShiftLeft
<1>5. \A b \in 0 .. 2 : b \in w <=> b + 5 \in v
  <2>1. \A b \in 0 .. 2 : b + 5 \in Int /\ b + 5 >= 5 /\ (b + 5) - 5 = b
    OBVIOUS
  <2>2. w = F!ShiftRight(v, 5) \cap 0 .. 2
    BY DEF w, UpperMode, F!FE_COUNT_RISCV
  <2>3. \A b \in w : b + 5 \in v
    BY <2>2 DEF F!ShiftRight
  <2>. QED
    BY <2>1, <2>2, <2>3 DEF F!ShiftRight
<1>6. (Fcsr(f, r) \ 0 .. 4) \cup (F!ShiftLeft(v, 0) \cap 0 .. 4) = Fcsr(Flags(v), r)
  <2>1. ASSUME NEW b \in 0 .. 7
        PROVE  b \in (Fcsr(f, r) \ 0 .. 4) \cup (v \cap 0 .. 4) <=> b \in Fcsr(Flags(v), r)
    BY <1>2
  <2>. QED
    BY <1>1, <1>3, <2>1
<1>7. (Fcsr(f, r) \ 5 .. 7) \cup (F!ShiftLeft(v, 5) \cap 5 .. 7) = Fcsr(f, Mode(v))
  <2>1. ASSUME NEW b \in 0 .. 7
        PROVE  b \in (Fcsr(f, r) \ 5 .. 7) \cup (F!ShiftLeft(v, 5) \cap 5 .. 7)
                 <=> b \in Fcsr(f, Mode(v))
    BY <1>2, <1>4
  <2>. QED
    BY <1>1, <2>1
<1>8. (Fcsr(f, r) \ 0 .. 7) \cup (F!ShiftLeft(v, 0) \cap 0 .. 7) = Fcsr(Flags(v), w)
  <2>1. ASSUME NEW b \in 0 .. 7
        PROVE  b \in (Fcsr(f, r) \ 0 .. 7) \cup (v \cap 0 .. 7) <=> b \in Fcsr(Flags(v), w)
    <3>1. CASE b \in 0 .. 4
      <4>1. b - 5 \notin 0 .. 2
        BY <3>1
      <4>. QED
        BY <1>0, <1>2, <3>1, <4>1
    <3>2. CASE b \in 5 .. 7
      <4>1. b - 5 \in 0 .. 2 /\ (b - 5) + 5 = b /\ b \notin 0 .. 4
        BY <3>2
      <4>2. b - 5 \in w <=> b \in v
        BY <4>1, <1>5
      <4>3. b \in Fcsr(Flags(v), w) <=> b - 5 \in w
        BY <1>2, <4>1
      <4>4. b \in (Fcsr(f, r) \ 0 .. 7) \cup (v \cap 0 .. 7) <=> b \in v
        OBVIOUS
      <4>. QED
        BY <4>2, <4>3, <4>4
    <3>. QED
      BY <3>1, <3>2
  <2> HIDE DEF w
  <2>. QED
    BY <1>1, <1>3, <2>1
<1>. QED
  BY <1>6, <1>7, <1>8 DEF w

\* A write of what was read changes nothing.
LEMMA FcsrRewritten ==
    ASSUME NEW f \in SUBSET (0 .. 4), NEW r \in SUBSET (0 .. 2)
    PROVE  /\ Flags(f) = f /\ Mode(r) = r
           /\ Flags(Fcsr(f, r)) = f /\ UpperMode(Fcsr(f, r)) = r
<1>1. \A b \in 0 .. 4 : b \in Fcsr(f, r) <=> b \in f
  BY FcsrBits
<1>2. Fcsr(f, r) \cap 0 .. 4 = f
  BY <1>1
<1>3. \A b \in 0 .. 2 : b + 5 \in Int /\ b + 5 >= 5 /\ (b + 5) - 5 = b /\ b + 5 \notin f
  OBVIOUS
<1>4. \A b \in 0 .. 2 : b + 5 \in Fcsr(f, r) <=> b \in r
  BY <1>3, FcsrBits
<1>5. ASSUME NEW b \in 0 .. 2
      PROVE  b \in F!ShiftRight(Fcsr(f, r), 5) <=> b \in r
  <2>1. ASSUME b \in F!ShiftRight(Fcsr(f, r), 5)
        PROVE  b + 5 \in Fcsr(f, r)
    <3>1. PICK c \in Fcsr(f, r) : c >= 5 /\ b = c - 5
      BY <2>1 DEF F!ShiftRight
    <3>2. c \in 0 .. 7
      BY FcsrRange
    <3>. QED
      BY <3>1, <3>2
  <2>2. ASSUME b + 5 \in Fcsr(f, r)
        PROVE  b \in F!ShiftRight(Fcsr(f, r), 5)
    BY <1>3, <2>2 DEF F!ShiftRight
  <2>. QED
    BY <2>1, <2>2, <1>4
<1>6. F!ShiftRight(Fcsr(f, r), 5) \cap 0 .. 2 = r
  BY <1>5
<1>7. Flags(f) = f /\ Mode(r) = r
  BY DEF Flags, Mode
<1>. QED
  BY <1>2, <1>6, <1>7 DEF Flags, UpperMode, F!FE_COUNT_RISCV

-----------------------------------------------------------------------------
(* The state: MXCSR belongs to the guest but for the mode of an            *)
(* instruction in progress.                                                *)

IntSets == SUBSET Int

IInv ==
    /\ gp_file \in [Regs -> IntSets]
    /\ \A k \in DOMAIN csr_file : csr_file[k] \in IntSets
    /\ stage \in {"idle", "set", "computed"}
    /\ stage = "idle" => fctrl = <<>>
    /\ stage # "idle" => /\ fctrl # <<>> /\ fctrl[F!SAVE] \subseteq F!RoundField
                        /\ round \in F!Supported /\ F!RoundOf(mxcsr) = round
    /\ F!ExceptionsMasked

LEMMA InitIInv == F!Init => IInv
BY DEF F!Init, IInv, IntSets, F!ExceptionsMasked

LEMMA ReadFormat ==
    ASSUME NEW c \in F!FpCsrs
    PROVE  F!ReadCsr(c) \in IntSets
<1> DEFINE f == F!to_RISCV_flags(mxcsr)
           r == F!RoundOf(mxcsr)
<1>1. f \in SUBSET (0 .. 4) /\ r \in SUBSET (0 .. 2)
  BY RoundOfMode, RoundBitsFormat DEF F!to_RISCV_flags
<1>2. Fcsr(f, r) \subseteq 0 .. 7
  BY <1>1, FcsrRange
<1>3. 0 .. 4 \in IntSets /\ 0 .. 2 \in IntSets /\ 0 .. 7 \in IntSets
  BY DEF IntSets
<1>. QED
  BY <1>1, <1>2, <1>3 DEF F!ReadCsr, F!FpCsrs, IntSets, Fcsr

LEMMA WriteMasked ==
    ASSUME F!ExceptionsMasked, NEW c \in F!FpCsrs, NEW v, F!WriteCsr(c, v)
    PROVE  F!ExceptionsMasked'
<1>1. CASE c = "FFLAGS"
  BY <1>1, FlagsOfFlags DEF F!WriteCsr, F!ExceptionsMasked
<1>2. CASE c # "FFLAGS"
  <2> DEFINE r == F!RoundAsked(c, v)
             n == IF c = "FCSR" THEN F!WithFlags(mxcsr, v) ELSE mxcsr
  <2>1. n \cap F!EXCEPTION_MASKS = mxcsr \cap F!EXCEPTION_MASKS
    BY FlagsOfFlags
  <2>2. mxcsr' = mxcsr \/ (r \in F!Supported /\ mxcsr' = F!WithRound(n, r))
    BY <1>2 DEF F!WriteCsr
  <2> HIDE DEF r, n
  <2>. QED
    BY <2>1, <2>2, RoundOfRound DEF F!ExceptionsMasked
<1>. QED
  BY <1>1, <1>2

LEMMA InstrFormat ==
    ASSUME F!FloatAssumption, IInv, NEW cs, NEW i \in F!Instrs(cs)
    PROVE  /\ i.c \in cs /\ i.op \in {"CSRRW", "CSRRS", "CSRRC"}
           /\ i.rd \in Regs \cup {"x0"} /\ F!Source(i) \in IntSets
           /\ i.rs1 # "uimm" => i.rs1 \in Regs \cup {"x0"} /\ <<i.rd, i.rs1>> \in Operands
<1>1. /\ i \in [op : {"CSRRW", "CSRRS", "CSRRC"}, c : cs, rd : {o[1] : o \in Operands},
                rs1 : {o[2] : o \in Operands} \cup {"uimm"}, uimm : F!Immediates]
      /\ i.rs1 # "uimm" => <<i.rd, i.rs1>> \in Operands
  BY DEF F!Instrs
<1>2. i.rd \in Regs \cup {"x0"} /\ (i.rs1 # "uimm" => i.rs1 \in Regs \cup {"x0"})
  BY <1>1 DEF F!FloatAssumption
<1>3. i.uimm \in IntSets
  BY <1>1 DEF F!Immediates, F!FloatAssumption, IntSets
<1>4. {} \in IntSets
  BY DEF IntSets
<1>5. F!Source(i) \in IntSets
  BY <1>2, <1>3, <1>4 DEF F!Source, F!Value, IInv
<1>. QED
  BY <1>1, <1>2, <1>5

LEMMA ModifiedFormat ==
    ASSUME NEW old \in IntSets, NEW src \in IntSets, NEW op \in {"CSRRW", "CSRRS", "CSRRC"}
    PROVE  F!Modified(op, old, src) \in IntSets
BY DEF F!Modified, IntSets

LEMMA CellFormat ==
    ASSUME IInv, NEW k
    PROVE  F!Cell(k) \in IntSets
BY DEF F!Cell, IInv, IntSets

LEMMA ManualInv ==
    ASSUME F!FloatAssumption, IInv, NEW i \in F!Instrs(F!FpCsrs), F!MANUAL_CSRR(i)
    PROVE  IInv'
<1>1. i.c \in F!FpCsrs /\ i.rd \in Regs \cup {"x0"}
  BY InstrFormat
<1>2. gp_file' \in [Regs -> IntSets]
  BY <1>1, ReadFormat DEF F!MANUAL_CSRR, IInv
<1>3. F!ExceptionsMasked'
  BY <1>1, WriteMasked DEF F!MANUAL_CSRR, IInv, F!ExceptionsMasked
<1>4. stage = "idle" /\ UNCHANGED <<fctrl, csr_file, stage, round>>
  BY DEF F!MANUAL_CSRR, F!Idle
<1>. QED
  BY <1>2, <1>3, <1>4 DEF IInv

LEMMA CsrrInv ==
    ASSUME F!FloatAssumption, IInv, NEW i \in F!Instrs(DOMAIN FileCsrs), F!CSRR(i)
    PROVE  IInv'
<1> DEFINE n == F!Index(i.c)
           old == F!Cell(n)
           src == IF i.rs1 = i.rd /\ i.rd # "x0" THEN old ELSE F!Source(i)
           new == IF F!ReadsOnly(i) THEN old ELSE F!Modified(i.op, old, src)
<1>1. /\ gp_file' = IF i.rd = "x0" THEN gp_file ELSE [gp_file EXCEPT ![i.rd] = old]
      /\ csr_file' = [k \in DOMAIN csr_file \cup {n} |-> IF k # n THEN csr_file[k] ELSE new]
      /\ UNCHANGED <<mxcsr, fctrl, stage, round>>
  BY DEF F!CSRR
<1>2. old \in IntSets /\ src \in IntSets /\ i.rd \in Regs \cup {"x0"}
      /\ i.op \in {"CSRRW", "CSRRS", "CSRRC"}
  BY CellFormat, InstrFormat
<1>3. new \in IntSets
  BY <1>2, ModifiedFormat
<1> HIDE DEF n, old, src, new
<1>4. gp_file' \in [Regs -> IntSets]
  BY <1>1, <1>2 DEF IInv
<1>5. \A k \in DOMAIN csr_file' : csr_file'[k] \in IntSets
  BY <1>1, <1>3 DEF IInv
<1>. QED
  BY <1>1, <1>4, <1>5 DEF IInv, F!ExceptionsMasked

LEMMA SetRoundInv ==
    ASSUME IInv, NEW rm, F!saveAndSetRound(rm)
    PROVE  IInv'
<1>1. CASE rm \in F!Supported
  <2>1. /\ mxcsr' = F!WithRound(mxcsr, rm)
        /\ fctrl' = [k \in {F!SAVE, F!SCRATCH} |->
                        IF k = F!SAVE THEN mxcsr \cap F!RoundField ELSE F!SetRound(rm)]
        /\ stage' = "set" /\ round' = rm /\ UNCHANGED <<gp_file, csr_file>>
    BY <1>1, SetRoundIsWithRound DEF F!saveAndSetRound
  <2>2. fctrl'[F!SAVE] = mxcsr \cap F!RoundField
    BY <2>1
  <2>3. fctrl' # <<>>
    <3>1. F!SAVE \in DOMAIN fctrl' /\ F!SAVE = 0
      BY <2>1 DEF F!SAVE, F!Element
    <3>. QED
      BY <3>1
  <2>4. F!ExceptionsMasked'
    BY <1>1, <2>1, RoundOfRound DEF IInv, F!ExceptionsMasked
  <2>5. F!RoundOf(mxcsr') = round' /\ round' \in F!Supported
    BY <1>1, <2>1, RoundOfRound
  <2>. QED
    BY <2>1, <2>2, <2>3, <2>4, <2>5 DEF IInv
<1>2. CASE rm \notin F!Supported
  BY <1>2 DEF F!saveAndSetRound, IInv, F!ExceptionsMasked
<1>. QED
  BY <1>1, <1>2

LEMMA RaisedAside ==
    ASSUME F!FloatAssumption, NEW raised \in Raises
    PROVE  F!RoundOf(mxcsr \cup raised) = F!RoundOf(mxcsr)
<1>1. raised \cap F!RoundField = {}
  BY RoundModes DEF F!FloatAssumption
<1>. QED
  BY <1>1 DEF F!RoundOf

LEMMA OperateInv ==
    ASSUME F!FloatAssumption, IInv, NEW rm, NEW raised \in Raises, F!Operate(rm, raised)
    PROVE  IInv'
<1>1. mxcsr' = mxcsr \cup raised /\ UNCHANGED <<gp_file, fctrl, csr_file, round>>
      /\ stage' \in {"idle", "set", "computed"} /\ (stage' = "idle" <=> stage = "idle")
  BY DEF F!Operate, IInv
<1>2. F!ExceptionsMasked'
  BY <1>1 DEF IInv, F!ExceptionsMasked
<1>3. F!RoundOf(mxcsr') = F!RoundOf(mxcsr)
  BY <1>1, RaisedAside
<1>. QED
  BY <1>1, <1>2, <1>3 DEF IInv

LEMMA RestoreInv ==
    ASSUME IInv, F!restoreFpRound
    PROVE  IInv'
<1>1. F!ExceptionsMasked'
  BY MaskBits DEF F!restoreFpRound, F!Restored, IInv, F!ExceptionsMasked
<1>. QED
  BY <1>1 DEF F!restoreFpRound, IInv

LEMMA NextIInv ==
    ASSUME F!FloatAssumption, IInv, [F!Next]_F!vars
    PROVE  IInv'
<1>1. ASSUME NEW r \in Regs, NEW v \in Inputs, F!Compute(r, v)
      PROVE  IInv'
  <2>1. v \in IntSets
    BY DEF F!FloatAssumption, IntSets
  <2>. QED
    BY <1>1, <2>1 DEF F!Compute, IInv, F!ExceptionsMasked
<1>2. CASE UNCHANGED F!vars
  BY <1>2 DEF F!vars, IInv, F!ExceptionsMasked
<1>. QED
  BY <1>1, <1>2, ManualInv, CsrrInv, SetRoundInv, OperateInv, RestoreInv DEF F!Next

-----------------------------------------------------------------------------
(* A CSR instruction is the step that is promised. *)

\* fcsr, as the guest sees it in MXCSR between instructions.
GuestFcsr == Fcsr(F!to_RISCV_flags(mxcsr), F!RoundOf(mxcsr))

LEMMA FcsrParts ==
    ASSUME NEW n
    PROVE  F!to_RISCV_flags(n) \in SUBSET (0 .. 4) /\ F!RoundOf(n) \in SUBSET (0 .. 2)
BY RoundOfMode, RoundBitsFormat DEF F!to_RISCV_flags

\* What c holds of fcsr when v is written to it.
Written(c, v) ==
    CASE c = "FFLAGS" -> Fcsr(Flags(v), F!RoundOf(mxcsr))
      [] c = "FRM"    -> Fcsr(F!to_RISCV_flags(mxcsr), Mode(v))
      [] c = "FCSR"   -> Fcsr(Flags(v), UpperMode(v))

LEMMA WriteRight ==
    ASSUME NEW c \in F!FpCsrs, NEW v, F!WriteCsr(c, v), ~stopped'
    PROVE  GuestFcsr' = Written(c, v)
<1>1. CASE c = "FFLAGS"
  <2>1. mxcsr' = F!WithFlags(mxcsr, v)
    BY <1>1 DEF F!WriteCsr
  <2>. QED
    BY <1>1, <2>1, FlagsOfFlags DEF GuestFcsr, Written, Flags
<1>2. CASE c = "FRM"
  <2>1. F!RoundAsked(c, v) = Mode(v)
    BY <1>2 DEF F!RoundAsked, Mode
  <2>2. Mode(v) \in F!Supported /\ mxcsr' = F!WithRound(mxcsr, Mode(v))
    BY <1>2, <2>1 DEF F!WriteCsr
  <2>. QED
    BY <1>2, <2>2, RoundOfRound DEF GuestFcsr, Written
<1>3. CASE c = "FCSR"
  <2> DEFINE r == UpperMode(v)
             n == F!WithFlags(mxcsr, v)
  <2>1. F!RoundAsked(c, v) = r
    BY <1>3 DEF F!RoundAsked, UpperMode
  <2>2. r \in F!Supported /\ mxcsr' = F!WithRound(n, r)
    BY <1>3, <2>1 DEF F!WriteCsr
  <2>3. F!to_RISCV_flags(n) = Flags(v)
    BY FlagsOfFlags DEF Flags
  <2>4. Written(c, v) = Fcsr(Flags(v), r)
    BY <1>3 DEF Written
  <2> HIDE DEF r, n
  <2>. QED
    BY <2>2, <2>3, <2>4, RoundOfRound DEF GuestFcsr
<1>. QED
  BY <1>1, <1>2, <1>3 DEF F!FpCsrs

LEMMA KeptRight ==
    ASSUME NEW c \in F!FpCsrs
    PROVE  GuestFcsr = Written(c, F!ReadCsr(c))
<1> DEFINE f == F!to_RISCV_flags(mxcsr)
           r == F!RoundOf(mxcsr)
<1>1. f \in SUBSET (0 .. 4) /\ r \in SUBSET (0 .. 2)
  BY FcsrParts
<1>2. /\ Flags(f) = f /\ Mode(r) = r
      /\ Flags(Fcsr(f, r)) = f /\ UpperMode(Fcsr(f, r)) = r
  BY <1>1, FcsrRewritten
<1>3. /\ c = "FFLAGS" => F!ReadCsr(c) = f
      /\ c = "FRM" => F!ReadCsr(c) = r
      /\ c = "FCSR" => F!ReadCsr(c) = Fcsr(f, r)
  BY DEF F!ReadCsr, Fcsr
<1>4. GuestFcsr = Fcsr(f, r)
  BY DEF GuestFcsr
<1>5. /\ c = "FFLAGS" => Written(c, F!ReadCsr(c)) = Fcsr(Flags(f), r)
      /\ c = "FRM" => Written(c, F!ReadCsr(c)) = Fcsr(f, Mode(r))
      /\ c = "FCSR" => Written(c, F!ReadCsr(c))
                         = Fcsr(Flags(Fcsr(f, r)), UpperMode(Fcsr(f, r)))
  BY <1>3 DEF Written
<1> HIDE DEF f, r
<1>. QED
  BY <1>2, <1>4, <1>5 DEF F!FpCsrs

\* Between two instructions the abstract fcsr is that of MXCSR.
LEMMA MappedFcsr ==
    ASSUME fctrl = <<>>
    PROVE  F!to_RISCV_flags(mxcsr) \cup F!ShiftLeft(F!GuestRound, F!FE_COUNT_RISCV) = GuestFcsr
BY DEF F!GuestRound, GuestFcsr, Fcsr

\* The promised read and write, of Fcsr.
LEMMA PromisedRead ==
    ASSUME fctrl = <<>>, NEW c \in F!FpCsrs
    PROVE  F!Promise!Read(c) = F!ReadCsr(c)
<1> DEFINE f == F!to_RISCV_flags(mxcsr)
           r == F!RoundOf(mxcsr)
<1>1. f \in SUBSET (0 .. 4) /\ r \in SUBSET (0 .. 2)
  BY FcsrParts
<1>2. /\ {b - 0 : b \in Fcsr(f, r) \cap 0 .. 4} = f
      /\ {b - 5 : b \in Fcsr(f, r) \cap 5 .. 7} = r
      /\ {b - 0 : b \in Fcsr(f, r) \cap 0 .. 7} = Fcsr(f, r)
  BY <1>1, FcsrRead
<1>3. f \cup F!ShiftLeft(F!GuestRound, F!FE_COUNT_RISCV) = Fcsr(f, r)
  BY MappedFcsr DEF GuestFcsr
<1>4. /\ c = "FFLAGS" => F!ReadCsr(c) = f
      /\ c = "FRM" => F!ReadCsr(c) = r
      /\ c = "FCSR" => F!ReadCsr(c) = Fcsr(f, r)
  BY DEF F!ReadCsr, Fcsr
<1>5. F!Promise!Read(c) = {b - F!Promise!Shift(c) : b \in Fcsr(f, r) \cap F!Promise!Window(c)}
  BY <1>3 DEF F!Promise!Read, F!Promise!FpCsrs, F!FpCsrs
<1>6. /\ c = "FFLAGS" => F!Promise!Shift(c) = 0 /\ F!Promise!Window(c) = 0 .. 4
      /\ c = "FRM" => F!Promise!Shift(c) = 5 /\ F!Promise!Window(c) = 5 .. 7
      /\ c = "FCSR" => F!Promise!Shift(c) = 0 /\ F!Promise!Window(c) = 0 .. 7
  BY DEF F!Promise!Shift, F!Promise!Window
<1> HIDE DEF f, r
<1>. QED
  BY <1>2, <1>4, <1>5, <1>6 DEF F!FpCsrs

LEMMA PromisedWrite ==
    ASSUME NEW c \in F!FpCsrs, NEW v \in IntSets
    PROVE  (GuestFcsr \ F!Promise!Window(c)) \cup ({b + F!Promise!Shift(c) : b \in v} \cap F!Promise!Window(c))
             = Written(c, v)
<1> DEFINE f == F!to_RISCV_flags(mxcsr)
           r == F!RoundOf(mxcsr)
<1>1. f \in SUBSET (0 .. 4) /\ r \in SUBSET (0 .. 2)
  BY FcsrParts
<1>2. /\ (Fcsr(f, r) \ 0 .. 4) \cup (F!ShiftLeft(v, 0) \cap 0 .. 4) = Fcsr(Flags(v), r)
      /\ (Fcsr(f, r) \ 5 .. 7) \cup (F!ShiftLeft(v, 5) \cap 5 .. 7) = Fcsr(f, Mode(v))
      /\ (Fcsr(f, r) \ 0 .. 7) \cup (F!ShiftLeft(v, 0) \cap 0 .. 7)
           = Fcsr(Flags(v), UpperMode(v))
  <2>1. v \in SUBSET Int
    BY DEF IntSets
  <2> HIDE DEF f, r
  <2>2. f \in SUBSET (0 .. 4) /\ r \in SUBSET (0 .. 2)
    BY <1>1
  <2>. QED
    <3>1. (Fcsr(f, r) \ 0 .. 4) \cup (F!ShiftLeft(v, 0) \cap 0 .. 4) = Fcsr(Flags(v), r)
      BY <2>1, <2>2, FcsrWritten
    <3>2. (Fcsr(f, r) \ 5 .. 7) \cup (F!ShiftLeft(v, 5) \cap 5 .. 7) = Fcsr(f, Mode(v))
      BY <2>1, <2>2, FcsrWritten
    <3>3. (Fcsr(f, r) \ 0 .. 7) \cup (F!ShiftLeft(v, 0) \cap 0 .. 7)
            = Fcsr(Flags(v), UpperMode(v))
      BY <2>1, <2>2, FcsrWritten
    <3>. QED
      BY <3>1, <3>2, <3>3
<1>3. /\ c = "FFLAGS" => Written(c, v) = Fcsr(Flags(v), r)
      /\ c = "FRM" => Written(c, v) = Fcsr(f, Mode(v))
      /\ c = "FCSR" => Written(c, v) = Fcsr(Flags(v), UpperMode(v))
  BY DEF Written
<1>4. /\ c = "FFLAGS" => F!Promise!Shift(c) = 0 /\ F!Promise!Window(c) = 0 .. 4
      /\ c = "FRM" => F!Promise!Shift(c) = 5 /\ F!Promise!Window(c) = 5 .. 7
      /\ c = "FCSR" => F!Promise!Shift(c) = 0 /\ F!Promise!Window(c) = 0 .. 7
  BY DEF F!Promise!Shift, F!Promise!Window
<1>5. GuestFcsr = Fcsr(f, r)
  BY DEF GuestFcsr
<1>6. {b + F!Promise!Shift(c) : b \in v} = F!ShiftLeft(v, F!Promise!Shift(c))
  BY DEF F!ShiftLeft
<1> HIDE DEF f, r
<1>. QED
  BY <1>2, <1>3, <1>4, <1>5, <1>6 DEF F!FpCsrs

LEMMA ManualPromised ==
    ASSUME F!FloatAssumption, IInv, NEW i \in F!Instrs(F!FpCsrs), F!MANUAL_CSRR(i), ~stopped'
    PROVE  F!Promise!Csr(i, F!Source(i), F!NoSource(i))
<1> DEFINE old == F!ReadCsr(i.c)
           new == IF F!ReadsOnly(i) THEN old ELSE F!Modified(i.op, old, F!Source(i))
<1>1. fctrl = <<>> /\ UNCHANGED <<fctrl, csr_file, used>>
      /\ gp_file' = IF i.rd = "x0" THEN gp_file ELSE [gp_file EXCEPT ![i.rd] = old]
  BY DEF F!MANUAL_CSRR, F!Idle, IInv
<1>2. i.c \in F!FpCsrs /\ i.op \in {"CSRRW", "CSRRS", "CSRRC"} /\ F!Source(i) \in IntSets
  BY InstrFormat
<1>3. old \in IntSets /\ F!Promise!Read(i.c) = old
  BY <1>1, <1>2, ReadFormat, PromisedRead
<1>4. new \in IntSets
  BY <1>2, <1>3, ModifiedFormat
<1>5. GuestFcsr' = Written(i.c, new)
  <2>1. CASE F!ReadsOnly(i)
    <3>1. GuestFcsr' = GuestFcsr
      BY <2>1 DEF F!MANUAL_CSRR, GuestFcsr
    <3>. QED
      BY <2>1, <3>1, <1>2, KeptRight
  <2>2. CASE ~F!ReadsOnly(i)
    <3>1. F!WriteCsr(i.c, new)
      BY <2>2 DEF F!MANUAL_CSRR
    <3> HIDE DEF new
    <3>. QED
      BY <3>1, <1>2, WriteRight
  <2>. QED
    BY <2>1, <2>2
<1>6. (F!to_RISCV_flags(mxcsr) \cup F!ShiftLeft(F!GuestRound, F!FE_COUNT_RISCV)) = GuestFcsr
  BY <1>1, MappedFcsr
<1>7. (F!to_RISCV_flags(mxcsr) \cup F!ShiftLeft(F!GuestRound, F!FE_COUNT_RISCV))' = GuestFcsr'
  BY <1>1 DEF F!GuestRound, GuestFcsr, Fcsr
<1>8. GuestFcsr' = (GuestFcsr \ F!Promise!Window(i.c))
                     \cup ({b + F!Promise!Shift(i.c) : b \in new} \cap F!Promise!Window(i.c))
  BY <1>2, <1>4, <1>5, PromisedWrite
<1>9. [c \in DOMAIN FileCsrs |-> F!Cell(F!Index(c))]' = [c \in DOMAIN FileCsrs |-> F!Cell(F!Index(c))]
  BY <1>1 DEF F!Cell
<1>10. new = IF F!NoSource(i) /\ i.op # "CSRRW" THEN old ELSE F!Promise!Modified(i.op, old, F!Source(i))
  BY <1>2 DEF F!ReadsOnly, F!Modified, F!Promise!Modified
<1>11. i.c \in F!Promise!FpCsrs
  BY <1>2 DEF F!Promise!FpCsrs, F!FpCsrs
<1> HIDE DEF new, old
<1>. QED
  BY <1>1, <1>3, <1>6, <1>7, <1>8, <1>9, <1>10, <1>11 DEF F!Promise!Csr

LEMMA IndexApart ==
    ASSUME F!FloatAssumption, NEW c \in DOMAIN FileCsrs, NEW d \in DOMAIN FileCsrs, F!Index(c) = F!Index(d)
    PROVE  c = d
<1> DEFINE m == FileCsrs[c]
           n == FileCsrs[d]
<1>1. m \in 0 .. 4095 /\ n \in 0 .. 4095 /\ (m = n => c = d)
  BY DEF F!FloatAssumption
<1>2. /\ m >= 2048 => F!Index(c) = m - 4096
      /\ n >= 2048 => F!Index(d) = n - 4096
      /\ ~(m >= 2048) => F!Index(c) = m
      /\ ~(n >= 2048) => F!Index(d) = n
  BY DEF F!Index
<1> HIDE DEF m, n
<1>3. m \in Int /\ n \in Int /\ m >= 0 /\ n >= 0 /\ 4095 >= m /\ 4095 >= n
  BY <1>1
<1>4. m = n
  BY <1>2, <1>3
<1>. QED
  BY <1>1, <1>4

LEMMA CsrrPromised ==
    ASSUME F!FloatAssumption, IInv, NEW i \in F!Instrs(DOMAIN FileCsrs), F!CSRR(i)
    PROVE  F!Promise!Csr(i, IF F!SameRegister(i) THEN F!Promise!Read(i.c) ELSE F!Source(i), F!NoSource(i))
<1> DEFINE n == F!Index(i.c)
           old == F!Cell(n)
           src == IF F!SameRegister(i) THEN old ELSE F!Source(i)
           new == IF F!ReadsOnly(i) THEN old ELSE F!Modified(i.op, old, src)
           csrs == [c \in DOMAIN FileCsrs |-> F!Cell(F!Index(c))]
<1>1. /\ i.c \in DOMAIN FileCsrs /\ i.op \in {"CSRRW", "CSRRS", "CSRRC"}
      /\ i.rs1 # "uimm" => <<i.rd, i.rs1>> \in Operands
      /\ i.rd # "uimm"
  BY InstrFormat DEF F!FloatAssumption
<1>2. /\ gp_file' = IF i.rd = "x0" THEN gp_file ELSE [gp_file EXCEPT ![i.rd] = old]
      /\ csr_file' = [k \in DOMAIN csr_file \cup {n} |-> IF k # n THEN csr_file[k] ELSE new]
      /\ UNCHANGED <<mxcsr, fctrl, used>>
  BY DEF F!CSRR, F!SameRegister
<1>3. csrs[i.c] = old
  BY <1>1
<1>4. csrs' = [csrs EXCEPT ![i.c] = new]
  <2>1. ASSUME NEW c \in DOMAIN FileCsrs
        PROVE  F!Cell(F!Index(c))' = IF c = i.c THEN new ELSE F!Cell(F!Index(c))
    <3>1. F!Index(c) = n => c = i.c
      BY <1>1, IndexApart
    <3> HIDE DEF new
    <3>. QED
      BY <1>2, <3>1 DEF F!Cell
  <2>. QED
    BY <2>1, <1>1
<1>5. (F!to_RISCV_flags(mxcsr) \cup F!ShiftLeft(F!GuestRound, F!FE_COUNT_RISCV))'
        = F!to_RISCV_flags(mxcsr) \cup F!ShiftLeft(F!GuestRound, F!FE_COUNT_RISCV)
  BY <1>2 DEF F!GuestRound
<1>6. new = IF F!NoSource(i) /\ i.op # "CSRRW" THEN old ELSE F!Promise!Modified(i.op, old, src)
  BY <1>1 DEF F!ReadsOnly, F!Modified, F!Promise!Modified
<1>7. i.c \notin F!Promise!FpCsrs
  BY <1>1 DEF F!FloatAssumption, F!Promise!FpCsrs, F!FpCsrs
<1>8. F!Promise!Read(i.c) = old
  BY <1>3, <1>7 DEF F!Promise!Read
<1>9. src = IF F!SameRegister(i) THEN F!Promise!Read(i.c) ELSE F!Source(i)
  BY <1>8
<1> HIDE DEF new, old, n, src
<1>. QED
  BY <1>2, <1>4, <1>5, <1>6, <1>7, <1>8, <1>9 DEF F!Promise!Csr

-----------------------------------------------------------------------------
(* An instruction with a rounding mode is the step that is promised. *)

LEMMA SetRoundHidden ==
    ASSUME IInv, NEW rm, F!saveAndSetRound(rm)
    PROVE  UNCHANGED F!Promise!vars
<1>1. stage = "idle" /\ fctrl = <<>> /\ UNCHANGED <<gp_file, csr_file, used>>
  BY DEF F!saveAndSetRound, F!Idle, IInv
<1>2. CASE rm \in F!Supported
  <2>1. /\ mxcsr' = F!WithRound(mxcsr, rm)
        /\ fctrl' = [k \in {F!SAVE, F!SCRATCH} |->
                        IF k = F!SAVE THEN mxcsr \cap F!RoundField ELSE F!SetRound(rm)]
        /\ stage' = "set"
    BY <1>2, SetRoundIsWithRound DEF F!saveAndSetRound
  <2>2. fctrl'[F!SAVE] = mxcsr \cap F!RoundField
    BY <2>1
  <2>3. fctrl' # <<>>
    BY <2>1, SetRoundInv DEF IInv
  <2>4. F!RoundOf(mxcsr \cap F!RoundField) = F!RoundOf(mxcsr)
    <3>1. (mxcsr \cap F!RoundField) \cap F!RoundField = mxcsr \cap F!RoundField
      OBVIOUS
    <3>. QED
      BY <3>1 DEF F!RoundOf
  <2>5. F!GuestRound' = F!GuestRound
    BY <1>1, <2>2, <2>3, <2>4 DEF F!GuestRound
  <2>6. F!to_RISCV_flags(mxcsr') = F!to_RISCV_flags(mxcsr)
    BY <1>2, <2>1, RoundOfRound
  <2>. QED
    BY <1>1, <2>5, <2>6 DEF F!Promise!vars, F!Cell
<1>3. CASE rm \notin F!Supported
  BY <1>1, <1>3 DEF F!saveAndSetRound, F!Promise!vars, F!GuestRound, F!Cell
<1>. QED
  BY <1>2, <1>3

LEMMA RestoreHidden ==
    ASSUME IInv, F!restoreFpRound
    PROVE  UNCHANGED F!Promise!vars
<1>1. /\ mxcsr' = F!Restored /\ fctrl' = <<>> /\ UNCHANGED <<gp_file, csr_file, used>>
      /\ fctrl # <<>> /\ fctrl[F!SAVE] \subseteq F!RoundField
  BY DEF F!restoreFpRound, IInv
<1>2. mxcsr' \cap F!RoundField = fctrl[F!SAVE] \cap F!RoundField
  BY <1>1 DEF F!Restored
<1>3. F!GuestRound' = F!GuestRound
  BY <1>1, <1>2 DEF F!GuestRound, F!RoundOf
<1>4. \A b \in 0 .. 4 : F!SSEFlag[b] \in mxcsr' <=> F!SSEFlag[b] \in mxcsr
  BY <1>1, MaskBits DEF F!Restored
<1>5. F!to_RISCV_flags(mxcsr') = F!to_RISCV_flags(mxcsr)
  BY <1>4 DEF F!to_RISCV_flags
<1>. QED
  BY <1>1, <1>3, <1>5 DEF F!Promise!vars, F!Cell

LEMMA OperatePromised ==
    ASSUME F!FloatAssumption, IInv, NEW rm, NEW raised \in Raises, F!Operate(rm, raised)
    PROVE  F!Promise!Operate(rm, F!to_RISCV_flags(raised))
<1>1. /\ mxcsr' = mxcsr \cup raised /\ used' = F!RoundOf(mxcsr)
      /\ UNCHANGED <<gp_file, fctrl, csr_file>>
  BY DEF F!Operate
<1>2. F!to_RISCV_flags(mxcsr') = F!to_RISCV_flags(mxcsr) \cup F!to_RISCV_flags(raised)
  BY <1>1 DEF F!to_RISCV_flags
<1>3. F!GuestRound' = F!GuestRound
  BY <1>1, RaisedAside DEF F!GuestRound
<1>4. F!GuestRound \in SUBSET (0 .. 2) /\ F!to_RISCV_flags(mxcsr) \in SUBSET (0 .. 4)
  BY FcsrParts DEF F!GuestRound
<1>5. F!Promise!frm = F!GuestRound
  <2>1. {b - 5 : b \in Fcsr(F!to_RISCV_flags(mxcsr), F!GuestRound) \cap 5 .. 7} = F!GuestRound
    BY <1>4, FcsrRead
  <2>2. F!Promise!Window("FRM") = 5 .. 7
    BY DEF F!Promise!Window
  <2>. QED
    BY <2>1, <2>2 DEF F!Promise!frm, Fcsr
<1>6. used' = IF rm = F!DYN THEN F!GuestRound ELSE rm
  <2>1. CASE rm = F!DYN
    BY <1>1, <2>1 DEF F!Operate, IInv, F!GuestRound
  <2>2. CASE rm # F!DYN
    BY <1>1, <2>2 DEF F!Operate, IInv
  <2>. QED
    BY <2>1, <2>2
<1>7. F!Promise!DYN = F!DYN
  BY DEF F!Promise!DYN, F!DYN
<1>8. [c \in DOMAIN FileCsrs |-> F!Cell(F!Index(c))]' = [c \in DOMAIN FileCsrs |-> F!Cell(F!Index(c))]
  BY <1>1 DEF F!Cell
<1>9. (F!to_RISCV_flags(mxcsr) \cup F!ShiftLeft(F!GuestRound, F!FE_COUNT_RISCV))'
        = (F!to_RISCV_flags(mxcsr) \cup F!ShiftLeft(F!GuestRound, F!FE_COUNT_RISCV)) \cup F!to_RISCV_flags(raised)
  BY <1>2, <1>3
<1>. QED
  BY <1>1, <1>5, <1>6, <1>7, <1>8, <1>9 DEF F!Promise!Operate

-----------------------------------------------------------------------------
(* The theorems. *)

LEMMA CsrStepHolds ==
    ASSUME F!FloatAssumption, IInv
    PROVE  F!CsrStep
BY ManualPromised, CsrrPromised DEF F!CsrStep

LEMMA RoundingStepHolds ==
    ASSUME F!FloatAssumption, IInv
    PROVE  F!RoundingStep
BY OperatePromised, SetRoundHidden, RestoreHidden DEF F!RoundingStep

\* The premises that a run of a program keeps.
FloatInv == F!FloatAssumption /\ IInv

\* Guest code never unmasks an exception of the host, whatever it writes to the
\* CSRs and whatever it computes (manualCSRR, saveAndSetRound, restoreFpRound).
THEOREM ExceptionsMaskedHolds == F!FloatAssumption => (F!Spec => []F!ExceptionsMasked)
<1>1. F!FloatAssumption /\ F!Init => FloatInv
  BY InitIInv DEF FloatInv
<1>2. FloatInv /\ [F!Next]_F!vars => FloatInv'
  BY NextIInv DEF FloatInv
<1>3. FloatInv => F!ExceptionsMasked
  BY DEF FloatInv, IInv
<1>. QED
  BY <1>1, <1>2, <1>3, PTL DEF F!Spec

\* A floating point instruction rounds by the mode it asks for, its flags accrue,
\* and the guest's own mode, parked in fctrl_file meanwhile, never seems to change
\* (saveAndSetRound, restoreFpRound).
THEOREM RoundingAsPromisedHolds == F!FloatAssumption => (F!Spec => F!RoundingAsPromised)
<1>1. F!FloatAssumption /\ F!Init => FloatInv
  BY InitIInv DEF FloatInv
<1>2. FloatInv /\ [F!Next]_F!vars => FloatInv'
  BY NextIInv DEF FloatInv
<1>3. FloatInv => [F!RoundingStep]_F!vars
  BY RoundingStepHolds DEF FloatInv
<1>. QED
  BY <1>1, <1>2, <1>3, PTL DEF F!Spec, F!RoundingAsPromised

\* A CSR instruction reads and writes what the RISC-V manual says, over MXCSR's
\* renumbered flags and modes and the cells of the other CSRs; where those have rd
\* and rs1 in one register, the source is what rd was given (manualCSRR,
\* translate_csr.c).
THEOREM CsrAsPromisedHolds == F!FloatAssumption => (F!Spec => F!CsrAsPromised)
<1>1. F!FloatAssumption /\ F!Init => FloatInv
  BY InitIInv DEF FloatInv
<1>2. FloatInv /\ [F!Next]_F!vars => FloatInv'
  BY NextIInv DEF FloatInv
<1>3. FloatInv => [F!CsrStep]_F!vars
  BY CsrStepHolds DEF FloatInv
<1>. QED
  BY <1>1, <1>2, <1>3, PTL DEF F!Spec, F!CsrAsPromised

-----------------------------------------------------------------------------
(* The guest context. *)

CONSTANTS gp_map, fp_map, Unmapped, gp_order, fp_order, callee_saved, swap,
          CallerSaved, Values, Locs, floatBinary, UsesFloat
VARIABLES val, at, stack, guest, host, loc, zero

C == INSTANCE GuestContext

-----------------------------------------------------------------------------
(* The places. *)

Cells == C!Guests \cup C!Hosts \cup C!Swaps

LEMMA Places ==
    ASSUME C!ContextAssumption
    PROVE  /\ DOMAIN C!mapped = DOMAIN gp_map \cup DOMAIN fp_map
           /\ \A r \in DOMAIN gp_map : C!mapped[r] = gp_map[r]
           /\ \A r \in DOMAIN fp_map : C!mapped[r] = fp_map[r]
           /\ DOMAIN C!mapped \subseteq C!Guests /\ Unmapped \subseteq C!Guests
           /\ \A h \in C!CalleeSaved : h \in C!Hosts /\ swap[h] \in C!Swaps
           /\ {"AX", "DX", "DI", "SI"} \subseteq C!Hosts \ C!CalleeSaved
BY DEF C!ContextAssumption, C!mapped, C!Guests, C!Hosts, C!Swaps

NF == IF floatBinary THEN Len(fp_order) ELSE 0
NG == Len(gp_order)
NC == Len(callee_saved)

LEMMA Orders ==
    ASSUME C!ContextAssumption
    PROVE  /\ NF \in Nat /\ NG \in Nat /\ NC \in Nat
           /\ \A k \in 1 .. NF : fp_order[k] \in DOMAIN fp_map
           /\ \A k \in 1 .. NG : gp_order[k] \in DOMAIN gp_map
           /\ \A k \in 1 .. NC : callee_saved[k] \in C!CalleeSaved
           /\ floatBinary => \A r \in DOMAIN fp_map : \E k \in 1 .. NF : fp_order[k] = r
           /\ \A r \in DOMAIN gp_map : \E k \in 1 .. NG : gp_order[k] = r
           /\ \A h \in C!CalleeSaved : \E k \in 1 .. NC : callee_saved[k] = h
BY DEF C!ContextAssumption, NF, NG, NC, C!CalleeSaved

-----------------------------------------------------------------------------
(* The emitted code, by position. *)

Instructions ==
    {C!Mov(x, y) : x \in Cells, y \in Cells}
        \cup {C!Op("test"), C!Op("call_ax"), C!Op("ret"), C!Jmp("save"), C!JZ(2)}

LEMMA Emissions ==
    ASSUME NEW x \in Cells, NEW y \in Cells
    PROVE  C!Mov(x, y) \in Instructions
BY DEF Instructions

\* A run of moves, one per register.
FpSave == IF floatBinary THEN [k \in 1 .. Len(fp_order) |-> C!Mov(fp_order[k], fp_map[fp_order[k]])] ELSE <<>>
GpSave == [k \in 1 .. Len(gp_order) |-> C!Mov(gp_order[k], gp_map[gp_order[k]])]
HostLoad == [k \in 1 .. Len(callee_saved) |-> C!Mov(callee_saved[k], swap[callee_saved[k]])]
HostSave == [k \in 1 .. Len(callee_saved) |-> C!Mov(swap[callee_saved[k]], callee_saved[k])]
GpLoad == [k \in 1 .. Len(gp_order) |-> C!Mov(gp_map[gp_order[k]], gp_order[k])]
FpLoad == IF floatBinary THEN [k \in 1 .. Len(fp_order) |-> C!Mov(fp_map[fp_order[k]], fp_order[k])] ELSE <<>>

LEMMA Runs ==
    ASSUME C!ContextAssumption
    PROVE  /\ FpSave \in Seq(Instructions) /\ Len(FpSave) = NF
           /\ FpLoad \in Seq(Instructions) /\ Len(FpLoad) = NF
           /\ \A k \in 1 .. NF : /\ FpSave[k] = C!Mov(fp_order[k], C!mapped[fp_order[k]])
                               /\ FpLoad[k] = C!Mov(C!mapped[fp_order[k]], fp_order[k])
           /\ GpSave \in Seq(Instructions) /\ Len(GpSave) = NG
           /\ GpLoad \in Seq(Instructions) /\ Len(GpLoad) = NG
           /\ \A k \in 1 .. NG : /\ GpSave[k] = C!Mov(gp_order[k], C!mapped[gp_order[k]])
                               /\ GpLoad[k] = C!Mov(C!mapped[gp_order[k]], gp_order[k])
           /\ HostSave \in Seq(Instructions) /\ Len(HostSave) = NC
           /\ HostLoad \in Seq(Instructions) /\ Len(HostLoad) = NC
           /\ \A k \in 1 .. NC : /\ HostSave[k] = C!Mov(swap[callee_saved[k]], callee_saved[k])
                               /\ HostLoad[k] = C!Mov(callee_saved[k], swap[callee_saved[k]])
<1>1. \A x, y \in Cells : C!Mov(x, y) \in Instructions
  BY Emissions
<1>2. \A r \in DOMAIN C!mapped : r \in Cells /\ C!mapped[r] \in Cells
  BY Places DEF Cells, C!ContextAssumption
<1>3. \A h \in C!CalleeSaved : h \in Cells /\ swap[h] \in Cells
  BY Places DEF Cells
<1>4. /\ \A k \in 1 .. NF : fp_order[k] \in DOMAIN C!mapped /\ fp_map[fp_order[k]] = C!mapped[fp_order[k]]
      /\ \A k \in 1 .. NG : gp_order[k] \in DOMAIN C!mapped /\ gp_map[gp_order[k]] = C!mapped[gp_order[k]]
  BY Orders, Places
<1>5. /\ FpSave \in Seq(Instructions) /\ Len(FpSave) = NF
      /\ \A k \in 1 .. NF : FpSave[k] = C!Mov(fp_order[k], C!mapped[fp_order[k]])
  <2>1. CASE floatBinary
    <3>1. FpSave = [k \in 1 .. NF |-> C!Mov(fp_order[k], fp_map[fp_order[k]])]
      BY <2>1 DEF FpSave, NF
    <3>2. \A k \in 1 .. NF : C!Mov(fp_order[k], fp_map[fp_order[k]]) \in Instructions
      BY <1>1, <1>2, <1>4
    <3>. QED
      BY <3>1, <3>2, <1>4, Orders
  <2>2. CASE ~floatBinary
    BY <2>2 DEF FpSave, NF
  <2>. QED
    BY <2>1, <2>2
<1>6. /\ FpLoad \in Seq(Instructions) /\ Len(FpLoad) = NF
      /\ \A k \in 1 .. NF : FpLoad[k] = C!Mov(C!mapped[fp_order[k]], fp_order[k])
  <2>1. CASE floatBinary
    <3>1. FpLoad = [k \in 1 .. NF |-> C!Mov(fp_map[fp_order[k]], fp_order[k])]
      BY <2>1 DEF FpLoad, NF
    <3>2. \A k \in 1 .. NF : C!Mov(fp_map[fp_order[k]], fp_order[k]) \in Instructions
      BY <1>1, <1>2, <1>4
    <3>. QED
      BY <3>1, <3>2, <1>4, Orders
  <2>2. CASE ~floatBinary
    BY <2>2 DEF FpLoad, NF
  <2>. QED
    BY <2>1, <2>2
<1>7. /\ GpSave \in Seq(Instructions) /\ Len(GpSave) = NG
      /\ GpLoad \in Seq(Instructions) /\ Len(GpLoad) = NG
      /\ \A k \in 1 .. NG : /\ GpSave[k] = C!Mov(gp_order[k], C!mapped[gp_order[k]])
                          /\ GpLoad[k] = C!Mov(C!mapped[gp_order[k]], gp_order[k])
  <2>1. \A k \in 1 .. NG : /\ C!Mov(gp_order[k], gp_map[gp_order[k]]) \in Instructions
                          /\ C!Mov(gp_map[gp_order[k]], gp_order[k]) \in Instructions
    BY <1>1, <1>2, <1>4
  <2>2. /\ GpSave = [k \in 1 .. NG |-> C!Mov(gp_order[k], gp_map[gp_order[k]])]
        /\ GpLoad = [k \in 1 .. NG |-> C!Mov(gp_map[gp_order[k]], gp_order[k])]
    BY DEF GpSave, GpLoad, NG
  <2>3. GpSave \in Seq(Instructions) /\ Len(GpSave) = NG
    BY <2>1, <2>2, Orders
  <2>4. GpLoad \in Seq(Instructions) /\ Len(GpLoad) = NG
    BY <2>1, <2>2, Orders
  <2>. QED
    BY <2>2, <2>3, <2>4, <1>4
<1>8. /\ HostSave \in Seq(Instructions) /\ Len(HostSave) = NC
      /\ HostLoad \in Seq(Instructions) /\ Len(HostLoad) = NC
      /\ \A k \in 1 .. NC : /\ HostSave[k] = C!Mov(swap[callee_saved[k]], callee_saved[k])
                          /\ HostLoad[k] = C!Mov(callee_saved[k], swap[callee_saved[k]])
  <2>1. \A k \in 1 .. NC : /\ C!Mov(callee_saved[k], swap[callee_saved[k]]) \in Instructions
                          /\ C!Mov(swap[callee_saved[k]], callee_saved[k]) \in Instructions
    BY <1>1, <1>3, Orders
  <2>2. /\ HostSave = [k \in 1 .. NC |-> C!Mov(swap[callee_saved[k]], callee_saved[k])]
        /\ HostLoad = [k \in 1 .. NC |-> C!Mov(callee_saved[k], swap[callee_saved[k]])]
    BY DEF HostSave, HostLoad, NC
  <2>3. HostSave \in Seq(Instructions) /\ Len(HostSave) = NC
    BY <2>1, <2>2, Orders
  <2>4. HostLoad \in Seq(Instructions) /\ Len(HostLoad) = NC
    BY <2>1, <2>2, Orders
  <2>. QED
    BY <2>2, <2>3, <2>4
<1>. QED
  BY <1>5, <1>6, <1>7, <1>8

\* One run of code behind another.
LEMMA Appended ==
    ASSUME NEW s \in Seq(Instructions), NEW t \in Seq(Instructions)
    PROVE  /\ s \o t \in Seq(Instructions) /\ Len(s \o t) = Len(s) + Len(t)
           /\ \A k \in 1 .. Len(s) : (s \o t)[k] = s[k]
           /\ \A k \in 1 .. Len(t) : (s \o t)[Len(s) + k] = t[k]
<1>1. Len(s) \in Nat /\ Len(t) \in Nat
  BY LenProperties
<1>2. \A k \in 1 .. Len(s) : k \in 1 .. Len(s) + Len(t) /\ k <= Len(s)
  BY <1>1
<1>3. \A k \in 1 .. Len(t) : /\ Len(s) + k \in 1 .. Len(s) + Len(t) /\ ~(Len(s) + k <= Len(s))
                            /\ (Len(s) + k) - Len(s) = k
  BY <1>1
<1>. QED
  BY <1>1, <1>2, <1>3, ConcatProperties

SaveEnd == NF + NG + NC + 1
LoadEnd == NC + 2 + NG + NF

LEMMA SaveCode ==
    ASSUME C!ContextAssumption
    PROVE  /\ Len(C!save_context) = SaveEnd
           /\ \A k \in 1 .. NF : C!save_context[k] = C!Mov(fp_order[k], C!mapped[fp_order[k]])
           /\ \A k \in 1 .. NG : C!save_context[NF + k] = C!Mov(gp_order[k], C!mapped[gp_order[k]])
           /\ \A k \in 1 .. NC : C!save_context[NF + NG + k] = C!Mov(callee_saved[k], swap[callee_saved[k]])
           /\ C!save_context[SaveEnd] = C!Op("ret")
<1> DEFINE e == C!Op("ret")
           r == <<e>>
           a == FpSave
           b == a \o GpSave
           c == b \o HostLoad
           d == c \o r
           n == NF + NG
           m == n + NC
<1>1. r \in Seq(Instructions) /\ Len(r) = 1 /\ r[1] = e
  <2>1. e \in Instructions
    BY DEF Instructions
  <2> HIDE DEF e
  <2>. QED
    BY <2>1
<1>2. NF \in Nat /\ NG \in Nat /\ NC \in Nat /\ n \in Nat /\ m \in Nat /\ 1 \in Nat
  BY Orders
<1>3. /\ a \in Seq(Instructions) /\ Len(a) = NF
      /\ GpSave \in Seq(Instructions) /\ Len(GpSave) = NG
      /\ HostLoad \in Seq(Instructions) /\ Len(HostLoad) = NC
  BY Runs
<1> HIDE DEF a, r
<1>4. /\ b \in Seq(Instructions) /\ Len(b) = n
      /\ \A k \in 1 .. NF : b[k] = a[k]
      /\ \A k \in 1 .. NG : b[NF + k] = GpSave[k]
  <2>1. /\ b \in Seq(Instructions) /\ Len(b) = Len(a) + Len(GpSave)
        /\ \A k \in 1 .. Len(a) : b[k] = a[k]
        /\ \A k \in 1 .. Len(GpSave) : b[Len(a) + k] = GpSave[k]
    BY <1>2, <1>3, Appended
  <2> HIDE DEF b
  <2>. QED
    BY <2>1, <1>2, <1>3
<1>5. \A k \in 1 .. NG : NF + k \in 1 .. n
  BY <1>2
<1>6. \A k \in 1 .. NF : k \in 1 .. n
  BY <1>2
<1>7. SaveEnd = m + 1 /\ \A k : NF + NG + k = n + k
  BY DEF SaveEnd
<1>8. /\ \A k \in 1 .. n : k \in 1 .. m
      /\ \A k \in 1 .. NC : n + k \in 1 .. m
  BY <1>2
<1> HIDE DEF b, n
<1>9. /\ c \in Seq(Instructions) /\ Len(c) = n + NC
      /\ \A k \in 1 .. n : c[k] = b[k]
      /\ \A k \in 1 .. NC : c[n + k] = HostLoad[k]
  <2>1. /\ c \in Seq(Instructions) /\ Len(c) = Len(b) + Len(HostLoad)
        /\ \A k \in 1 .. Len(b) : c[k] = b[k]
        /\ \A k \in 1 .. Len(HostLoad) : c[Len(b) + k] = HostLoad[k]
    BY <1>2, <1>3, <1>4, Appended
  <2> HIDE DEF c
  <2>. QED
    BY <2>1, <1>2, <1>3, <1>4
<1>10. Len(c) = m
  BY <1>9
<1> HIDE DEF c, m
<1>11. /\ Len(d) = m + 1
       /\ \A k \in 1 .. m : d[k] = c[k]
       /\ \A k \in 1 .. 1 : d[m + k] = r[k]
  <2>1. /\ d \in Seq(Instructions) /\ Len(d) = Len(c) + Len(r)
        /\ \A k \in 1 .. Len(c) : d[k] = c[k]
        /\ \A k \in 1 .. Len(r) : d[Len(c) + k] = r[k]
    BY <1>1, <1>2, <1>9, <1>10, Appended
  <2> HIDE DEF d
  <2>. QED
    BY <2>1, <1>1, <1>2, <1>9, <1>10
<1>12. C!save_context = d
  BY DEF C!save_context, a, b, c, r, FpSave, GpSave, HostLoad
<1> HIDE DEF d
<1>13. \A k \in 1 .. NF : d[k] = C!Mov(fp_order[k], C!mapped[fp_order[k]])
  <2>1. \A k \in 1 .. NF : d[k] = a[k]
    BY <1>4, <1>6, <1>8, <1>9, <1>11
  <2>. QED
    BY <2>1, Runs DEF a
<1>14. \A k \in 1 .. NG : d[NF + k] = C!Mov(gp_order[k], C!mapped[gp_order[k]])
  <2>1. \A k \in 1 .. NG : d[NF + k] = GpSave[k]
    BY <1>4, <1>5, <1>8, <1>9, <1>11
  <2>. QED
    BY <2>1, Runs
<1>15. \A k \in 1 .. NC : d[n + k] = C!Mov(callee_saved[k], swap[callee_saved[k]])
  <2>1. \A k \in 1 .. NC : d[n + k] = HostLoad[k]
    BY <1>8, <1>9, <1>11
  <2>. QED
    BY <2>1, Runs
<1>16. d[m + 1] = e
  BY <1>1, <1>11
<1>. QED
  BY <1>7, <1>11, <1>12, <1>13, <1>14, <1>15, <1>16

LEMMA LoadCode ==
    ASSUME C!ContextAssumption
    PROVE  /\ Len(C!load_execute_save_context) = LoadEnd + 5
           /\ \A k \in 1 .. NC : C!load_execute_save_context[k] = C!Mov(swap[callee_saved[k]], callee_saved[k])
           /\ C!load_execute_save_context[NC + 1] = C!Mov("AX", "DI")
           /\ C!load_execute_save_context[NC + 2] = C!Mov("DX", "SI")
           /\ \A k \in 1 .. NG :
                 C!load_execute_save_context[NC + 2 + k] = C!Mov(C!mapped[gp_order[k]], gp_order[k])
           /\ \A k \in 1 .. NF :
                 C!load_execute_save_context[NC + 2 + NG + k] = C!Mov(C!mapped[fp_order[k]], fp_order[k])
           /\ C!load_execute_save_context[LoadEnd + 1] = C!Op("test")
           /\ C!load_execute_save_context[LoadEnd + 2] = C!JZ(2)
           /\ C!load_execute_save_context[LoadEnd + 3] = C!Op("call_ax")
           /\ C!load_execute_save_context[LoadEnd + 4] = C!Jmp("save")
           /\ C!load_execute_save_context[LoadEnd + 5] = C!Op("ret")
<1> DEFINE i1 == C!Mov("AX", "DI")
           i2 == C!Mov("DX", "SI")
           i3 == C!Op("test")
           i4 == C!JZ(2)
           i5 == C!Op("call_ax")
           i6 == C!Jmp("save")
           i7 == C!Op("ret")
           m == <<i1, i2>>
           z == <<i3, i4, i5, i6, i7>>
           a == HostSave
           b == a \o m
           g == GpLoad \o FpLoad
           c == b \o g
           d == c \o z
           n == NC + 2
           l == NG + NF
<1>1. /\ m \in Seq(Instructions) /\ Len(m) = 2 /\ m[1] = i1 /\ m[2] = i2
      /\ z \in Seq(Instructions) /\ Len(z) = 5
      /\ z[1] = i3 /\ z[2] = i4 /\ z[3] = i5 /\ z[4] = i6 /\ z[5] = i7
  <2>1. "AX" \in Cells /\ "DX" \in Cells /\ "DI" \in Cells /\ "SI" \in Cells
    BY Places DEF Cells
  <2>2. i1 \in Instructions /\ i2 \in Instructions
    BY <2>1, Emissions
  <2>3. /\ i3 \in Instructions /\ i4 \in Instructions /\ i5 \in Instructions
        /\ i6 \in Instructions /\ i7 \in Instructions
    BY DEF Instructions
  <2> HIDE DEF i1, i2, i3, i4, i5, i6, i7
  <2>. QED
    BY <2>2, <2>3
<1>2. /\ NF \in Nat /\ NG \in Nat /\ NC \in Nat /\ n \in Nat /\ l \in Nat
      /\ 2 \in Nat /\ 5 \in Nat /\ LoadEnd \in Nat /\ n + l = LoadEnd
  BY Orders DEF LoadEnd
<1>3. /\ a \in Seq(Instructions) /\ Len(a) = NC
      /\ GpLoad \in Seq(Instructions) /\ Len(GpLoad) = NG
      /\ FpLoad \in Seq(Instructions) /\ Len(FpLoad) = NF
  BY Runs
<1> HIDE DEF a, m, z
<1>4. /\ b \in Seq(Instructions) /\ Len(b) = n
      /\ \A k \in 1 .. NC : b[k] = a[k]
      /\ \A k \in 1 .. 2 : b[NC + k] = m[k]
  <2>1. /\ b \in Seq(Instructions) /\ Len(b) = Len(a) + Len(m)
        /\ \A k \in 1 .. Len(a) : b[k] = a[k]
        /\ \A k \in 1 .. Len(m) : b[Len(a) + k] = m[k]
    BY <1>1, <1>2, <1>3, Appended
  <2> HIDE DEF b
  <2>. QED
    BY <2>1, <1>1, <1>2, <1>3
<1>5. /\ g \in Seq(Instructions) /\ Len(g) = l
      /\ \A k \in 1 .. NG : g[k] = GpLoad[k]
      /\ \A k \in 1 .. NF : g[NG + k] = FpLoad[k]
  <2>1. /\ g \in Seq(Instructions) /\ Len(g) = Len(GpLoad) + Len(FpLoad)
        /\ \A k \in 1 .. Len(GpLoad) : g[k] = GpLoad[k]
        /\ \A k \in 1 .. Len(FpLoad) : g[Len(GpLoad) + k] = FpLoad[k]
    BY <1>2, <1>3, Appended
  <2> HIDE DEF g
  <2>. QED
    BY <2>1, <1>2, <1>3
<1>6. /\ \A k \in 1 .. NC : k \in 1 .. n /\ k \in 1 .. LoadEnd
      /\ \A k \in 1 .. 2 : NC + k \in 1 .. n /\ NC + k \in 1 .. LoadEnd
      /\ \A k \in 1 .. n : k \in 1 .. LoadEnd
      /\ \A k \in 1 .. l : n + k \in 1 .. LoadEnd
      /\ \A k \in 1 .. NG : k \in 1 .. l
      /\ \A k \in 1 .. NF : NG + k \in 1 .. l /\ NC + 2 + NG + k = n + (NG + k)
      /\ \A k \in 1 .. NG : NC + 2 + k = n + k
  BY <1>2 DEF LoadEnd
<1> HIDE DEF b, g, n, l
<1>7. /\ c \in Seq(Instructions) /\ Len(c) = n + l
      /\ \A k \in 1 .. n : c[k] = b[k]
      /\ \A k \in 1 .. l : c[n + k] = g[k]
  <2>1. /\ c \in Seq(Instructions) /\ Len(c) = Len(b) + Len(g)
        /\ \A k \in 1 .. Len(b) : c[k] = b[k]
        /\ \A k \in 1 .. Len(g) : c[Len(b) + k] = g[k]
    BY <1>2, <1>4, <1>5, Appended
  <2> HIDE DEF c
  <2>. QED
    BY <2>1, <1>2, <1>4, <1>5
<1>8. Len(c) = LoadEnd
  BY <1>2, <1>7
<1> HIDE DEF c
<1>9. /\ Len(d) = LoadEnd + 5
      /\ \A k \in 1 .. LoadEnd : d[k] = c[k]
      /\ \A k \in 1 .. 5 : d[LoadEnd + k] = z[k]
  <2>1. /\ d \in Seq(Instructions) /\ Len(d) = Len(c) + Len(z)
        /\ \A k \in 1 .. Len(c) : d[k] = c[k]
        /\ \A k \in 1 .. Len(z) : d[Len(c) + k] = z[k]
    BY <1>1, <1>2, <1>7, <1>8, Appended
  <2> HIDE DEF d
  <2>. QED
    BY <2>1, <1>1, <1>2, <1>7, <1>8
<1>10. C!load_execute_save_context = d
  BY DEF C!load_execute_save_context, C!LoadGuest, d, c, b, a, g, m, z, HostSave, GpLoad, FpLoad
<1> HIDE DEF d
<1>11. \A k \in 1 .. NC : d[k] = C!Mov(swap[callee_saved[k]], callee_saved[k])
  <2>1. \A k \in 1 .. NC : d[k] = a[k]
    BY <1>4, <1>6, <1>7, <1>9
  <2>. QED
    BY <2>1, Runs DEF a
<1>12. d[NC + 1] = C!Mov("AX", "DI") /\ d[NC + 2] = C!Mov("DX", "SI")
  <2>1. \A k \in 1 .. 2 : d[NC + k] = m[k]
    BY <1>4, <1>6, <1>7, <1>9
  <2>. QED
    BY <2>1, <1>1
<1>13. \A k \in 1 .. NG : d[NC + 2 + k] = C!Mov(C!mapped[gp_order[k]], gp_order[k])
  <2>1. \A k \in 1 .. NG : d[n + k] = GpLoad[k]
    BY <1>5, <1>6, <1>7, <1>9
  <2>. QED
    BY <2>1, <1>6, Runs
<1>14. \A k \in 1 .. NF : d[NC + 2 + NG + k] = C!Mov(C!mapped[fp_order[k]], fp_order[k])
  <2>1. \A k \in 1 .. NF : d[n + (NG + k)] = FpLoad[k]
    BY <1>5, <1>6, <1>7, <1>9
  <2>. QED
    BY <2>1, <1>6, Runs
<1>15. /\ d[LoadEnd + 1] = C!Op("test") /\ d[LoadEnd + 2] = C!JZ(2) /\ d[LoadEnd + 3] = C!Op("call_ax")
       /\ d[LoadEnd + 4] = C!Jmp("save") /\ d[LoadEnd + 5] = C!Op("ret")
  BY <1>1, <1>9
<1>. QED
  BY <1>9, <1>10, <1>11, <1>12, <1>13, <1>14, <1>15

LEMMA EcallCode ==
    /\ Len(C!translate_ECALL) = 6
    /\ C!translate_ECALL[1] = C!Call("save") /\ C!translate_ECALL[2] = C!Const("DI", 0)
    /\ C!translate_ECALL[3] = C!Const("SI", 0) /\ C!translate_ECALL[4] = C!Call("emulate")
    /\ C!translate_ECALL[5] = C!Const("SI", 0) /\ C!translate_ECALL[6] = C!Call("load")
BY DEF C!translate_ECALL

-----------------------------------------------------------------------------
(* The invariant: what is where, by the place that execution has reached.  *)

At(f, p) == [f |-> f, ip |-> p]
Host == At("host", 1)
AfterCall == At("load", LoadEnd + 4)     \* behind CALL_AX

InFile(r) == guest[r] \in {val[r], C!Unset}
InPlace(r) == guest[r] \in {val[C!mapped[r]], C!Unset}
Swapped(h) == val[swap[h]] = host[h]
Restored(h) == val[h] = host[h]

AllInFile == \A r \in C!Guests : InFile(r)
AllInPlace == \A r \in DOMAIN C!mapped : InPlace(r)
AllSwapped == \A h \in C!CalleeSaved : Swapped(h)
AllRestored == \A h \in C!CalleeSaved : Restored(h)

Kept ==
    /\ DOMAIN val = Cells /\ DOMAIN guest = C!Guests
    /\ \A r \in Unmapped : val[r] = guest[r]
    /\ UsesFloat \/ \A r \in DOMAIN fp_map : guest[r] = C!Unset

AtHost == at = Host /\ stack = <<>> /\ AllInFile /\ AllRestored

\* A call from C code is to execute a block, and one behind an ECALL is not.
FirstLoad(p) ==
    /\ stack = <<Host>> /\ p <= LoadEnd + 4
    /\ p <= NC + 2 => val["SI"] = 1
    /\ p \in NC + 3 .. LoadEnd + 1 => val["DX"] = 1
    /\ p = LoadEnd + 2 => ~zero

LoadAgain(p) ==
    /\ stack = <<At("ecall", 7), AfterCall, Host>> /\ p \notin {LoadEnd + 3, LoadEnd + 4}
    /\ p <= NC + 2 => val["SI"] = 0
    /\ p \in NC + 3 .. LoadEnd + 1 => val["DX"] = 0
    /\ p = LoadEnd + 2 => zero

AtLoad(p) ==
    /\ at = At("load", p)
    /\ p # LoadEnd + 4 => AllInFile
    /\ p <= NC => AllRestored
    /\ \A k \in 1 .. NC : k < p => Swapped(callee_saved[k])
    /\ \A k \in 1 .. NG : NC + 2 + k < p => InPlace(gp_order[k])
    /\ \A k \in 1 .. NF : NC + 2 + NG + k < p => InPlace(fp_order[k])
    /\ FirstLoad(p) \/ LoadAgain(p)

AtSave(p) ==
    /\ at = At("save", p)
    /\ stack = <<Host>> \/ stack = <<At("ecall", 2), AfterCall, Host>>
    /\ AllSwapped
    /\ p <= NF + NG => AllInPlace
    /\ \A k \in 1 .. NF : k < p => InFile(fp_order[k])
    /\ \A k \in 1 .. NG : NF + k < p => InFile(gp_order[k])
    /\ \A k \in 1 .. NC : NF + NG + k < p => Restored(callee_saved[k])

AtEcall(p) ==
    /\ at = At("ecall", p) /\ stack = <<AfterCall, Host>> /\ AllSwapped
    /\ p \in {1, 7} => AllInPlace
    /\ p \in 2 .. 6 => AllInFile /\ AllRestored
    /\ p = 6 => val["SI"] = 0

AtEmulate ==
    /\ at = At("emulate", 1) /\ stack = <<At("ecall", 5), AfterCall, Host>>
    /\ AllInFile /\ AllRestored /\ AllSwapped

AtBlock == at.f = "block" /\ stack = <<AfterCall, Host>> /\ AllInPlace /\ AllSwapped

Inv ==
    /\ Kept
    /\ \/ AtHost \/ AtEmulate \/ AtBlock
       \/ \E p \in 1 .. LoadEnd + 5 : AtLoad(p)
       \/ \E p \in 1 .. SaveEnd : AtSave(p)
       \/ \E p \in 1 .. 7 : AtEcall(p)

\* No cell is two things.
LEMMA Apart ==
    ASSUME C!ContextAssumption
    PROVE  /\ \A r \in C!Guests : r \in Cells /\ r \notin C!Hosts /\ r \notin C!Swaps
           /\ \A h \in C!Hosts : h \in Cells /\ h \notin C!Guests /\ h \notin C!Swaps
           /\ \A h \in C!CalleeSaved : swap[h] \in Cells /\ swap[h] \notin C!Guests /\ swap[h] \notin C!Hosts
           /\ \A r \in DOMAIN C!mapped : /\ C!mapped[r] \in C!Hosts /\ C!mapped[r] # "AX" /\ C!mapped[r] # "DX"
                                       /\ r \notin Unmapped
           /\ \A r, q \in DOMAIN C!mapped : C!mapped[r] = C!mapped[q] => r = q
           /\ \A g, h \in C!CalleeSaved : swap[g] = swap[h] => g = h
           /\ \A x \in {"AX", "DX", "DI", "SI"} : x \in C!Hosts /\ x \notin C!CalleeSaved
           /\ \A r \in C!Guests : r \in DOMAIN C!mapped \/ r \in Unmapped
BY Places DEF C!ContextAssumption, Cells, C!Guests, C!Swaps

\* A move, and what it leaves alone.
LEMMA MoveStep ==
    ASSUME C!ContextAssumption, Kept, C!Transfer \/ C!JumpOrCall,
           NEW f, NEW p \in Nat, at = At(f, p),
           NEW d \in Cells \ Unmapped, NEW s, C!Here = C!Mov(d, s)
    PROVE  /\ at' = At(f, p + 1) /\ Kept'
           /\ val'[d] = val[s] /\ \A x \in Cells \ {d} : val'[x] = val[x]
           /\ UNCHANGED <<stack, guest, host, loc, zero>>
<1>1. C!Here.op = "mov" /\ C!Here.d = d /\ C!Here.s = s
  BY DEF C!Mov
<1>2. C!Transfer
  BY <1>1 DEF C!JumpOrCall
<1>3. at' = At(f, p + 1)
  BY <1>2 DEF C!Transfer, C!NextIp, At
<1>4. val' = [val EXCEPT ![d] = val[s]] /\ UNCHANGED <<stack, guest, host, loc, zero>>
  BY <1>1, <1>2 DEF C!Transfer
<1>5. val'[d] = val[s] /\ (\A x \in Cells \ {d} : val'[x] = val[x]) /\ DOMAIN val' = Cells
  BY <1>4 DEF Kept
<1>6. Kept'
  <2>1. \A r \in Unmapped : r \in Cells /\ r # d
    BY Places DEF Cells
  <2>. QED
    BY <1>4, <1>5, <2>1 DEF Kept
<1>. QED
  BY <1>3, <1>4, <1>5, <1>6

\* The instruction at a place of the emitted code.
LEMMA Fetched ==
    ASSUME C!ContextAssumption, NEW p \in Nat
    PROVE  /\ at = At("load", p) => C!Here = C!load_execute_save_context[p] /\ (C!Emitted <=> p <= LoadEnd + 5)
           /\ at = At("save", p) => C!Here = C!save_context[p] /\ (C!Emitted <=> p <= SaveEnd)
           /\ at = At("ecall", p) => C!Here = C!translate_ECALL[p] /\ (C!Emitted <=> p <= 6)
<1>1. /\ C!Code("load") = C!load_execute_save_context /\ C!Code("save") = C!save_context
      /\ C!Code("ecall") = C!translate_ECALL
  BY DEF C!Code
<1>2. \A f : at = At(f, p) => at.f = f /\ at.ip = p
  BY DEF At
<1>3. ASSUME at = At("load", p)
      PROVE  C!Here = C!load_execute_save_context[p] /\ (C!Emitted <=> p <= LoadEnd + 5)
  BY <1>1, <1>2, <1>3, LoadCode DEF C!Here, C!Emitted
<1>4. ASSUME at = At("save", p)
      PROVE  C!Here = C!save_context[p] /\ (C!Emitted <=> p <= SaveEnd)
  BY <1>1, <1>2, <1>4, SaveCode DEF C!Here, C!Emitted
<1>5. ASSUME at = At("ecall", p)
      PROVE  C!Here = C!translate_ECALL[p] /\ (C!Emitted <=> p <= 6)
  BY <1>1, <1>2, <1>5, EcallCode DEF C!Here, C!Emitted
<1>. QED
  BY <1>3, <1>4, <1>5

-----------------------------------------------------------------------------
(* load_execute_save_context. *)

LEMMA SwapStep ==
    ASSUME C!ContextAssumption, Kept, C!Transfer \/ C!JumpOrCall,
           NEW p \in 1 .. NC, AtLoad(p)
    PROVE  Kept' /\ AtLoad(p + 1)'
<1> DEFINE h == callee_saved[p]
<1>1. p \in Nat /\ p + 1 \in Nat /\ NC \in Nat /\ NG \in Nat /\ NF \in Nat /\ LoadEnd \in Nat /\ p < LoadEnd
  BY Orders DEF LoadEnd
<1>2. h \in C!CalleeSaved
  BY Orders
<1> HIDE DEF h
<1>3. C!Here = C!Mov(swap[h], h) /\ at = At("load", p)
  <2>1. at = At("load", p)
    BY DEF AtLoad
  <2>2. C!Here = C!load_execute_save_context[p]
    BY <1>1, <2>1, Fetched
  <2>. QED
    BY <2>1, <2>2, LoadCode DEF h
<1>4. swap[h] \in Cells \ Unmapped /\ swap[h] \notin C!Guests /\ swap[h] \notin C!Hosts
  BY <1>2, Apart, Places
<1>5. /\ at' = At("load", p + 1) /\ Kept'
      /\ val'[swap[h]] = val[h] /\ \A x \in Cells \ {swap[h]} : val'[x] = val[x]
      /\ UNCHANGED <<stack, guest, host, loc, zero>>
  BY <1>1, <1>3, <1>4, MoveStep
<1>6. AllInFile'
  <2>1. AllInFile
    BY <1>1 DEF AtLoad
  <2>. QED
    BY <1>4, <1>5, <2>1, Apart DEF AllInFile, InFile
<1>7. AllRestored /\ AllRestored'
  <2>1. AllRestored
    BY DEF AtLoad
  <2>. QED
    BY <1>4, <1>5, <2>1, Apart, Places DEF AllRestored, Restored
<1>8. \A k \in 1 .. NC : k < p + 1 => Swapped(callee_saved[k])'
  <2> SUFFICES ASSUME NEW k \in 1 .. NC, k < p + 1
               PROVE  Swapped(callee_saved[k])'
    OBVIOUS
  <2>1. callee_saved[k] \in C!CalleeSaved
    BY Orders
  <2>2. CASE callee_saved[k] = h
    BY <1>2, <1>5, <1>7, <2>2 DEF Swapped, AllRestored, Restored
  <2>3. CASE callee_saved[k] # h
    <3>1. k < p
      BY <1>1, <2>3 DEF h
    <3>2. Swapped(callee_saved[k])
      BY <3>1 DEF AtLoad
    <3>3. swap[callee_saved[k]] \in Cells \ {swap[h]}
      BY <1>2, <2>1, <2>3, Apart
    <3>. QED
      BY <1>5, <3>2, <3>3 DEF Swapped
  <2>. QED
    BY <2>2, <2>3
<1>9. FirstLoad(p + 1)' \/ LoadAgain(p + 1)'
  <2>1. val'["SI"] = val["SI"]
    BY <1>4, <1>5, Apart
  <2>2. p + 1 <= NC + 2 /\ p + 1 \notin NC + 3 .. LoadEnd + 1 /\ p + 1 < LoadEnd + 2 /\ p <= NC + 2
    BY <1>1 DEF LoadEnd
  <2>3. FirstLoad(p) => FirstLoad(p + 1)'
    BY <1>1, <1>5, <2>1, <2>2 DEF FirstLoad
  <2>4. LoadAgain(p) => LoadAgain(p + 1)'
    BY <1>1, <1>5, <2>1, <2>2 DEF LoadAgain
  <2>. QED
    BY <2>3, <2>4 DEF AtLoad
<1>10. /\ \A k \in 1 .. NG : ~(NC + 2 + k < p + 1)
       /\ \A k \in 1 .. NF : ~(NC + 2 + NG + k < p + 1)
  BY <1>1
<1>. QED
  BY <1>5, <1>6, <1>7, <1>8, <1>9, <1>10 DEF AtLoad

LEMMA ArgumentStep ==
    ASSUME C!ContextAssumption, Kept, C!Transfer \/ C!JumpOrCall,
           NEW p \in {NC + 1, NC + 2}, AtLoad(p)
    PROVE  Kept' /\ AtLoad(p + 1)'
<1> DEFINE d == IF p = NC + 1 THEN "AX" ELSE "DX"
           s == IF p = NC + 1 THEN "DI" ELSE "SI"
<1>1. p \in Nat /\ p + 1 \in Nat /\ NC \in Nat /\ NG \in Nat /\ NF \in Nat /\ LoadEnd \in Nat /\ p <= LoadEnd
  BY Orders DEF LoadEnd
<1>2. C!Here = C!Mov(d, s) /\ at = At("load", p)
  <2>1. at = At("load", p)
    BY DEF AtLoad
  <2>2. C!Here = C!load_execute_save_context[p]
    BY <1>1, <2>1, Fetched
  <2>3. p = NC + 2 => p # NC + 1
    BY <1>1
  <2>. QED
    BY <2>1, <2>2, <2>3, LoadCode
<1>3. /\ d \in Cells \ Unmapped /\ d \notin C!Guests /\ d \notin C!Swaps /\ d \notin C!CalleeSaved
      /\ \A r \in DOMAIN C!mapped : C!mapped[r] # d
  BY Apart, Places
<1>4. d # "SI"
  OBVIOUS
<1>5. /\ at' = At("load", p + 1) /\ Kept'
      /\ val'[d] = val[s] /\ \A x \in Cells \ {d} : val'[x] = val[x]
      /\ UNCHANGED <<stack, guest, host, loc, zero>>
  <2> HIDE DEF d, s
  <2>. QED
    BY <1>1, <1>2, <1>3, MoveStep
<1>6. p = NC + 2 => val'["DX"] = val["SI"]
  BY <1>1, <1>5
<1> HIDE DEF d, s
<1>7. AllInFile'
  <2>1. AllInFile
    BY <1>1 DEF AtLoad
  <2>. QED
    BY <1>3, <1>5, <2>1, Apart DEF AllInFile, InFile
<1>8. \A k \in 1 .. NC : Swapped(callee_saved[k])'
  <2> SUFFICES ASSUME NEW k \in 1 .. NC
               PROVE  Swapped(callee_saved[k])'
    OBVIOUS
  <2>1. k < p /\ callee_saved[k] \in C!CalleeSaved
    BY <1>1, Orders
  <2>2. Swapped(callee_saved[k])
    BY <2>1 DEF AtLoad
  <2>3. swap[callee_saved[k]] \in Cells \ {d}
    BY <1>3, <2>1, Apart, Places
  <2>. QED
    BY <1>5, <2>2, <2>3 DEF Swapped
<1>9. FirstLoad(p + 1)' \/ LoadAgain(p + 1)'
  <2>1. val'["SI"] = val["SI"]
    BY <1>4, <1>5, Apart
  <2>2. /\ p <= NC + 2 /\ p + 1 < LoadEnd + 2
        /\ p + 1 \in NC + 3 .. LoadEnd + 1 => p = NC + 2
    BY <1>1 DEF LoadEnd
  <2>3. FirstLoad(p) => FirstLoad(p + 1)'
    BY <1>1, <1>5, <1>6, <2>1, <2>2 DEF FirstLoad
  <2>4. LoadAgain(p) => LoadAgain(p + 1)'
    BY <1>1, <1>5, <1>6, <2>1, <2>2 DEF LoadAgain
  <2>. QED
    BY <2>3, <2>4 DEF AtLoad
<1>10. /\ \A k \in 1 .. NG : ~(NC + 2 + k < p + 1)
       /\ \A k \in 1 .. NF : ~(NC + 2 + NG + k < p + 1)
       /\ ~(p + 1 <= NC)
  BY <1>1
<1>. QED
  BY <1>5, <1>7, <1>8, <1>9, <1>10 DEF AtLoad

LEMMA RegisterStep ==
    ASSUME C!ContextAssumption, Kept, C!Transfer \/ C!JumpOrCall,
           NEW p \in NC + 3 .. LoadEnd, AtLoad(p)
    PROVE  Kept' /\ AtLoad(p + 1)'
<1>1. /\ p \in Nat /\ p + 1 \in Nat /\ NC \in Nat /\ NG \in Nat /\ NF \in Nat /\ LoadEnd \in Nat
      /\ p <= LoadEnd /\ LoadEnd = NC + 2 + NG + NF
  BY Orders DEF LoadEnd
<1>2. PICK r \in DOMAIN C!mapped :
        /\ C!load_execute_save_context[p] = C!Mov(C!mapped[r], r)
        /\ \A k \in 1 .. NG : NC + 2 + k = p => gp_order[k] = r
        /\ \A k \in 1 .. NF : NC + 2 + NG + k = p => fp_order[k] = r
  <2>1. CASE p <= NC + 2 + NG
    <3> DEFINE j == p - (NC + 2)
    <3>1. j \in 1 .. NG /\ NC + 2 + j = p
      BY <1>1, <2>1
    <3>2. \A k \in 1 .. NG : NC + 2 + k = p => k = j
      BY <1>1
    <3>3. \A k \in 1 .. NF : NC + 2 + NG + k # p
      BY <1>1, <2>1
    <3> HIDE DEF j
    <3>4. gp_order[j] \in DOMAIN C!mapped
      BY <3>1, Orders, Places
    <3>. QED
      BY <3>1, <3>2, <3>3, <3>4, LoadCode
  <2>2. CASE ~(p <= NC + 2 + NG)
    <3> DEFINE j == p - (NC + 2 + NG)
    <3>1. j \in 1 .. NF /\ NC + 2 + NG + j = p
      BY <1>1, <2>2
    <3>2. \A k \in 1 .. NF : NC + 2 + NG + k = p => k = j
      BY <1>1
    <3>3. \A k \in 1 .. NG : NC + 2 + k # p
      BY <1>1, <2>2
    <3> HIDE DEF j
    <3>4. fp_order[j] \in DOMAIN C!mapped
      BY <3>1, Orders, Places
    <3>. QED
      BY <3>1, <3>2, <3>3, <3>4, LoadCode
  <2>. QED
    BY <2>1, <2>2
<1>3. C!Here = C!Mov(C!mapped[r], r) /\ at = At("load", p)
  <2>1. at = At("load", p)
    BY DEF AtLoad
  <2>2. C!Here = C!load_execute_save_context[p]
    BY <1>1, <2>1, Fetched
  <2>. QED
    BY <1>2, <2>1, <2>2
<1>4. /\ C!mapped[r] \in Cells \ Unmapped /\ C!mapped[r] \notin C!Guests /\ C!mapped[r] \notin C!Swaps
      /\ C!mapped[r] # "DX" /\ r \in C!Guests
  BY <1>2, Apart, Places
<1>5. /\ at' = At("load", p + 1) /\ Kept'
      /\ val'[C!mapped[r]] = val[r] /\ \A x \in Cells \ {C!mapped[r]} : val'[x] = val[x]
      /\ UNCHANGED <<stack, guest, host, loc, zero>>
  BY <1>1, <1>3, <1>4, MoveStep
<1>6. AllInFile /\ AllInFile'
  <2>1. AllInFile
    BY <1>1 DEF AtLoad
  <2>. QED
    BY <1>4, <1>5, <2>1, Apart DEF AllInFile, InFile
<1>7. \A k \in 1 .. NC : Swapped(callee_saved[k])'
  <2> SUFFICES ASSUME NEW k \in 1 .. NC
               PROVE  Swapped(callee_saved[k])'
    OBVIOUS
  <2>1. k < p /\ callee_saved[k] \in C!CalleeSaved
    BY <1>1, Orders
  <2>2. Swapped(callee_saved[k])
    BY <2>1 DEF AtLoad
  <2>3. swap[callee_saved[k]] \in Cells \ {C!mapped[r]}
    BY <1>4, <2>1, Apart, Places
  <2>. QED
    BY <1>5, <2>2, <2>3 DEF Swapped
<1>8. \A q \in DOMAIN C!mapped : q = r \/ InPlace(q) => InPlace(q)'
  <2> SUFFICES ASSUME NEW q \in DOMAIN C!mapped, q = r \/ InPlace(q)
               PROVE  InPlace(q)'
    OBVIOUS
  <2>1. CASE q = r
    <3>1. InFile(r)
      BY <1>4, <1>6 DEF AllInFile
    <3>. QED
      BY <1>5, <2>1, <3>1 DEF InPlace, InFile
  <2>2. CASE q # r
    <3>1. C!mapped[q] \in Cells \ {C!mapped[r]}
      BY <1>2, <2>2, Apart
    <3>. QED
      BY <1>5, <2>2, <3>1 DEF InPlace
  <2>. QED
    BY <2>1, <2>2
<1>9. \A k \in 1 .. NG : NC + 2 + k < p + 1 => InPlace(gp_order[k])'
  <2> SUFFICES ASSUME NEW k \in 1 .. NG, NC + 2 + k < p + 1
               PROVE  InPlace(gp_order[k])'
    OBVIOUS
  <2>1. gp_order[k] \in DOMAIN C!mapped
    BY Orders, Places
  <2>2. NC + 2 + k = p \/ NC + 2 + k < p
    BY <1>1
  <2>. QED
    BY <1>2, <1>8, <2>1, <2>2 DEF AtLoad
<1>10. \A k \in 1 .. NF : NC + 2 + NG + k < p + 1 => InPlace(fp_order[k])'
  <2> SUFFICES ASSUME NEW k \in 1 .. NF, NC + 2 + NG + k < p + 1
               PROVE  InPlace(fp_order[k])'
    OBVIOUS
  <2>1. fp_order[k] \in DOMAIN C!mapped
    BY Orders, Places
  <2>2. NC + 2 + NG + k = p \/ NC + 2 + NG + k < p
    BY <1>1
  <2>. QED
    BY <1>2, <1>8, <2>1, <2>2 DEF AtLoad
<1>11. FirstLoad(p + 1)' \/ LoadAgain(p + 1)'
  <2>1. val'["DX"] = val["DX"]
    BY <1>4, <1>5, Apart
  <2>2. ~(p + 1 <= NC + 2) /\ p + 1 < LoadEnd + 2 /\ p \in NC + 3 .. LoadEnd + 1
    BY <1>1
  <2>3. FirstLoad(p) => FirstLoad(p + 1)'
    BY <1>1, <1>5, <2>1, <2>2 DEF FirstLoad
  <2>4. LoadAgain(p) => LoadAgain(p + 1)'
    BY <1>1, <1>5, <2>1, <2>2 DEF LoadAgain
  <2>. QED
    BY <2>3, <2>4 DEF AtLoad
<1>12. ~(p + 1 <= NC)
  BY <1>1
<1>. QED
  BY <1>5, <1>6, <1>7, <1>9, <1>10, <1>11, <1>12 DEF AtLoad

\* The registers that are loaded are all there are.
LEMMA Loaded ==
    ASSUME C!ContextAssumption, Kept, NEW p \in LoadEnd + 1 .. LoadEnd + 5, AtLoad(p)
    PROVE  AllInPlace /\ AllSwapped
<1>1. /\ NC \in Nat /\ NG \in Nat /\ NF \in Nat /\ LoadEnd = NC + 2 + NG + NF
  BY Orders DEF LoadEnd
<1>2. ASSUME NEW h \in C!CalleeSaved
      PROVE  Swapped(h)
  <2>1. PICK k \in 1 .. NC : callee_saved[k] = h
    BY Orders
  <2>2. k < p
    BY <1>1
  <2>. QED
    BY <2>1, <2>2 DEF AtLoad
<1>3. ASSUME NEW r \in DOMAIN gp_map
      PROVE  InPlace(r)
  <2>1. PICK k \in 1 .. NG : gp_order[k] = r
    BY Orders
  <2>2. NC + 2 + k < p
    BY <1>1
  <2>. QED
    BY <2>1, <2>2 DEF AtLoad
<1>4. ASSUME NEW r \in DOMAIN fp_map
      PROVE  InPlace(r)
  <2>1. CASE floatBinary
    <3>1. PICK k \in 1 .. NF : fp_order[k] = r
      BY <2>1, Orders
    <3>2. NC + 2 + NG + k < p
      BY <1>1
    <3>. QED
      BY <3>1, <3>2 DEF AtLoad
  <2>2. CASE ~floatBinary
    BY <2>2 DEF Kept, InPlace, C!ContextAssumption
  <2>. QED
    BY <2>1, <2>2
<1>. QED
  BY <1>2, <1>3, <1>4, Places DEF AllSwapped, AllInPlace

\* A return address pushed.
LEMMA Pushed ==
    ASSUME NEW x, NEW y, NEW z
    PROVE  <<x>> \o <<y>> = <<x, y>> /\ <<x>> \o <<y, z>> = <<x, y, z>>
<1> DEFINE S == {x, y, z}
           s == <<x>>
           t == <<y>>
           u == <<y, z>>
           v == <<x, y>>
           w == <<x, y, z>>
<1>1. /\ s \in Seq(S) /\ Len(s) = 1 /\ s[1] = x
      /\ t \in Seq(S) /\ Len(t) = 1 /\ t[1] = y
      /\ u \in Seq(S) /\ Len(u) = 2 /\ u[1] = y /\ u[2] = z
      /\ v \in Seq(S) /\ Len(v) = 2 /\ v[1] = x /\ v[2] = y
      /\ w \in Seq(S) /\ Len(w) = 3 /\ w[1] = x /\ w[2] = y /\ w[3] = z
  OBVIOUS
<1> HIDE DEF s, t, u, v, w, S
<1>2. /\ s \o t \in Seq(S) /\ Len(s \o t) = Len(s) + Len(t)
      /\ \A i \in 1 .. Len(s) + Len(t) : (s \o t)[i] = IF i <= Len(s) THEN s[i] ELSE t[i - Len(s)]
  BY <1>1, ConcatProperties
<1>3. /\ s \o u \in Seq(S) /\ Len(s \o u) = Len(s) + Len(u)
      /\ \A i \in 1 .. Len(s) + Len(u) : (s \o u)[i] = IF i <= Len(s) THEN s[i] ELSE u[i - Len(s)]
  BY <1>1, ConcatProperties
<1>4. s \o t = v
  <2>1. \A i \in 1 .. Len(s \o t) : (s \o t)[i] = v[i]
    BY <1>1, <1>2
  <2>. QED
    BY <1>1, <1>2, <2>1, SeqEqual
<1>5. s \o u = w
  <2>1. \A i \in 1 .. Len(s \o u) : (s \o u)[i] = w[i]
    BY <1>1, <1>3
  <2>. QED
    BY <1>1, <1>3, <2>1, SeqEqual
<1>. QED
  BY <1>4, <1>5 DEF s, t, u, v, w

LEMMA SwitchStep ==
    ASSUME C!ContextAssumption, Inv, C!Transfer \/ C!JumpOrCall,
           NEW p \in LoadEnd + 1 .. LoadEnd + 5, AtLoad(p)
    PROVE  Inv'
<1>1. /\ LoadEnd \in Nat /\ p \in Nat /\ SaveEnd \in Nat /\ 1 <= SaveEnd
      /\ NC \in Nat /\ NG \in Nat /\ NF \in Nat /\ LoadEnd = NC + 2 + NG + NF
  BY Orders DEF LoadEnd, SaveEnd
<1>2. Kept /\ AllInPlace /\ AllSwapped
  BY Loaded DEF Inv
<1>3. at = At("load", p) /\ C!Here = C!load_execute_save_context[p]
  <2>1. at = At("load", p)
    BY DEF AtLoad
  <2>. QED
    BY <1>1, <2>1, Fetched
<1>4. C!NextIp = At("load", p + 1)
  BY <1>3 DEF C!NextIp, At
<1>5. UNCHANGED <<val, guest, host>> => Kept' /\ AllInPlace' /\ AllSwapped'
  BY <1>2 DEF Kept, AllInPlace, InPlace, AllSwapped, Swapped
<1>6. CASE p = LoadEnd + 1
  <2>1. C!Here.op = "test"
    <3>1. C!Here = C!Op("test")
      BY <1>3, <1>6, LoadCode
    <3>. QED
      BY <3>1 DEF C!Op
  <2>2. /\ at' = At("load", p + 1) /\ zero' = (val["DX"] = 0)
        /\ UNCHANGED <<val, stack, guest, host, loc>>
    BY <1>4, <2>1 DEF C!Transfer, C!JumpOrCall
  <2>3. FirstLoad(p + 1)' \/ LoadAgain(p + 1)'
    <3>1. CASE FirstLoad(p)
      <4>1. val["DX"] = 1
        BY <1>1, <1>6, <3>1 DEF FirstLoad
      <4>2. val["DX"] # 0
        BY <4>1
      <4>3. ~zero'
        BY <2>2, <4>2
      <4>. QED
        BY <1>1, <1>6, <2>2, <3>1, <4>3 DEF FirstLoad
    <3>2. CASE LoadAgain(p)
      <4>1. val["DX"] = 0
        BY <1>1, <1>6, <3>2 DEF LoadAgain
      <4>2. zero'
        BY <2>2, <4>1
      <4>. QED
        BY <1>1, <1>6, <2>2, <3>2, <4>2 DEF LoadAgain
    <3>. QED
      BY <3>1, <3>2 DEF AtLoad
  <2>4. AtLoad(p + 1)'
    <3>1. AllInFile /\ ~(p + 1 <= NC)
      BY <1>1, <1>6 DEF AtLoad
    <3>2. AllInFile'
      BY <2>2, <3>1 DEF AllInFile, InFile
    <3>3. \A k \in 1 .. NC : Swapped(callee_saved[k])'
      BY <1>5, <2>2, Orders DEF AllSwapped
    <3>4. /\ \A k \in 1 .. NG : InPlace(gp_order[k])'
          /\ \A k \in 1 .. NF : InPlace(fp_order[k])'
      BY <1>5, <2>2, Orders, Places DEF AllInPlace
    <3>. QED
      BY <2>2, <2>3, <3>1, <3>2, <3>3, <3>4 DEF AtLoad
  <2>. QED
    BY <1>1, <1>5, <1>6, <2>2, <2>4 DEF Inv
<1>7. CASE p = LoadEnd + 2
  <2>1. C!Here.op = "jz" /\ C!Here.i = 2
    <3>1. C!Here = C!JZ(2)
      BY <1>3, <1>7, LoadCode
    <3>. QED
      BY <3>1 DEF C!JZ
  <2>2. /\ at' = IF zero THEN At("load", p + 3) ELSE At("load", p + 1)
        /\ UNCHANGED <<val, stack, guest, host, loc, zero>>
    <3>1. [at EXCEPT !.ip = @ + 1 + 2] = At("load", p + 3)
      BY <1>1, <1>3 DEF At
    <3>. QED
      BY <1>4, <2>1, <3>1 DEF C!Transfer, C!JumpOrCall
  <2>3. AllInFile
    BY <1>1, <1>7 DEF AtLoad
  <2>4. /\ AllInFile'
        /\ \A k \in 1 .. NC : Swapped(callee_saved[k])'
        /\ \A k \in 1 .. NG : InPlace(gp_order[k])'
        /\ \A k \in 1 .. NF : InPlace(fp_order[k])'
    <3>1. AllInFile'
      BY <2>2, <2>3 DEF AllInFile, InFile
    <3>2. \A k \in 1 .. NC : Swapped(callee_saved[k])'
      BY <1>5, <2>2, Orders DEF AllSwapped
    <3>3. /\ \A k \in 1 .. NG : InPlace(gp_order[k])'
          /\ \A k \in 1 .. NF : InPlace(fp_order[k])'
      BY <1>5, <2>2, Orders, Places DEF AllInPlace
    <3>. QED
      BY <3>1, <3>2, <3>3
  <2>5. CASE FirstLoad(p)
    <3>1. ~zero
      BY <1>7, <2>5 DEF FirstLoad
    <3>2. at' = At("load", p + 1)
      BY <2>2, <3>1
    <3>3. FirstLoad(p + 1)'
      BY <1>1, <1>7, <2>2, <2>5 DEF FirstLoad
    <3>4. AtLoad(p + 1)'
      BY <1>1, <1>7, <2>4, <3>2, <3>3 DEF AtLoad
    <3>. QED
      BY <1>1, <1>5, <1>7, <2>2, <3>4 DEF Inv
  <2>6. CASE LoadAgain(p)
    <3>1. zero
      BY <1>7, <2>6 DEF LoadAgain
    <3>2. at' = At("load", p + 3)
      BY <2>2, <3>1
    <3>3. LoadAgain(p + 3)'
      BY <1>1, <1>7, <2>2, <2>6 DEF LoadAgain
    <3>4. AtLoad(p + 3)'
      BY <1>1, <1>7, <2>4, <3>2, <3>3 DEF AtLoad
    <3>. QED
      BY <1>1, <1>5, <1>7, <2>2, <3>4 DEF Inv
  <2>. QED
    BY <2>5, <2>6 DEF AtLoad
<1>8. CASE p = LoadEnd + 3
  <2>1. C!Here.op = "call_ax"
    <3>1. C!Here = C!Op("call_ax")
      BY <1>3, <1>8, LoadCode
    <3>. QED
      BY <3>1 DEF C!Op
  <2>2. stack = <<Host>>
    BY <1>8 DEF AtLoad, FirstLoad, LoadAgain
  <2>3. /\ at'.f = "block" /\ stack' = <<C!NextIp>> \o stack
        /\ UNCHANGED <<val, guest, host>>
    BY <2>1 DEF C!Transfer, C!JumpOrCall
  <2>4. stack' = <<AfterCall, Host>>
    <3>1. p + 1 = LoadEnd + 4
      BY <1>1, <1>8
    <3>2. C!NextIp = AfterCall
      BY <1>4, <3>1 DEF AfterCall
    <3>. QED
      BY <2>2, <2>3, <3>2, Pushed
  <2>. QED
    BY <1>5, <2>3, <2>4 DEF Inv, AtBlock
<1>9. CASE p = LoadEnd + 4
  <2>1. C!Here.op = "jmp" /\ C!Here.s = "save"
    <3>1. C!Here = C!Jmp("save")
      BY <1>3, <1>9, LoadCode
    <3>. QED
      BY <3>1 DEF C!Jmp
  <2>2. stack = <<Host>>
    BY <1>9 DEF AtLoad, FirstLoad, LoadAgain
  <2>3. at' = At("save", 1) /\ UNCHANGED <<val, stack, guest, host>>
    BY <2>1 DEF C!Transfer, C!JumpOrCall, At
  <2>4. AtSave(1)'
    <3>1. /\ \A k \in 1 .. NF : ~(k < 1)
          /\ \A k \in 1 .. NG : ~(NF + k < 1)
          /\ \A k \in 1 .. NC : ~(NF + NG + k < 1)
      BY <1>1
    <3>. QED
      BY <1>5, <2>2, <2>3, <3>1 DEF AtSave
  <2>. QED
    BY <1>1, <1>5, <2>3, <2>4 DEF Inv
<1>10. CASE p = LoadEnd + 5
  <2>1. C!Here.op = "ret"
    <3>1. C!Here = C!Op("ret")
      BY <1>3, <1>10, LoadCode
    <3>. QED
      BY <3>1 DEF C!Op
  <2>2. stack = <<At("ecall", 7), AfterCall, Host>>
    BY <1>1, <1>10 DEF AtLoad, FirstLoad, LoadAgain
  <2>3. at' = stack[1] /\ stack' = Tail(stack) /\ UNCHANGED <<val, guest, host>>
    BY <2>1 DEF C!Transfer, C!JumpOrCall
  <2>4. at' = At("ecall", 7) /\ stack' = <<AfterCall, Host>>
    BY <2>2, <2>3
  <2>5. 7 \in {1, 7} /\ 7 \notin 2 .. 6 /\ 7 # 6 /\ 7 \in 1 .. 7
    OBVIOUS
  <2>6. AtEcall(7)'
    BY <1>5, <2>3, <2>4, <2>5 DEF AtEcall, At
  <2>. QED
    BY <1>5, <2>3, <2>5, <2>6 DEF Inv
<1>. QED
  BY <1>1, <1>6, <1>7, <1>8, <1>9, <1>10

LEMMA LoadStep ==
    ASSUME C!ContextAssumption, Inv, C!Transfer \/ C!JumpOrCall,
           NEW p \in 1 .. LoadEnd + 5, AtLoad(p)
    PROVE  Inv'
<1>1. NC \in Nat /\ NG \in Nat /\ NF \in Nat /\ LoadEnd \in Nat /\ LoadEnd = NC + 2 + NG + NF
  BY Orders DEF LoadEnd
<1>2. Kept
  BY DEF Inv
<1>3. CASE p <= LoadEnd
  <2>1. p \in 1 .. NC \/ p \in {NC + 1, NC + 2} \/ p \in NC + 3 .. LoadEnd
    BY <1>1, <1>3
  <2>2. Kept' /\ AtLoad(p + 1)'
    BY <1>2, <2>1, SwapStep, ArgumentStep, RegisterStep
  <2>3. p + 1 \in 1 .. LoadEnd + 5
    BY <1>1, <1>3
  <2>. QED
    BY <2>2, <2>3 DEF Inv
<1>4. CASE ~(p <= LoadEnd)
  <2>1. p \in LoadEnd + 1 .. LoadEnd + 5
    BY <1>1, <1>4
  <2>. QED
    BY <2>1, SwitchStep
<1>. QED
  BY <1>3, <1>4

-----------------------------------------------------------------------------
(* save_context. *)

LEMMA FileStep ==
    ASSUME C!ContextAssumption, Kept, C!Transfer \/ C!JumpOrCall,
           NEW p \in 1 .. NF + NG, AtSave(p)
    PROVE  Kept' /\ AtSave(p + 1)'
<1>1. /\ p \in Nat /\ p + 1 \in Nat /\ NC \in Nat /\ NG \in Nat /\ NF \in Nat /\ p <= NF + NG
  BY Orders
<1>13. at = At("save", p) /\ C!Here = C!save_context[p]
  <2>1. at = At("save", p)
    BY DEF AtSave
  <2>. QED
    BY <1>1, <2>1, Fetched
<1>2. PICK r \in DOMAIN C!mapped :
        /\ C!save_context[p] = C!Mov(r, C!mapped[r])
        /\ \A k \in 1 .. NF : k = p => fp_order[k] = r
        /\ \A k \in 1 .. NG : NF + k = p => gp_order[k] = r
  <2>1. CASE p <= NF
    <3>1. p \in 1 .. NF /\ \A k \in 1 .. NG : NF + k # p
      BY <1>1, <2>1
    <3>2. fp_order[p] \in DOMAIN C!mapped
      BY <3>1, Orders, Places
    <3>. QED
      BY <3>1, <3>2, SaveCode
  <2>2. CASE ~(p <= NF)
    <3> DEFINE j == p - NF
    <3>1. j \in 1 .. NG /\ NF + j = p
      BY <1>1, <2>2
    <3>2. \A k \in 1 .. NG : NF + k = p => k = j
      BY <1>1
    <3>3. \A k \in 1 .. NF : k # p
      BY <1>1, <2>2
    <3> HIDE DEF j
    <3>4. gp_order[j] \in DOMAIN C!mapped
      BY <3>1, Orders, Places
    <3>. QED
      BY <3>1, <3>2, <3>3, <3>4, SaveCode
  <2>. QED
    BY <2>1, <2>2
<1>3. C!Here = C!Mov(r, C!mapped[r]) /\ at = At("save", p)
  BY <1>2, <1>13
<1>4. r \in Cells \ Unmapped /\ r \notin C!Hosts /\ r \notin C!Swaps
  BY <1>2, Apart, Places
<1>5. /\ at' = At("save", p + 1) /\ Kept'
      /\ val'[r] = val[C!mapped[r]] /\ \A x \in Cells \ {r} : val'[x] = val[x]
      /\ UNCHANGED <<stack, guest, host, loc, zero>>
  BY <1>1, <1>3, <1>4, MoveStep
<1>6. AllInPlace /\ AllInPlace'
  <2>1. AllInPlace
    BY <1>1 DEF AtSave
  <2>2. \A q \in DOMAIN C!mapped : C!mapped[q] \in Cells \ {r}
    BY <1>4, Apart
  <2>. QED
    BY <1>5, <2>1, <2>2 DEF AllInPlace, InPlace
<1>7. AllSwapped'
  <2>1. \A h \in C!CalleeSaved : swap[h] \in Cells \ {r}
    BY <1>4, Apart, Places
  <2>. QED
    BY <1>5, <2>1 DEF AtSave, AllSwapped, Swapped
<1>8. \A q \in DOMAIN C!mapped : q = r \/ InFile(q) => InFile(q)'
  <2> SUFFICES ASSUME NEW q \in DOMAIN C!mapped, q = r \/ InFile(q)
               PROVE  InFile(q)'
    OBVIOUS
  <2>1. CASE q = r
    BY <1>5, <1>6, <2>1 DEF AllInPlace, InPlace, InFile
  <2>2. CASE q # r
    <3>1. q \in Cells \ {r}
      BY <2>2, Apart, Places
    <3>. QED
      BY <1>5, <2>2, <3>1 DEF InFile
  <2>. QED
    BY <2>1, <2>2
<1>9. \A k \in 1 .. NF : k < p + 1 => InFile(fp_order[k])'
  <2> SUFFICES ASSUME NEW k \in 1 .. NF, k < p + 1
               PROVE  InFile(fp_order[k])'
    OBVIOUS
  <2>1. fp_order[k] \in DOMAIN C!mapped
    BY Orders, Places
  <2>2. k = p \/ k < p
    BY <1>1
  <2>. QED
    BY <1>2, <1>8, <2>1, <2>2 DEF AtSave
<1>10. \A k \in 1 .. NG : NF + k < p + 1 => InFile(gp_order[k])'
  <2> SUFFICES ASSUME NEW k \in 1 .. NG, NF + k < p + 1
               PROVE  InFile(gp_order[k])'
    OBVIOUS
  <2>1. gp_order[k] \in DOMAIN C!mapped
    BY Orders, Places
  <2>2. NF + k = p \/ NF + k < p
    BY <1>1
  <2>. QED
    BY <1>2, <1>8, <2>1, <2>2 DEF AtSave
<1>11. \A k \in 1 .. NC : ~(NF + NG + k < p + 1)
  BY <1>1
<1>. QED
  BY <1>5, <1>6, <1>7, <1>9, <1>10, <1>11 DEF AtSave

\* The registers that are saved are all there are.
LEMMA Saved ==
    ASSUME C!ContextAssumption, Kept, NEW p \in NF + NG + 1 .. SaveEnd, AtSave(p)
    PROVE  AllInFile
<1>1. NC \in Nat /\ NG \in Nat /\ NF \in Nat
  BY Orders
<1>2. ASSUME NEW r \in DOMAIN gp_map
      PROVE  InFile(r)
  <2>1. PICK k \in 1 .. NG : gp_order[k] = r
    BY Orders
  <2>2. NF + k < p
    BY <1>1
  <2>. QED
    BY <2>1, <2>2 DEF AtSave
<1>3. ASSUME NEW r \in DOMAIN fp_map
      PROVE  InFile(r)
  <2>1. CASE floatBinary
    <3>1. PICK k \in 1 .. NF : fp_order[k] = r
      BY <2>1, Orders
    <3>2. k < p
      BY <1>1
    <3>. QED
      BY <3>1, <3>2 DEF AtSave
  <2>2. CASE ~floatBinary
    BY <2>2 DEF Kept, InFile, C!ContextAssumption
  <2>. QED
    BY <2>1, <2>2
<1>4. \A r \in Unmapped : InFile(r)
  BY DEF Kept, InFile
<1>. QED
  BY <1>2, <1>3, <1>4, Places, Apart DEF AllInFile

LEMMA RestoreStep ==
    ASSUME C!ContextAssumption, Kept, C!Transfer \/ C!JumpOrCall,
           NEW p \in NF + NG + 1 .. NF + NG + NC, AtSave(p)
    PROVE  Kept' /\ AtSave(p + 1)'
<1>1. /\ p \in Nat /\ p + 1 \in Nat /\ NC \in Nat /\ NG \in Nat /\ NF \in Nat
      /\ p \in NF + NG + 1 .. SaveEnd
  BY Orders DEF SaveEnd
<1> DEFINE j == p - (NF + NG)
<1>2. j \in 1 .. NC /\ NF + NG + j = p
  BY <1>1
<1>3. \A k \in 1 .. NC : NF + NG + k < p + 1 => k = j \/ NF + NG + k < p
  BY <1>1
<1> HIDE DEF j
<1> DEFINE h == callee_saved[j]
<1>4. h \in C!CalleeSaved
  BY <1>2, Orders
<1>5. C!Here = C!Mov(h, swap[h]) /\ at = At("save", p)
  <2>1. at = At("save", p)
    BY DEF AtSave
  <2>2. C!Here = C!save_context[p]
    BY <1>1, <2>1, Fetched
  <2>. QED
    BY <1>2, <2>1, <2>2, SaveCode
<1> HIDE DEF h
<1>6. h \in Cells \ Unmapped /\ h \notin C!Guests /\ h \notin C!Swaps
  BY <1>4, Apart, Places
<1>7. /\ at' = At("save", p + 1) /\ Kept'
      /\ val'[h] = val[swap[h]] /\ \A x \in Cells \ {h} : val'[x] = val[x]
      /\ UNCHANGED <<stack, guest, host, loc, zero>>
  BY <1>1, <1>5, <1>6, MoveStep
<1>8. AllInFile /\ AllInFile'
  <2>1. AllInFile
    BY <1>1, Saved
  <2>. QED
    BY <1>6, <1>7, <2>1, Apart DEF AllInFile, InFile
<1>9. AllSwapped /\ AllSwapped'
  <2>1. \A g \in C!CalleeSaved : swap[g] \in Cells \ {h}
    BY <1>6, Apart, Places
  <2>. QED
    BY <1>7, <2>1 DEF AtSave, AllSwapped, Swapped
<1>10. \A k \in 1 .. NC : NF + NG + k < p + 1 => Restored(callee_saved[k])'
  <2> SUFFICES ASSUME NEW k \in 1 .. NC, NF + NG + k < p + 1
               PROVE  Restored(callee_saved[k])'
    OBVIOUS
  <2>1. callee_saved[k] \in C!CalleeSaved
    BY Orders
  <2>2. CASE callee_saved[k] = h
    BY <1>4, <1>7, <1>9, <2>2 DEF AllSwapped, Swapped, Restored
  <2>3. CASE callee_saved[k] # h
    <3>1. NF + NG + k < p
      BY <1>3, <2>3 DEF h
    <3>2. callee_saved[k] \in Cells \ {h}
      BY <2>1, <2>3, Apart, Places
    <3>3. Restored(callee_saved[k])
      BY <3>1 DEF AtSave
    <3>. QED
      BY <1>7, <3>2, <3>3 DEF Restored
  <2>. QED
    BY <2>2, <2>3
<1>11. ~(p + 1 <= NF + NG)
  BY <1>1
<1>12. /\ \A k \in 1 .. NF : InFile(fp_order[k])'
       /\ \A k \in 1 .. NG : InFile(gp_order[k])'
  BY <1>8, Orders, Places DEF AllInFile
<1>. QED
  BY <1>7, <1>9, <1>10, <1>11, <1>12 DEF AtSave

LEMMA SaveStep ==
    ASSUME C!ContextAssumption, Inv, C!Transfer \/ C!JumpOrCall,
           NEW p \in 1 .. SaveEnd, AtSave(p)
    PROVE  Inv'
<1>1. /\ NC \in Nat /\ NG \in Nat /\ NF \in Nat /\ SaveEnd = NF + NG + NC + 1
      /\ p \in Nat /\ SaveEnd \in Nat
  BY Orders DEF SaveEnd
<1>2. Kept
  BY DEF Inv
<1>3. CASE p < SaveEnd
  <2>1. p \in 1 .. NF + NG \/ p \in NF + NG + 1 .. NF + NG + NC
    BY <1>1, <1>3
  <2>2. Kept' /\ AtSave(p + 1)'
    BY <1>2, <2>1, FileStep, RestoreStep
  <2>3. p + 1 \in 1 .. SaveEnd
    BY <1>1, <1>3
  <2>. QED
    BY <2>2, <2>3 DEF Inv
<1>4. CASE p = SaveEnd
  <2>1. p \in NF + NG + 1 .. SaveEnd
    BY <1>1, <1>4
  <2>2. AllInFile
    BY <1>2, <2>1, Saved
  <2>3. AllRestored
    <3> SUFFICES ASSUME NEW h \in C!CalleeSaved
                 PROVE  Restored(h)
      BY DEF AllRestored
    <3>1. PICK k \in 1 .. NC : callee_saved[k] = h
      BY Orders
    <3>2. NF + NG + k < p
      BY <1>1, <1>4
    <3>. QED
      BY <3>1, <3>2 DEF AtSave
  <2>4. C!Here = C!Op("ret")
    <3>1. at = At("save", p)
      BY DEF AtSave
    <3>2. C!Here = C!save_context[p]
      BY <1>1, <3>1, Fetched
    <3>. QED
      BY <1>4, <3>2, SaveCode
  <2>5. C!Here.op = "ret"
    BY <2>4 DEF C!Op
  <2>6. at' = stack[1] /\ stack' = Tail(stack) /\ UNCHANGED <<val, guest, host>>
    BY <2>5 DEF C!Transfer, C!JumpOrCall
  <2>7. Kept' /\ AllInFile' /\ AllRestored' /\ AllSwapped'
    BY <1>2, <2>2, <2>3, <2>6 DEF Kept, AllInFile, InFile, AllRestored, Restored, AtSave, AllSwapped, Swapped
  <2>8. CASE stack = <<Host>>
    <3>1. at' = Host /\ stack' = <<>>
      BY <2>6, <2>8
    <3>. QED
      BY <2>7, <3>1 DEF Inv, AtHost
  <2>9. CASE stack = <<At("ecall", 2), AfterCall, Host>>
    <3>1. at' = At("ecall", 2) /\ stack' = <<AfterCall, Host>>
      BY <2>6, <2>9
    <3>2. 2 \notin {1, 7} /\ 2 # 6 /\ 2 \in 1 .. 7
      OBVIOUS
    <3>3. AtEcall(2)'
      BY <2>7, <3>1, <3>2 DEF AtEcall, At
    <3>. QED
      BY <2>7, <3>2, <3>3 DEF Inv
  <2>. QED
    BY <2>8, <2>9 DEF AtSave
<1>. QED
  BY <1>1, <1>3, <1>4

-----------------------------------------------------------------------------
(* A translated ECALL. *)

LEMMA EcallStep ==
    ASSUME C!ContextAssumption, Inv, C!Transfer \/ C!JumpOrCall,
           NEW p \in 1 .. 6, AtEcall(p)
    PROVE  Inv'
<1>1. Kept /\ AllSwapped /\ at = At("ecall", p) /\ stack = <<AfterCall, Host>>
  BY DEF Inv, AtEcall
<1>2. C!Here = C!translate_ECALL[p]
  BY <1>1, Fetched
<1>3. C!NextIp = At("ecall", p + 1)
  BY <1>1 DEF C!NextIp, At
<1>4. CASE p = 1
  <2>1. C!Here.op = "call" /\ C!Here.s = "save"
    <3>1. C!Here = C!Call("save")
      BY <1>2, <1>4, EcallCode
    <3>. QED
      BY <3>1 DEF C!Call
  <2>2. /\ at' = At("save", 1) /\ stack' = <<C!NextIp>> \o stack
        /\ UNCHANGED <<val, guest, host>>
    BY <2>1 DEF C!Transfer, C!JumpOrCall, At
  <2>3. stack' = <<At("ecall", 2), AfterCall, Host>>
    <3>1. p + 1 = 2
      BY <1>4
    <3>2. C!NextIp = At("ecall", 2)
      BY <1>3, <3>1
    <3>. QED
      BY <1>1, <2>2, <3>2, Pushed
  <2>4. AllInPlace
    BY <1>4 DEF AtEcall
  <2>5. Kept' /\ AllInPlace' /\ AllSwapped'
    BY <1>1, <2>2, <2>4 DEF Kept, AllInPlace, InPlace, AllSwapped, Swapped
  <2>6. /\ NF \in Nat /\ NG \in Nat /\ NC \in Nat /\ 1 \in 1 .. SaveEnd
        /\ \A k \in 1 .. NF : ~(k < 1)
        /\ \A k \in 1 .. NG : ~(NF + k < 1)
        /\ \A k \in 1 .. NC : ~(NF + NG + k < 1)
    BY Orders DEF SaveEnd
  <2>7. AtSave(1)'
    BY <2>2, <2>3, <2>5, <2>6 DEF AtSave
  <2>. QED
    BY <2>5, <2>6, <2>7 DEF Inv
<1>5. CASE p \in {2, 3, 5}
  <2> DEFINE d == IF p = 2 THEN "DI" ELSE "SI"
  <2>1. C!Here = C!Const(d, 0)
    BY <1>2, <1>5, EcallCode
  <2>2. d \in Cells \ Unmapped /\ d \notin C!Guests /\ d \notin C!Swaps /\ d \notin C!CalleeSaved
    BY Apart, Places
  <2>3. p = 5 => d = "SI"
    OBVIOUS
  <2> HIDE DEF d
  <2>4. C!Here.op = "const" /\ C!Here.d = d /\ C!Here.i = 0
    BY <2>1 DEF C!Const
  <2>5. /\ at' = At("ecall", p + 1) /\ val' = [val EXCEPT ![d] = 0]
        /\ UNCHANGED <<stack, guest, host, loc, zero>>
    BY <1>3, <2>4 DEF C!Transfer, C!JumpOrCall
  <2>6. val'[d] = 0 /\ (\A x \in Cells \ {d} : val'[x] = val[x]) /\ DOMAIN val' = Cells
    BY <1>1, <2>2, <2>5 DEF Kept
  <2>7. AllInFile /\ AllRestored
    BY <1>5 DEF AtEcall
  <2>8. Kept'
    <3>1. \A r \in Unmapped : r \in Cells \ {d}
      BY <2>2, Places DEF Cells
    <3>. QED
      BY <1>1, <2>5, <2>6, <3>1 DEF Kept
  <2>9. AllInFile'
    <3>1. \A r \in C!Guests : r \in Cells \ {d}
      BY <2>2 DEF Cells
    <3>. QED
      BY <2>5, <2>6, <2>7, <3>1 DEF AllInFile, InFile
  <2>10. AllRestored'
    <3>1. \A h \in C!CalleeSaved : h \in Cells \ {d}
      BY <2>2, Places DEF Cells
    <3>. QED
      BY <2>5, <2>6, <2>7, <3>1 DEF AllRestored, Restored
  <2>11. AllSwapped'
    <3>1. \A h \in C!CalleeSaved : swap[h] \in Cells \ {d}
      BY <2>2, Places DEF Cells
    <3>. QED
      BY <1>1, <2>5, <2>6, <3>1 DEF AllSwapped, Swapped
  <2>12. /\ p + 1 \notin {1, 7} /\ p + 1 \in 1 .. 7
         /\ p + 1 = 6 => p = 5
    BY <1>5
  <2>13. p + 1 = 6 => val'["SI"] = 0
    BY <2>3, <2>6, <2>12
  <2>14. AtEcall(p + 1)'
    BY <1>1, <2>5, <2>9, <2>10, <2>11, <2>12, <2>13 DEF AtEcall
  <2>. QED
    BY <2>8, <2>12, <2>14 DEF Inv
<1>6. CASE p = 4
  <2>1. C!Here.op = "call" /\ C!Here.s = "emulate"
    <3>1. C!Here = C!Call("emulate")
      BY <1>2, <1>6, EcallCode
    <3>. QED
      BY <3>1 DEF C!Call
  <2>2. /\ at' = At("emulate", 1) /\ stack' = <<C!NextIp>> \o stack
        /\ UNCHANGED <<val, guest, host>>
    BY <2>1 DEF C!Transfer, C!JumpOrCall, At
  <2>3. stack' = <<At("ecall", 5), AfterCall, Host>>
    <3>1. p + 1 = 5
      BY <1>6
    <3>2. C!NextIp = At("ecall", 5)
      BY <1>3, <3>1
    <3>. QED
      BY <1>1, <2>2, <3>2, Pushed
  <2>4. AllInFile /\ AllRestored
    BY <1>6 DEF AtEcall
  <2>5. Kept' /\ AllInFile' /\ AllRestored' /\ AllSwapped'
    BY <1>1, <2>2, <2>4 DEF Kept, AllInFile, InFile, AllRestored, Restored, AllSwapped, Swapped
  <2>. QED
    BY <2>2, <2>3, <2>5 DEF Inv, AtEmulate
<1>7. CASE p = 6
  <2>1. C!Here.op = "call" /\ C!Here.s = "load"
    <3>1. C!Here = C!Call("load")
      BY <1>2, <1>7, EcallCode
    <3>. QED
      BY <3>1 DEF C!Call
  <2>2. /\ at' = At("load", 1) /\ stack' = <<C!NextIp>> \o stack
        /\ UNCHANGED <<val, guest, host>>
    BY <2>1 DEF C!Transfer, C!JumpOrCall, At
  <2>3. stack' = <<At("ecall", 7), AfterCall, Host>>
    <3>1. p + 1 = 7
      BY <1>7
    <3>2. C!NextIp = At("ecall", 7)
      BY <1>3, <3>1
    <3>. QED
      BY <1>1, <2>2, <3>2, Pushed
  <2>4. AllInFile /\ AllRestored /\ val["SI"] = 0
    BY <1>7 DEF AtEcall
  <2>5. Kept' /\ AllInFile' /\ AllRestored' /\ val'["SI"] = 0
    BY <1>1, <2>2, <2>4 DEF Kept, AllInFile, InFile, AllRestored, Restored
  <2>6. /\ NC \in Nat /\ NG \in Nat /\ NF \in Nat /\ LoadEnd \in Nat /\ 1 \in 1 .. LoadEnd + 5
        /\ 1 \notin {LoadEnd + 3, LoadEnd + 4} /\ 1 <= NC + 2 /\ 1 \notin NC + 3 .. LoadEnd + 1
        /\ 1 # LoadEnd + 2
    BY Orders DEF LoadEnd
  <2>7. LoadAgain(1)'
    BY <2>3, <2>5, <2>6 DEF LoadAgain
  <2>8. /\ \A k \in 1 .. NC : ~(k < 1)
        /\ \A k \in 1 .. NG : ~(NC + 2 + k < 1)
        /\ \A k \in 1 .. NF : ~(NC + 2 + NG + k < 1)
    BY <2>6
  <2>9. AtLoad(1)'
    BY <2>2, <2>5, <2>7, <2>8 DEF AtLoad
  <2>. QED
    BY <2>5, <2>6, <2>9 DEF Inv
<1>. QED
  BY <1>4, <1>5, <1>6, <1>7

-----------------------------------------------------------------------------
(* The steps of C code and of guest code. *)

LEMMA CallStep ==
    ASSUME C!ContextAssumption, Inv, C!execute_in_guest_context
    PROVE  Inv'
<1>1. at.f = "host" /\ Kept
  BY DEF C!execute_in_guest_context, Inv
<1>2. AllInFile
  BY <1>1 DEF Inv, AtHost, AtEmulate, AtBlock, AtLoad, AtSave, AtEcall, At
<1>3. PICK h \in [C!CalleeSaved -> Values], l \in Locs, junk \in Values :
        /\ host' = h
        /\ val' = [x \in DOMAIN val |-> CASE x \in C!CalleeSaved -> h[x]
                                          [] x = "DI" -> l
                                          [] x = "SI" -> 1
                                          [] x \in CallerSaved \ {"DI", "SI"} -> junk
                                          [] OTHER -> val[x]]
  BY DEF C!execute_in_guest_context
<1>4. at' = At("load", 1) /\ stack' = <<Host>> /\ guest' = guest
  BY DEF C!execute_in_guest_context, At, Host
<1>5. DOMAIN val' = Cells
  BY <1>1, <1>3 DEF Kept
<1>6. \A g \in C!CalleeSaved : val'[g] = host'[g]
  <2> SUFFICES ASSUME NEW g \in C!CalleeSaved
               PROVE  val'[g] = host'[g]
    OBVIOUS
  <2>1. g \in DOMAIN val /\ g \notin CallerSaved /\ g # "DI" /\ g # "SI"
    BY <1>1, Places DEF Kept, Cells, C!ContextAssumption
  <2>2. val'[g] = h[g]
    BY <1>3, <2>1
  <2>. QED
    BY <1>3, <2>2
<1>7. val'["SI"] = 1
  BY <1>1, <1>3, Apart DEF Kept
<1>8. \A r \in C!Guests : val'[r] = val[r]
  <2> SUFFICES ASSUME NEW r \in C!Guests
               PROVE  val'[r] = val[r]
    OBVIOUS
  <2>1. r \notin C!Hosts /\ r \in Cells
    BY Apart
  <2>2. r \notin C!CalleeSaved /\ r # "DI" /\ r # "SI" /\ r \notin CallerSaved
    BY <2>1, Places DEF C!Hosts
  <2>. QED
    BY <1>1, <1>3, <2>1, <2>2 DEF Kept
<1>9. Kept' /\ AllInFile' /\ AllRestored'
  BY <1>1, <1>2, <1>4, <1>5, <1>6, <1>8, Places DEF Kept, AllInFile, InFile, AllRestored, Restored
<1>10. /\ NC \in Nat /\ NG \in Nat /\ NF \in Nat /\ LoadEnd \in Nat /\ 1 \in 1 .. LoadEnd + 5
       /\ 1 <= LoadEnd + 4 /\ 1 <= NC + 2 /\ 1 \notin NC + 3 .. LoadEnd + 1
       /\ 1 # LoadEnd + 2
  BY Orders DEF LoadEnd
<1>11. FirstLoad(1)'
  BY <1>4, <1>7, <1>10 DEF FirstLoad
<1>12. /\ \A k \in 1 .. NC : ~(k < 1)
       /\ \A k \in 1 .. NG : ~(NC + 2 + k < 1)
       /\ \A k \in 1 .. NF : ~(NC + 2 + NG + k < 1)
  BY <1>10
<1>13. AtLoad(1)'
  BY <1>4, <1>9, <1>11, <1>12 DEF AtLoad
<1>. QED
  BY <1>9, <1>10, <1>13 DEF Inv

LEMMA InBlock ==
    ASSUME Inv, at.f = "block"
    PROVE  Kept /\ AtBlock
BY DEF Inv, AtHost, AtEmulate, AtLoad, AtSave, AtEcall, At, Host

LEMMA GuestStepKeeps ==
    ASSUME C!ContextAssumption, Inv, C!GuestStep
    PROVE  Inv'
<1>1. Kept /\ AtBlock
  BY InBlock DEF C!GuestStep
<1>2. PICK r \in C!Guests \ (IF UsesFloat THEN {} ELSE DOMAIN fp_map), v \in Values :
        LET place == IF r \in DOMAIN C!mapped THEN C!mapped[r] ELSE r
        IN  /\ guest' = [guest EXCEPT ![r] = v]
            /\ val' = [val EXCEPT ![place] = v, !["AX"] = v, !["DX"] = v]
  BY DEF C!GuestStep
<1> DEFINE place == IF r \in DOMAIN C!mapped THEN C!mapped[r] ELSE r
<1>3. UNCHANGED <<at, stack, host, loc, zero>>
  BY DEF C!GuestStep
<1>4. place \in Cells /\ place # "AX" /\ place # "DX" /\ place \notin C!Swaps
  BY <1>2, Apart
<1>5. \A q \in DOMAIN C!mapped : q # r => C!mapped[q] # place
  BY <1>2, Apart, Places
<1>6. \A q \in Unmapped : q # r => q # place
  BY <1>2, Apart, Places
<1>7. r \in DOMAIN C!mapped => place = C!mapped[r]
  OBVIOUS
<1>8. r \in Unmapped => place = r
  BY Apart
<1>9. val' = [val EXCEPT ![place] = v, !["AX"] = v, !["DX"] = v] /\ guest' = [guest EXCEPT ![r] = v]
  BY <1>2
<1> HIDE DEF place
<1>10. /\ DOMAIN val' = Cells /\ val'[place] = v
       /\ \A x \in Cells \ {place, "AX", "DX"} : val'[x] = val[x]
  BY <1>1, <1>4, <1>9 DEF Kept
<1>11. /\ DOMAIN guest' = C!Guests /\ guest'[r] = v
       /\ \A q \in C!Guests \ {r} : guest'[q] = guest[q]
  BY <1>1, <1>2, <1>9 DEF Kept
<1>12. Kept'
  <2>1. \A q \in Unmapped : val'[q] = guest'[q]
    <3> SUFFICES ASSUME NEW q \in Unmapped
                 PROVE  val'[q] = guest'[q]
      OBVIOUS
    <3>1. q \in C!Guests /\ q \in Cells /\ q # "AX" /\ q # "DX"
      BY Places, Apart
    <3>. QED
      BY <1>1, <1>6, <1>8, <1>10, <1>11, <3>1 DEF Kept
  <2>2. UsesFloat \/ \A q \in DOMAIN fp_map : guest'[q] = C!Unset
    BY <1>1, <1>2, <1>11, Places DEF Kept
  <2>. QED
    BY <1>10, <1>11, <2>1, <2>2 DEF Kept
<1>13. AllInPlace'
  <2> SUFFICES ASSUME NEW q \in DOMAIN C!mapped
               PROVE  InPlace(q)'
    BY DEF AllInPlace
  <2>1. CASE q = r
    BY <1>7, <1>10, <1>11, <2>1 DEF InPlace
  <2>2. CASE q # r
    <3>1. C!mapped[q] \in Cells \ {place, "AX", "DX"} /\ q \in C!Guests \ {r}
      BY <1>5, <2>2, Apart, Places
    <3>. QED
      BY <1>1, <1>10, <1>11, <3>1 DEF AtBlock, AllInPlace, InPlace
  <2>. QED
    BY <2>1, <2>2
<1>14. AllSwapped'
  <2>1. \A h \in C!CalleeSaved : swap[h] \in Cells \ {place, "AX", "DX"}
    BY <1>4, Apart, Places
  <2>. QED
    BY <1>1, <1>3, <1>10, <2>1 DEF AtBlock, AllSwapped, Swapped
<1>. QED
  BY <1>1, <1>3, <1>12, <1>13, <1>14 DEF Inv, AtBlock

LEMMA BlockSteps ==
    ASSUME C!ContextAssumption, Inv, C!Ecall \/ C!BlockReturns \/ C!EndEcall
    PROVE  Inv'
<1>1. CASE C!Ecall
  <2>1. Kept /\ AtBlock
    BY <1>1, InBlock DEF C!Ecall
  <2>2. at' = At("ecall", 1) /\ UNCHANGED <<val, stack, guest, host, loc, zero>>
    BY <1>1 DEF C!Ecall, At
  <2>3. 1 \notin 2 .. 6 /\ 1 # 6 /\ 1 \in 1 .. 7
    OBVIOUS
  <2>4. Kept' /\ AtEcall(1)'
    BY <2>1, <2>2, <2>3 DEF Kept, AtBlock, AtEcall, AllSwapped, Swapped, AllInPlace, InPlace
  <2>. QED
    BY <2>3, <2>4 DEF Inv
<1>2. CASE C!BlockReturns
  <2>1. Kept /\ AtBlock
    BY <1>2, InBlock DEF C!BlockReturns
  <2>2. at' = stack[1] /\ stack' = Tail(stack) /\ UNCHANGED <<val, guest, host, loc, zero>>
    BY <1>2 DEF C!BlockReturns
  <2>3. at' = AfterCall /\ stack' = <<Host>>
    BY <2>1, <2>2 DEF AtBlock
  <2>4. Kept' /\ AllSwapped' /\ AllInPlace'
    BY <2>1, <2>2 DEF Kept, AtBlock, AllSwapped, Swapped, AllInPlace, InPlace
  <2> DEFINE p == LoadEnd + 4
  <2>5. /\ NC \in Nat /\ NG \in Nat /\ NF \in Nat /\ p \in 1 .. LoadEnd + 5 /\ p <= LoadEnd + 4
        /\ ~(p <= NC + 2) /\ ~(p <= NC) /\ p \notin NC + 3 .. LoadEnd + 1 /\ p # LoadEnd + 2
    BY Orders DEF LoadEnd
  <2>6. at' = At("load", p) /\ p = LoadEnd + 4
    BY <2>3 DEF AfterCall
  <2> HIDE DEF p
  <2>7. FirstLoad(p)'
    BY <2>3, <2>5 DEF FirstLoad
  <2>8. /\ \A k \in 1 .. NC : Swapped(callee_saved[k])'
        /\ \A k \in 1 .. NG : InPlace(gp_order[k])'
        /\ \A k \in 1 .. NF : InPlace(fp_order[k])'
    BY <2>4, Orders, Places DEF AllSwapped, AllInPlace
  <2>9. AtLoad(p)'
    BY <2>5, <2>6, <2>7, <2>8 DEF AtLoad
  <2>. QED
    BY <2>4, <2>5, <2>9 DEF Inv
<1>3. CASE C!EndEcall
  <2>1. at.f = "ecall" /\ at.ip > 6 /\ at'.f = "block" /\ UNCHANGED <<val, stack, guest, host, loc, zero>>
    BY <1>3, EcallCode DEF C!EndEcall
  <2>2. PICK p \in 1 .. 7 : AtEcall(p)
    BY <2>1 DEF Inv, AtHost, AtEmulate, AtBlock, AtLoad, AtSave, At, Host
  <2>3. p = 7
    BY <2>1, <2>2 DEF AtEcall, At
  <2>4. Kept /\ AllInPlace /\ AllSwapped /\ stack = <<AfterCall, Host>>
    BY <2>2, <2>3 DEF Inv, AtEcall
  <2>5. Kept' /\ AllSwapped' /\ AllInPlace'
    BY <2>1, <2>4 DEF Kept, AllSwapped, Swapped, AllInPlace, InPlace
  <2>. QED
    BY <2>1, <2>4, <2>5 DEF Inv, AtBlock
<1>. QED
  BY <1>1, <1>2, <1>3

LEMMA EmulateStep ==
    ASSUME C!ContextAssumption, Inv, C!emulate_ecall
    PROVE  Inv'
<1>1. Kept /\ AtEmulate
  BY DEF C!emulate_ecall, Inv, AtHost, AtBlock, AtLoad, AtSave, AtEcall, At, Host
<1>2. PICK r \in C!Guests \ DOMAIN fp_map, v \in Values, junk \in Values :
        /\ val' = [x \in DOMAIN val |-> CASE x = r -> v
                                          [] x \in CallerSaved -> junk
                                          [] OTHER -> val[x]]
        /\ guest' = [guest EXCEPT ![r] = v]
  BY DEF C!emulate_ecall
<1>3. at' = stack[1] /\ stack' = Tail(stack) /\ host' = host
  BY DEF C!emulate_ecall
<1>4. at' = At("ecall", 5) /\ stack' = <<AfterCall, Host>>
  BY <1>1, <1>3 DEF AtEmulate
<1>5. r \in Cells /\ r \notin CallerSaved /\ r \notin C!Hosts /\ r \notin C!Swaps
  BY <1>2, Apart DEF C!Hosts
<1>6. /\ DOMAIN val' = Cells /\ val'[r] = v
      /\ \A x \in Cells \ (CallerSaved \cup {r}) : val'[x] = val[x]
  <2>1. DOMAIN val = Cells
    BY <1>1 DEF Kept
  <2>2. DOMAIN val' = Cells
    BY <1>2, <2>1
  <2>3. val'[r] = v
    BY <1>2, <1>5, <2>1
  <2>4. \A x \in Cells \ (CallerSaved \cup {r}) : val'[x] = val[x]
    BY <1>2, <2>1
  <2>. QED
    BY <2>2, <2>3, <2>4
<1>7. /\ DOMAIN guest' = C!Guests /\ guest'[r] = v
      /\ \A q \in C!Guests \ {r} : guest'[q] = guest[q]
  BY <1>1, <1>2 DEF Kept
<1>8. \A q \in C!Guests : q \in Cells \ (CallerSaved \cup {r}) \/ q = r
  BY Apart DEF C!Hosts
<1>9. AllInFile'
  BY <1>1, <1>6, <1>7, <1>8 DEF AtEmulate, AllInFile, InFile
<1>10. Kept'
  <2>1. \A q \in Unmapped : val'[q] = guest'[q]
    BY <1>1, <1>6, <1>7, <1>8, Places DEF Kept
  <2>2. UsesFloat \/ \A q \in DOMAIN fp_map : guest'[q] = C!Unset
    BY <1>1, <1>2, <1>7, Places DEF Kept
  <2>. QED
    BY <1>6, <1>7, <2>1, <2>2 DEF Kept
<1>11. AllRestored'
  <2>1. \A h \in C!CalleeSaved : h \in Cells \ (CallerSaved \cup {r})
    BY <1>5, Places DEF Cells, C!ContextAssumption
  <2>. QED
    BY <1>1, <1>3, <1>6, <2>1 DEF AtEmulate, AllRestored, Restored
<1>12. AllSwapped'
  <2>1. \A h \in C!CalleeSaved : swap[h] \in Cells \ (CallerSaved \cup {r})
    BY <1>5, Apart, Places DEF C!Hosts
  <2>. QED
    BY <1>1, <1>3, <1>6, <2>1 DEF AtEmulate, AllSwapped, Swapped
<1>13. 5 \notin {1, 7} /\ 5 # 6 /\ 5 \in 1 .. 7
  OBVIOUS
<1>14. AtEcall(5)'
  BY <1>4, <1>9, <1>11, <1>12, <1>13 DEF AtEcall
<1>. QED
  BY <1>10, <1>13, <1>14 DEF Inv

LEMMA EmittedStep ==
    ASSUME C!ContextAssumption, Inv, C!Transfer \/ C!JumpOrCall
    PROVE  Inv'
<1>1. C!Emitted
  BY DEF C!Transfer, C!JumpOrCall
<1>2. CASE \E p \in 1 .. LoadEnd + 5 : AtLoad(p)
  BY <1>2, LoadStep
<1>3. CASE \E p \in 1 .. SaveEnd : AtSave(p)
  BY <1>3, SaveStep
<1>4. CASE \E p \in 1 .. 7 : AtEcall(p)
  <2>1. PICK p \in 1 .. 7 : AtEcall(p)
    BY <1>4
  <2>2. at = At("ecall", p)
    BY <2>1 DEF AtEcall
  <2>3. p <= 6
    BY <1>1, <2>2, Fetched
  <2>. QED
    BY <2>1, <2>3, EcallStep
<1>5. CASE AtHost \/ AtEmulate \/ AtBlock
  BY <1>1, <1>5 DEF C!Emitted, AtHost, AtEmulate, AtBlock, At, Host
<1>. QED
  BY <1>2, <1>3, <1>4, <1>5 DEF Inv

-----------------------------------------------------------------------------
(* The results. *)

LEMMA Initially ==
    ASSUME C!ContextAssumption, C!Init
    PROVE  Inv
<1>1. DOMAIN val = Cells /\ DOMAIN guest = C!Guests
  BY DEF C!Init, Cells
<1>2. \A x \in Cells : val[x] = C!Junk
  BY DEF C!Init, Cells
<1>3. \A r \in C!Guests : guest[r] = IF r \in DOMAIN fp_map THEN C!Unset ELSE C!Junk
  BY DEF C!Init
<1>4. \A r \in Unmapped : r \in C!Guests /\ r \in Cells /\ r \notin DOMAIN fp_map
  BY Apart, Places
<1>5. Kept
  BY <1>1, <1>2, <1>3, <1>4, Places DEF Kept
<1>6. AllInFile
  BY <1>2, <1>3, Apart DEF AllInFile, InFile
<1>7. AllRestored
  <2>1. \A h \in C!CalleeSaved : val[h] = C!Junk /\ host[h] = C!Junk
    BY <1>2, Places DEF C!Init, Cells
  <2>. QED
    BY <2>1 DEF AllRestored, Restored
<1>8. at = Host /\ stack = <<>>
  BY DEF C!Init, Host, At
<1>. QED
  BY <1>5, <1>6, <1>7, <1>8 DEF Inv, AtHost

LEMMA Inductive ==
    ASSUME C!ContextAssumption, Inv, [C!Next]_C!vars
    PROVE  Inv'
<1>1. CASE C!execute_in_guest_context
  BY <1>1, CallStep
<1>2. CASE C!Transfer \/ C!JumpOrCall
  BY <1>2, EmittedStep
<1>3. CASE C!Ecall \/ C!BlockReturns \/ C!EndEcall
  BY <1>3, BlockSteps
<1>4. CASE C!GuestStep
  BY <1>4, GuestStepKeeps
<1>5. CASE C!emulate_ecall
  BY <1>5, EmulateStep
<1>6. CASE UNCHANGED C!vars
  BY <1>6 DEF C!vars, Inv, Kept, AtHost, AtEmulate, AtBlock, AtLoad, AtSave, AtEcall, FirstLoad, LoadAgain,
              AllInFile, AllInPlace, AllSwapped, AllRestored, InFile, InPlace, Swapped, Restored
<1>. QED
  BY <1>1, <1>2, <1>3, <1>4, <1>5, <1>6 DEF C!Next

LEMMA Found ==
    ASSUME C!ContextAssumption, Inv
    PROVE  C!TypeOK /\ C!GuestFound /\ C!HostFound
<1>1. Kept
  BY DEF Inv
<1>2. DOMAIN val = C!Guests \cup C!Hosts \cup C!Swaps
  BY <1>1 DEF Kept, Cells
<1>3. /\ at.f \in {"host", "load", "save", "ecall", "emulate", "block"}
      /\ stack \in {<<>>, <<Host>>, <<AfterCall, Host>>} \/ \E x : stack = <<x, AfterCall, Host>>
  BY DEF Inv, AtHost, AtEmulate, AtBlock, AtLoad, AtSave, AtEcall, FirstLoad, LoadAgain, At, Host
<1>4. Len(stack) <= 3
  <2>1. CASE stack \in {<<>>, <<Host>>, <<AfterCall, Host>>}
    <3>1. CASE stack = <<>>
      BY <3>1
    <3>2. CASE stack = <<Host>>
      BY <3>2
    <3>3. CASE stack = <<AfterCall, Host>>
      BY <3>3
    <3>. QED
      BY <2>1, <3>1, <3>2, <3>3
  <2>2. CASE \E x : stack = <<x, AfterCall, Host>>
    <3>1. PICK x : stack = <<x, AfterCall, Host>>
      BY <2>2
    <3>. QED
      BY <3>1
  <2>. QED
    BY <1>3, <2>1, <2>2
<1>5. at.f \in {"host", "emulate"} => AtHost \/ AtEmulate
  BY DEF Inv, AtBlock, AtLoad, AtSave, AtEcall, At
<1>6. at.f = "host" => AtHost
  BY DEF Inv, AtEmulate, AtBlock, AtLoad, AtSave, AtEcall, At
<1>7. at.f = "block" => AtBlock
  BY InBlock
<1>8. C!GuestFound
  BY <1>1, <1>5, <1>7 DEF C!GuestFound, Kept, AtHost, AtEmulate, AtBlock, AllInFile, InFile, AllInPlace, InPlace
<1>9. C!HostFound
  BY <1>6 DEF C!HostFound, AtHost, AllRestored, Restored
<1>. QED
  BY <1>2, <1>3, <1>4, <1>8, <1>9 DEF C!TypeOK

\* Whatever blocks, ECALLs and calls from C code follow each other, the state of
\* the switches is the one their place in the emitted code says (context.c).
THEOREM SwitchesInvariant == C!ContextAssumption => (C!Spec => []Inv)
<1>1. C!ContextAssumption /\ C!Init => Inv
  BY Initially
<1>2. C!ContextAssumption /\ Inv /\ [C!Next]_C!vars => Inv'
  BY Inductive
<1>3. ASSUME C!ContextAssumption
      PROVE  C!Spec => []Inv
  <2> DEFINE P == C!ContextAssumption /\ Inv
  <2>1. C!Init => P
    BY <1>1, <1>3
  <2>2. P /\ [C!Next]_C!vars => P'
    BY <1>2, <1>3
  <2>3. P => Inv
    OBVIOUS
  <2> HIDE DEF P
  <2>. QED
    BY <2>1, <2>2, <2>3, PTL DEF C!Spec
<1>. QED
  BY <1>3

\* C code finds the guest's registers in the register file, and guest code where
\* they are mapped, for every mapping of registers (load_execute_save_context,
\* save_context, translate_ECALL).
THEOREM GuestFoundHolds == C!ContextAssumption => (C!Spec => []C!GuestFound)
<1>1. ASSUME C!ContextAssumption
      PROVE  C!Spec => []C!GuestFound
  <2>1. C!Spec => []Inv
    BY <1>1, SwitchesInvariant
  <2>2. Inv => C!GuestFound
    BY <1>1, Found
  <2>. QED
    BY <2>1, <2>2, PTL
<1>. QED
  BY <1>1

\* The C code that called gets its callee-saved registers back, and the host
\* stack is as it was (the swap file of main/context.c).
THEOREM HostFoundHolds == C!ContextAssumption => (C!Spec => []C!HostFound)
<1>1. ASSUME C!ContextAssumption
      PROVE  C!Spec => []C!HostFound
  <2>1. C!Spec => []Inv
    BY <1>1, SwitchesInvariant
  <2>2. Inv => C!HostFound
    BY <1>1, Found
  <2>. QED
    BY <2>1, <2>2, PTL
<1>. QED
  BY <1>1

-----------------------------------------------------------------------------
(* The command line. *)

CONSTANTS CommandArguments, MaxArgs
VARIABLES argv, optind, letter, flags, file_path, status

O == INSTANCE Options WITH Arguments <- CommandArguments

\* What the usage text promises once the options in G are given.
PromisedFor(G) == {f \in O!Flags : (f \in O!Optimizations) = (G \cap O!OptionsFor(f) = {})}

\* The flags that options turn on, and those they turn off.
TurnedOn(A) == {f \in O!Flags \ O!Optimizations : A \cap O!OptionsFor(f) # {}}
TurnedOff(A) == {f \in O!Optimizations : A \cap O!OptionsFor(f) # {}}

LEMMA PromisesGrow ==
    ASSUME NEW G, NEW A
    PROVE  PromisedFor(G \cup A) = (PromisedFor(G) \ TurnedOff(A)) \cup TurnedOn(A)
<1>1. O!Optimizations \subseteq O!Flags
  BY DEF O!Flags
<1>2. \A f : (G \cup A) \cap O!OptionsFor(f) = {} <=> G \cap O!OptionsFor(f) = {} /\ A \cap O!OptionsFor(f) = {}
  OBVIOUS
<1>. QED
  BY <1>1, <1>2 DEF PromisedFor, TurnedOn, TurnedOff

\* Which flags an option is named for.
NamedFor(n, c) ==
    CASE n = "optimize" ->
           (CASE c = "none" -> O!Optimizations
              [] c = "no-ras" -> {"ras"}     [] c = "no-chain" -> {"chain"}
              [] c = "no-jump" -> {"jump"}   [] c = "no-fusion" -> {"fusion"}
              [] c = "singlestep" -> {"single_step"} [] OTHER -> {})
      [] n = "log" ->
           (CASE c = "general" -> {"general"}  [] c = "strace" -> {"syscall"}
              [] c = "asm-in" -> {"asm_in"}    [] c = "asm-out" -> {"asm_out", "verbose"}
              [] c = "verbose-dis" -> {"verbose"}
              [] c = "reg" -> {"reg_dump"}     [] c = "cache" -> {"cache"}
              [] c = "cache-contents" -> {"cache", "cache_contents"}
              [] c = "context" -> {"context"}  [] OTHER -> {})
      [] n = "analyze-all" -> IF c = "" THEN O!Analyses ELSE {}
      [] n = "analyze-mnem" -> IF c = "" THEN {"mnem"} ELSE {}
      [] n = "analyze-reg" -> IF c = "" THEN {"reg"} ELSE {}
      [] n = "analyze-pattern" -> IF c = "" THEN {"pattern"} ELSE {}
      [] n = "fail-silently" -> IF c = "" THEN {"silently"} ELSE {}
      [] n \in {"benchmark", "profile", "perf"} -> IF c = "" THEN {n} ELSE {}
      [] OTHER -> {}

LEMMA NamedForFlag ==
    ASSUME NEW f \in O!Flags, NEW n, NEW c
    PROVE  O!Atom(n, c) \in O!OptionsFor(f) <=> f \in NamedFor(n, c)
<1> USE DEF O!Atom, O!LogAtoms, O!OptionsFor, NamedFor, O!Optimizations, O!Analyses
<1>1. CASE f \in O!Optimizations
  BY <1>1
<1>2. CASE f \in O!Analyses
  BY <1>2
<1>3. CASE f \in {"silently", "single_step", "benchmark", "profile", "perf"}
  BY <1>3
<1>4. CASE f \in {"general", "syscall", "asm_in", "asm_out"}
  BY <1>4
<1>5. CASE f \in {"verbose", "reg_dump", "cache", "cache_contents", "context"}
  BY <1>5
<1>. QED
  BY <1>1, <1>2, <1>3, <1>4, <1>5 DEF O!Flags, O!Logs

LEMMA TurnedByOne ==
    ASSUME NEW n, NEW c
    PROVE  /\ TurnedOn({O!Atom(n, c)}) = NamedFor(n, c) \ O!Optimizations
           /\ TurnedOff({O!Atom(n, c)}) = NamedFor(n, c) \cap O!Optimizations
<1>1. \A f : {O!Atom(n, c)} \cap O!OptionsFor(f) # {} <=> O!Atom(n, c) \in O!OptionsFor(f)
  OBVIOUS
<1>2. NamedFor(n, c) \subseteq O!Flags
  BY DEF NamedFor, O!Flags, O!Optimizations, O!Analyses, O!Logs
<1>3. O!Optimizations \subseteq O!Flags
  BY DEF O!Flags
<1>. QED
  BY <1>1, <1>2, <1>3, NamedForFlag DEF TurnedOn, TurnedOff

\* Categories and long options do what they are documented to do.
LEMMA CategoryRight ==
    ASSUME NEW old, NEW list \in {"log", "optimize"}, NEW c \in O!Known(list)
    PROVE  O!Category(old, list, c) = (old \ TurnedOff({O!Atom(list, c)})) \cup TurnedOn({O!Atom(list, c)})
<1>1. CASE list = "log"
  <2>1. O!Log(old, c) = old \cup NamedFor("log", c)
    BY <1>1 DEF O!Known, O!LogCategories, O!Log, O!On, NamedFor
  <2>2. NamedFor("log", c) \cap O!Optimizations = {}
    BY <1>1 DEF NamedFor, O!Optimizations
  <2>. QED
    BY <1>1, <2>1, <2>2, TurnedByOne DEF O!Category
<1>2. CASE list = "optimize"
  <2>1. CASE c = "singlestep"
    BY <1>2, <2>1, TurnedByOne DEF O!Category, O!Optimize, O!On, NamedFor, O!Optimizations
  <2>2. CASE c # "singlestep"
    <3>1. O!Optimize(old, c) = old \ NamedFor("optimize", c)
      BY <1>2, <2>2 DEF O!Known, O!OptimizeCategories, O!Optimize, O!Off, O!NoOptimizations, NamedFor
    <3>2. NamedFor("optimize", c) \subseteq O!Optimizations
      BY <2>2 DEF NamedFor, O!Optimizations
    <3>. QED
      BY <1>2, <3>1, <3>2, TurnedByOne DEF O!Category
  <2>. QED
    BY <2>1, <2>2
<1>. QED
  BY <1>1, <1>2

LEMMA LongRight ==
    ASSUME NEW old, NEW n
    PROVE  O!On(old, O!LongFlags(n)) = (old \ TurnedOff({O!Atom(n, "")})) \cup TurnedOn({O!Atom(n, "")})
<1>1. NamedFor(n, "") = O!LongFlags(n)
  BY DEF NamedFor, O!LongFlags
<1>2. O!LongFlags(n) \cap O!Optimizations = {}
  BY DEF O!LongFlags, O!Optimizations, O!Analyses
<1>. QED
  BY <1>1, <1>2, TurnedByOne DEF O!On

LEMMA TurnedByTwo ==
    ASSUME NEW a, NEW b
    PROVE  /\ TurnedOn({a, b}) = TurnedOn({a}) \cup TurnedOn({b})
           /\ TurnedOff({a, b}) = TurnedOff({a}) \cup TurnedOff({b})
<1>1. \A S : {a, b} \cap S # {} <=> {a} \cap S # {} \/ {b} \cap S # {}
  OBVIOUS
<1>. QED
  BY <1>1 DEF TurnedOn, TurnedOff

\* A letter does what the long options do that it stands for.
LEMMA ShortRight ==
    ASSUME NEW old, NEW c \in O!ShortLetters
    PROVE  O!Short(old, c) = (old \ TurnedOff(O!Meaning(c))) \cup TurnedOn(O!Meaning(c))
<1>1. ASSUME NEW n, NEW w, NEW v, O!Meaning(c) = {O!Atom(n, w), O!Atom(n, v)},
             O!Short(old, c) = old \cup NamedFor(n, w) \cup NamedFor(n, v),
             (NamedFor(n, w) \cup NamedFor(n, v)) \cap O!Optimizations = {}
      PROVE  O!Short(old, c) = (old \ TurnedOff(O!Meaning(c))) \cup TurnedOn(O!Meaning(c))
  <2>1. /\ TurnedOn(O!Meaning(c)) = NamedFor(n, w) \cup NamedFor(n, v)
        /\ TurnedOff(O!Meaning(c)) = {}
    <3> DEFINE a == O!Atom(n, w)
               b == O!Atom(n, v)
    <3>1. /\ TurnedOn({a}) = NamedFor(n, w) \ O!Optimizations
          /\ TurnedOff({a}) = NamedFor(n, w) \cap O!Optimizations
      BY TurnedByOne
    <3>2. /\ TurnedOn({b}) = NamedFor(n, v) \ O!Optimizations
          /\ TurnedOff({b}) = NamedFor(n, v) \cap O!Optimizations
      BY TurnedByOne
    <3> HIDE DEF a, b
    <3>3. /\ TurnedOn({a, b}) = TurnedOn({a}) \cup TurnedOn({b})
          /\ TurnedOff({a, b}) = TurnedOff({a}) \cup TurnedOff({b})
      BY TurnedByTwo
    <3>4. O!Meaning(c) = {a, b}
      BY <1>1 DEF a, b
    <3>. QED
      BY <1>1, <3>1, <3>2, <3>3, <3>4
  <2>. QED
    BY <1>1, <2>1
<1>2. CASE c = "g"
  <2>1. O!Meaning(c) = {O!Atom("log", "general"), O!Atom("log", "strace")}
    BY <1>2 DEF O!Meaning
  <2>2. O!Short(old, c) = old \cup NamedFor("log", "general") \cup NamedFor("log", "strace")
    BY <1>2 DEF O!Short, O!On, NamedFor
  <2>3. (NamedFor("log", "general") \cup NamedFor("log", "strace")) \cap O!Optimizations = {}
    BY DEF NamedFor, O!Optimizations
  <2>. QED
    BY <1>1, <2>1, <2>2, <2>3
<1>3. CASE c = "o"
  <2>1. O!Meaning(c) = {O!Atom("log", "asm-out"), O!Atom("log", "verbose-dis")}
    BY <1>3 DEF O!Meaning
  <2>2. O!Short(old, c) = old \cup NamedFor("log", "asm-out") \cup NamedFor("log", "verbose-dis")
    BY <1>3 DEF O!Short, O!On, NamedFor
  <2>3. (NamedFor("log", "asm-out") \cup NamedFor("log", "verbose-dis")) \cap O!Optimizations = {}
    BY DEF NamedFor, O!Optimizations
  <2>. QED
    BY <1>1, <2>1, <2>2, <2>3
<1>4. CASE c \in {"i", "r", "c", "d", "m"}
  <2> DEFINE list == IF c \in {"d", "m"} THEN "optimize" ELSE "log"
             w == CASE c = "i" -> "asm-in" [] c = "r" -> "reg" [] c = "c" -> "cache"
                    [] c = "d" -> "singlestep" [] c = "m" -> "none"
  <2>1. O!Meaning(c) = {O!Atom(list, w)}
    BY <1>4 DEF O!Meaning
  <2>2. list \in {"log", "optimize"} /\ w \in O!Known(list)
    BY <1>4 DEF O!Known, O!LogCategories, O!OptimizeCategories
  <2>3. O!Short(old, c) = O!Category(old, list, w)
    BY <1>4 DEF O!Short, O!Category, O!Log, O!Optimize
  <2> HIDE DEF list, w
  <2>. QED
    BY <2>1, <2>2, <2>3, CategoryRight
<1>5. CASE c \in {"a", "b", "p", "s"}
  <2> DEFINE n == CASE c = "a" -> "analyze-all" [] c = "b" -> "benchmark"
                    [] c = "p" -> "profile" [] c = "s" -> "fail-silently"
  <2>1. O!Meaning(c) = {O!Atom(n, "")}
    BY <1>5 DEF O!Meaning
  <2>2. O!Short(old, c) = O!On(old, O!LongFlags(n))
    BY <1>5 DEF O!Short, O!LongFlags
  <2> HIDE DEF n
  <2>. QED
    BY <2>1, <2>2, LongRight
<1>. QED
  BY <1>2, <1>3, <1>4, <1>5 DEF O!ShortLetters

-----------------------------------------------------------------------------
\* The argument names the executable with the one that follows it.
NamesNext(arg) ==
    \/ arg.form = "long" /\ arg.name = "file"
    \/ arg.form = "short" /\ \E i \in DOMAIN arg.letters : arg.letters[i] = "f"

\* Reading an argument has come to `letter', and goes on there.
Reading(arg) ==
    /\ arg.form \in {"short", "long"}
    /\ arg.form = "short" =>
         letter \in 1 .. Len(arg.letters) + 1 /\ \A j \in 1 .. letter - 1 : arg.letters[j] \notin {"f", "-"}
    /\ O!IsList(arg) =>
         letter \in 1 .. Len(arg.categories) /\ \A j \in 1 .. letter - 1 : arg.categories[j].more = O!NoText
    /\ arg.form = "long" /\ ~O!IsList(arg) => letter = 1

CommandInv ==
    /\ Len(argv) \in Nat /\ DOMAIN argv = 1 .. Len(argv)
    /\ \A k \in 1 .. Len(argv) : argv[k] \in CommandArguments
    /\ optind \in 1 .. Len(argv) + 1 /\ letter \in Nat
    /\ letter > 0 => optind - 1 \in 1 .. Len(argv) /\ Reading(O!Arg)
    /\ status \in {"parsed", "analyze", "transcode"} =>
         file_path = optind /\ optind - 1 \in 1 .. Len(argv) /\ NamesNext(argv[optind - 1])
    /\ O!UsageOnlyForUnknown
    /\ O!FlagsAsDocumented
    /\ O!UnknownNotPassed

LEMMA FlagsPromised == O!FlagsAsDocumented <=> flags = PromisedFor(O!Given)
BY DEF O!FlagsAsDocumented, O!Promised, PromisedFor

LEMMA PlacesOf ==
    ASSUME NEW arg
    PROVE  /\ arg.form = "short" => O!Places(arg) =
                {k \in DOMAIN arg.letters : \A j \in 1 .. k - 1 : arg.letters[j] \notin {"f", "-"}}
           /\ O!IsList(arg) => O!Places(arg) =
                {k \in DOMAIN arg.categories : \A j \in 1 .. k - 1 : arg.categories[j].more = O!NoText}
           /\ arg.form # "short" /\ ~O!IsList(arg) => O!Places(arg) = {1}
<1>1. CASE arg.form = "short"
  BY <1>1, Zenon DEF O!Places, O!IsList
<1>2. CASE O!IsList(arg)
  <2>1. arg.form = "long"
    BY <1>2 DEF O!IsList
  <2>2. arg.form # "short"
    BY <2>1
  <2>. QED
    BY <1>2, <2>2, Zenon DEF O!Places
<1>3. CASE arg.form # "short" /\ ~O!IsList(arg)
  BY <1>3, Zenon DEF O!Places
<1>. QED
  BY <1>1, <1>2, <1>3

LEMMA PlacesPositive ==
    ASSUME O!ArgumentsAssumption, NEW arg \in CommandArguments
    PROVE  /\ O!Places(arg) \subseteq Nat \ {0}
           /\ Len(arg.letters) \in Nat /\ DOMAIN arg.letters = 1 .. Len(arg.letters)
           /\ Len(arg.categories) \in Nat /\ DOMAIN arg.categories = 1 .. Len(arg.categories)
<1> DEFINE S == [word : STRING, more : STRING]
<1>1. arg.letters \in Seq(STRING) /\ arg.categories \in Seq(S)
  BY DEF O!ArgumentsAssumption
<1> HIDE DEF S
<1>2. /\ Len(arg.letters) \in Nat /\ DOMAIN arg.letters = 1 .. Len(arg.letters)
      /\ Len(arg.categories) \in Nat /\ DOMAIN arg.categories = 1 .. Len(arg.categories)
  BY <1>1
<1>3. O!Places(arg) \subseteq DOMAIN arg.letters \/ O!Places(arg) \subseteq DOMAIN arg.categories
      \/ O!Places(arg) = {1}
  BY PlacesOf
<1>. QED
  BY <1>2, <1>3

\* What has been read stays what it was while its places do.
LEMMA SameGiven ==
    ASSUME UNCHANGED <<argv, optind>>, \A i \in 1 .. optind - 1 : O!Seen(i)' = O!Seen(i)
    PROVE  /\ O!Given' = O!Given
           /\ O!UnknownNotPassed => O!UnknownNotPassed'
<1>1. \A i \in 1 .. optind - 1 : \A k : /\ O!AtomsAt(argv[i], k)' = O!AtomsAt(argv[i], k)
                                        /\ O!UnknownAt(argv[i], k)' = O!UnknownAt(argv[i], k)
  BY DEF O!AtomsAt, O!UnknownAt, O!IsList
<1>2. \A i \in 1 .. optind - 1 :
        UNION {O!AtomsAt(argv[i], k) : k \in O!Seen(i)}' = UNION {O!AtomsAt(argv[i], k) : k \in O!Seen(i)}
  BY <1>1
<1>3. O!Given' = O!Given
  BY <1>2 DEF O!Given
<1>4. O!UnknownNotPassed => O!UnknownNotPassed'
  BY <1>1 DEF O!UnknownNotPassed
<1>. QED
  BY <1>3, <1>4

LEMMA OneMoreGiven ==
    ASSUME UNCHANGED <<argv, optind>>, NEW n, n \in 1 .. optind - 1, NEW m,
           \A i \in 1 .. optind - 1 : O!Seen(i)' = IF i = n THEN O!Seen(i) \cup {m} ELSE O!Seen(i)
    PROVE  /\ O!Given' = O!Given \cup O!AtomsAt(argv[n], m)
           /\ O!UnknownNotPassed /\ ~O!UnknownAt(argv[n], m) => O!UnknownNotPassed'
<1>1. \A i \in 1 .. optind - 1 : \A k : /\ O!AtomsAt(argv[i], k)' = O!AtomsAt(argv[i], k)
                                        /\ O!UnknownAt(argv[i], k)' = O!UnknownAt(argv[i], k)
  BY DEF O!AtomsAt, O!UnknownAt, O!IsList
<1>2. ASSUME NEW a
      PROVE  a \in O!Given' <=> a \in O!Given \cup O!AtomsAt(argv[n], m)
  <2>1. a \in O!Given' <=> \E i \in 1 .. optind - 1 : \E k \in O!Seen(i)' : a \in O!AtomsAt(argv[i], k)
    BY <1>1 DEF O!Given
  <2>2. a \in O!Given <=> \E i \in 1 .. optind - 1 : \E k \in O!Seen(i) : a \in O!AtomsAt(argv[i], k)
    BY DEF O!Given
  <2>. QED
    BY <2>1, <2>2
<1>3. O!Given' = O!Given \cup O!AtomsAt(argv[n], m)
  BY <1>2
<1>4. O!UnknownNotPassed /\ ~O!UnknownAt(argv[n], m) => O!UnknownNotPassed'
  BY <1>1 DEF O!UnknownNotPassed
<1>. QED
  BY <1>3, <1>4

\* The place that is read now is one of the argument's.
LEMMA ReadingPlace ==
    ASSUME O!ArgumentsAssumption, NEW arg \in CommandArguments, Reading(arg), letter \in Nat \ {0},
           arg.form = "short" => letter <= Len(arg.letters)
    PROVE  letter \in O!Places(arg)
<1>1. /\ Len(arg.letters) \in Nat /\ DOMAIN arg.letters = 1 .. Len(arg.letters)
      /\ Len(arg.categories) \in Nat /\ DOMAIN arg.categories = 1 .. Len(arg.categories)
  BY PlacesPositive
<1>2. CASE arg.form = "short"
  <2>1. letter \in DOMAIN arg.letters
    BY <1>1, <1>2
  <2>2. \A j \in 1 .. letter - 1 : arg.letters[j] \notin {"f", "-"}
    BY <1>2 DEF Reading
  <2>. QED
    BY <1>2, <2>1, <2>2, PlacesOf
<1>3. CASE O!IsList(arg)
  <2>1. letter \in 1 .. Len(arg.categories) /\ \A j \in 1 .. letter - 1 : arg.categories[j].more = O!NoText
    BY <1>3 DEF Reading
  <2>2. letter \in DOMAIN arg.categories
    BY <1>1, <2>1
  <2>. QED
    BY <1>3, <2>1, <2>2, PlacesOf
<1>4. CASE arg.form # "short" /\ ~O!IsList(arg)
  BY <1>4, PlacesOf DEF Reading
<1>. QED
  BY <1>2, <1>3, <1>4

\* A step from the place that is read to the next, or out of the argument.
LEMMA PlaceRead ==
    ASSUME O!ArgumentsAssumption, CommandInv, letter > 0, letter \in O!Places(O!Arg), UNCHANGED <<argv, optind>>,
           letter' = letter + 1 \/ (letter' = 0 /\ \A k \in O!Places(O!Arg) : k <= letter)
    PROVE  /\ O!Given' = O!Given \cup O!AtomsAt(O!Arg, letter)
           /\ ~O!UnknownAt(O!Arg, letter) => O!UnknownNotPassed'
<1> DEFINE n == optind - 1
<1>1. n \in 1 .. Len(argv) /\ n \in 1 .. optind - 1 /\ O!Arg = argv[n] /\ O!Arg \in CommandArguments
      /\ letter \in Nat /\ optind \in Nat
  BY DEF CommandInv, O!Arg
<1>2. O!Places(O!Arg) \subseteq Nat \ {0}
  BY <1>1, PlacesPositive
<1>3. \A i : O!Places(argv[i])' = O!Places(argv[i])
  BY DEF O!Places, O!IsList
<1>4. ASSUME NEW i \in 1 .. optind - 1
      PROVE  O!Seen(i)' = IF i = n THEN O!Seen(i) \cup {letter} ELSE O!Seen(i)
  <2>1. CASE i = n
    <3>1. O!Seen(i) = {k \in O!Places(O!Arg) : k < letter}
      BY <1>1, <2>1 DEF O!Seen
    <3>2. CASE letter' = letter + 1
      <4>1. O!Seen(i)' = {k \in O!Places(O!Arg) : k < letter + 1}
        BY <1>1, <1>3, <2>1, <3>2 DEF O!Seen
      <4>. QED
        BY <1>1, <1>2, <2>1, <3>1, <4>1
    <3>3. CASE letter' = 0 /\ \A k \in O!Places(O!Arg) : k <= letter
      <4>1. O!Seen(i)' = O!Places(O!Arg)
        BY <1>1, <1>3, <2>1, <3>3 DEF O!Seen
      <4>. QED
        BY <1>1, <1>2, <2>1, <3>1, <3>3, <4>1
    <3>. QED
      BY <3>2, <3>3
  <2>2. CASE i # n
    BY <1>1, <1>3, <2>2 DEF O!Seen
  <2>. QED
    BY <2>1, <2>2
<1> HIDE DEF n
<1>5. /\ O!Given' = O!Given \cup O!AtomsAt(argv[n], letter)
      /\ O!UnknownNotPassed /\ ~O!UnknownAt(argv[n], letter) => O!UnknownNotPassed'
  BY <1>1, <1>4, OneMoreGiven
<1>6. O!UnknownNotPassed
  BY DEF CommandInv
<1>. QED
  BY <1>1, <1>5, <1>6

(* The invariant holds at first, and every step keeps it. *)

LEMMA CommandInvInit ==
    ASSUME O!Init, MaxArgs \in Nat
    PROVE  CommandInv
<1>1. PICK n \in 0 .. MaxArgs : argv \in [1 .. n -> CommandArguments]
  BY DEF O!Init
<1>2. Len(argv) = n /\ n \in Nat /\ DOMAIN argv = 1 .. n /\ \A k \in 1 .. n : argv[k] \in CommandArguments
  <2>1. argv \in Seq(CommandArguments)
    BY <1>1
  <2>. QED
    BY <1>1, <2>1
<1>3. optind = 1 /\ letter = 0 /\ flags = O!Optimizations
      /\ status = IF argv = <<>> THEN "help" ELSE "options"
  BY DEF O!Init
<1>4. O!Given = {}
  BY <1>3 DEF O!Given
<1>5. PromisedFor({}) = O!Optimizations
  BY DEF PromisedFor, O!Flags
<1>6. O!FlagsAsDocumented
  BY <1>3, <1>4, <1>5, FlagsPromised
<1>7. O!UnknownNotPassed
  BY <1>3 DEF O!UnknownNotPassed
<1>. QED
  BY <1>2, <1>3, <1>6, <1>7 DEF CommandInv, O!UsageOnlyForUnknown

\* A step that reads nothing.
LEMMA NothingRead ==
    ASSUME CommandInv, UNCHANGED <<argv, optind, letter, flags>>
    PROVE  O!FlagsAsDocumented' /\ O!UnknownNotPassed'
<1>1. \A i \in 1 .. optind - 1 : O!Seen(i)' = O!Seen(i)
  BY DEF O!Seen, O!Places, O!IsList
<1>2. O!Given' = O!Given /\ (O!UnknownNotPassed => O!UnknownNotPassed')
  BY <1>1, SameGiven
<1>. QED
  BY <1>2 DEF CommandInv, O!FlagsAsDocumented, O!Promised

\* How the translator ends with the usage.
LEMMA UsageShown ==
    ASSUME CommandInv, O!Exit("help"), NEW i \in {optind - 1, optind}, i \in 1 .. Len(argv),
           \/ argv[i].form = "long" /\ argv[i].name = "help"
           \/ \E k \in O!Places(argv[i]) : O!UnknownAt(argv[i], k)
    PROVE  CommandInv'
<1>1. status' = "help" /\ UNCHANGED <<argv, optind, letter, flags, file_path>>
  BY DEF O!Exit
<1>2. O!FlagsAsDocumented' /\ O!UnknownNotPassed'
  BY <1>1, NothingRead
<1>3. \A k : /\ O!UnknownAt(argv[i], k)' = O!UnknownAt(argv[i], k)
             /\ O!Places(argv[i])' = O!Places(argv[i])
  BY <1>1 DEF O!UnknownAt, O!Places, O!IsList
<1>4. O!UsageOnlyForUnknown'
  BY <1>1, <1>3 DEF CommandInv, O!UsageOnlyForUnknown
<1>5. letter' > 0 => Reading(O!Arg)'
  BY <1>1 DEF CommandInv, O!Arg, Reading, O!IsList
<1>. QED
  BY <1>1, <1>2, <1>4, <1>5 DEF CommandInv

LEMMA Ends ==
    ASSUME CommandInv, status = "options", O!Exit("version")
    PROVE  CommandInv'
<1>1. status' = "version" /\ UNCHANGED <<argv, optind, letter, flags, file_path>>
  BY DEF O!Exit
<1>2. O!FlagsAsDocumented' /\ O!UnknownNotPassed'
  BY <1>1, NothingRead
<1>3. letter' > 0 => Reading(O!Arg)'
  BY <1>1 DEF CommandInv, O!Arg, Reading, O!IsList
<1>. QED
  BY <1>1, <1>2, <1>3 DEF CommandInv, O!UsageOnlyForUnknown

\* The place that was read had effect, and reading goes on.
LEMMA Continues ==
    ASSUME CommandInv, status = "options", letter > 0, NEW f, NEW next \in Nat, O!Continue(f, next),
           O!FlagsAsDocumented', O!UnknownNotPassed', next > 0 => Reading(O!Arg)'
    PROVE  CommandInv'
<1>1. flags' = f /\ letter' = next /\ UNCHANGED <<argv, optind, file_path, status>>
  BY DEF O!Continue
<1>. QED
  BY <1>1 DEF CommandInv, O!Arg, O!UsageOnlyForUnknown

LEMMA FileFound ==
    ASSUME CommandInv, status = "options", letter > 0, NamesNext(O!Arg), O!File,
           O!FlagsAsDocumented', O!UnknownNotPassed'
    PROVE  CommandInv'
<1>1. /\ file_path' = (IF optind <= Len(argv) THEN optind ELSE 0) /\ letter' = 0
      /\ status' = IF file_path' = 0 THEN "no file" ELSE "parsed"
      /\ UNCHANGED <<argv, optind>>
  BY DEF O!File, O!EndParsing
<1>2. /\ optind \in 1 .. Len(argv) + 1 /\ optind - 1 \in 1 .. Len(argv) /\ Len(argv) \in Nat
      /\ NamesNext(argv[optind - 1])
  BY DEF CommandInv, O!Arg
<1>3. status' \in {"no file", "parsed"}
  <2>1. CASE file_path' = 0
    BY <1>1, <2>1
  <2>2. CASE file_path' # 0
    BY <1>1, <2>2
  <2>. QED
    BY <2>1, <2>2
<1>4. status' = "parsed" => file_path' = optind
  BY <1>1, <1>2
<1>5. O!UsageOnlyForUnknown'
  BY <1>3 DEF O!UsageOnlyForUnknown
<1>6. /\ Len(argv)' \in Nat /\ DOMAIN argv' = 1 .. Len(argv)'
      /\ \A k \in 1 .. Len(argv)' : argv'[k] \in CommandArguments
      /\ optind' \in 1 .. Len(argv)' + 1 /\ letter' = 0
  BY <1>1, <1>2 DEF CommandInv
<1>7. status' \in {"parsed", "analyze", "transcode"} =>
        file_path' = optind' /\ optind' - 1 \in 1 .. Len(argv)' /\ NamesNext(argv[optind - 1])'
  <2>1. NamesNext(argv[optind - 1])' <=> NamesNext(argv[optind - 1])
    BY <1>1 DEF NamesNext
  <2>. QED
    BY <1>1, <1>2, <1>3, <1>4, <2>1
<1>8. (letter > 0 => optind - 1 \in 1 .. Len(argv) /\ Reading(O!Arg))'
  BY <1>6
<1>9. (letter \in Nat)'
  BY <1>6
<1>. QED
  BY <1>5, <1>6, <1>7, <1>8, <1>9, Zenon DEF CommandInv

\* The flags are right behind a place when what it says has been done to them.
LEMMA FlagsRight ==
    ASSUME CommandInv, NEW A, O!Given' = O!Given \cup A,
           flags' = (flags \ TurnedOff(A)) \cup TurnedOn(A)
    PROVE  O!FlagsAsDocumented'
<1>1. flags = PromisedFor(O!Given)
  BY FlagsPromised DEF CommandInv
<1>2. flags' = PromisedFor(O!Given')
  BY <1>1, PromisesGrow
<1>. QED
  BY <1>2 DEF O!FlagsAsDocumented, O!Promised, PromisedFor

LEMMA NoEffect == TurnedOn({}) = {} /\ TurnedOff({}) = {}
BY DEF TurnedOn, TurnedOff

LEMMA NextArgumentStep ==
    ASSUME O!ArgumentsAssumption, CommandInv, O!NextArgument
    PROVE  CommandInv'
<1>1. optind \in 1 .. Len(argv) /\ status = "options" /\ letter = 0 /\ Len(argv) \in Nat
  BY DEF O!NextArgument, O!MoreArguments, CommandInv
<1>2. CASE argv[optind].form = "plain" /\ O!Exit("help")
  <2>1. argv[optind].form # "short" /\ ~O!IsList(argv[optind])
    BY <1>2 DEF O!IsList
  <2>2. 1 \in O!Places(argv[optind]) /\ O!UnknownAt(argv[optind], 1)
    BY <1>2, <2>1, PlacesOf DEF O!UnknownAt
  <2>. QED
    BY <1>1, <1>2, <2>2, UsageShown
<1>3. CASE /\ argv[optind].form \in {"short", "long"} /\ optind' = optind + 1 /\ letter' = 1
           /\ UNCHANGED <<argv, flags, file_path, status>>
  <2>1. PICK n \in 1 .. Len(argv) : n = optind
    BY <1>1
  <2>2. PICK arg \in CommandArguments : arg = argv[n]
    BY <2>1 DEF CommandInv
  <2>3. /\ Len(arg.letters) \in Nat /\ Len(arg.categories) \in Nat
        /\ DOMAIN arg.categories = 1 .. Len(arg.categories)
        /\ O!Places(arg) \subseteq Nat \ {0}
        /\ arg.categories \in Seq([word : STRING, more : STRING])
    BY PlacesPositive DEF O!ArgumentsAssumption
  <2>4. O!IsList(arg) => Len(arg.categories) > 0
    <3>1. arg.categories # <<>> => Len(arg.categories) # 0
      BY <2>3, EmptySeq
    <3>. QED
      BY <2>3, <3>1 DEF O!IsList
  <2>5. Reading(arg)'
    BY <1>3, <2>1, <2>2, <2>3, <2>4 DEF Reading, O!IsList
  <2>6. \A i : O!Places(argv[i])' = O!Places(argv[i])
    BY <1>3 DEF O!Places, O!IsList
  <2>7. \A i \in 1 .. optind - 1 : O!Seen(i)' = O!Seen(i)
    BY <1>1, <1>3, <2>6 DEF O!Seen
  <2>8. O!Seen(n)' = {}
    <3>1. O!Seen(n)' = {k \in O!Places(arg) : k < 1}
      BY <1>1, <1>3, <2>1, <2>2, <2>6 DEF O!Seen
    <3>. QED
      BY <2>3, <3>1
  <2>9. 1 .. optind' - 1 = (1 .. optind - 1) \cup {n}
    BY <1>1, <1>3, <2>1
  <2>10. \A i : \A k : /\ O!AtomsAt(argv[i], k)' = O!AtomsAt(argv[i], k)
                      /\ O!UnknownAt(argv[i], k)' = O!UnknownAt(argv[i], k)
    BY <1>3 DEF O!AtomsAt, O!UnknownAt, O!IsList
  <2>11. O!Given' = O!Given
    <3>1. ASSUME NEW a PROVE a \in O!Given' <=> a \in O!Given
      <4>1. a \in O!Given' <=> \E i \in 1 .. optind' - 1 : \E k \in O!Seen(i)' : a \in O!AtomsAt(argv[i], k)
        BY <1>3, <2>10 DEF O!Given
      <4>2. a \in O!Given <=> \E i \in 1 .. optind - 1 : \E k \in O!Seen(i) : a \in O!AtomsAt(argv[i], k)
        BY DEF O!Given
      <4>. QED
        BY <2>7, <2>8, <2>9, <4>1, <4>2
    <3>. QED
      BY <3>1
  <2>12. O!FlagsAsDocumented'
    BY <1>3, <2>11 DEF CommandInv, O!FlagsAsDocumented, O!Promised
  <2>13. O!UnknownNotPassed'
    BY <2>7, <2>8, <2>9, <2>10 DEF CommandInv, O!UnknownNotPassed
  <2>14. Reading(O!Arg)'
    <3>1. O!Arg' = arg
      BY <1>1, <1>3, <2>1, <2>2 DEF O!Arg
    <3>. QED
      BY <2>5, <3>1 DEF Reading, O!IsList
  <2>. QED
    BY <1>1, <1>3, <2>12, <2>13, <2>14 DEF CommandInv, O!UsageOnlyForUnknown
<1>. QED
  BY <1>1, <1>2, <1>3 DEF O!NextArgument


\* The place of the argument that is read, and what a step out of it leaves.
LEMMA ReadingNow ==
    ASSUME O!ArgumentsAssumption, CommandInv, letter > 0
    PROVE  /\ O!Arg \in CommandArguments /\ Reading(O!Arg) /\ letter \in Nat \ {0}
           /\ optind - 1 \in 1 .. Len(argv) /\ O!Arg = argv[optind - 1]
           /\ Len(O!Arg.letters) \in Nat /\ DOMAIN O!Arg.letters = 1 .. Len(O!Arg.letters)
           /\ Len(O!Arg.categories) \in Nat /\ DOMAIN O!Arg.categories = 1 .. Len(O!Arg.categories)
           /\ O!Places(O!Arg) \subseteq Nat \ {0}
<1>1. O!Arg \in CommandArguments
  BY DEF CommandInv, O!Arg
<1>. QED
  BY <1>1, PlacesPositive DEF CommandInv, O!Arg

LEMMA UnknownAtOf ==
    ASSUME NEW arg, NEW k
    PROVE  /\ arg.form = "short" =>
                O!UnknownAt(arg, k) = (arg.letters[k] \notin O!ShortLetters \cup {"f", "v", "-"})
           /\ O!IsList(arg) => O!UnknownAt(arg, k) = (arg.categories[k].word \notin O!Known(arg.name))
           /\ arg.form = "long" /\ ~O!IsList(arg) => ~O!UnknownAt(arg, k)
<1>1. O!IsList(arg) => arg.form = "long"
  BY DEF O!IsList
<1>. QED
  BY <1>1 DEF O!UnknownAt

LEMMA AtomsAtOf ==
    ASSUME NEW arg, NEW k
    PROVE  /\ arg.form = "short" => O!AtomsAt(arg, k) = O!Meaning(arg.letters[k])
           /\ O!IsList(arg) => O!AtomsAt(arg, k) = {O!Atom(arg.name, arg.categories[k].word)}
           /\ arg.form = "long" /\ ~O!IsList(arg) => O!AtomsAt(arg, k) = {O!Atom(arg.name, "")}
<1>1. O!IsList(arg) => arg.form = "long"
  BY DEF O!IsList
<1>. QED
  BY <1>1 DEF O!AtomsAt

\* A step that leaves the argument or goes on in it, having read a place that
\* is known, and having done to the flags what it says.
LEMMA PlaceDone ==
    ASSUME O!ArgumentsAssumption, CommandInv, letter > 0, letter \in O!Places(O!Arg),
           ~O!UnknownAt(O!Arg, letter), UNCHANGED <<argv, optind>>,
           letter' = letter + 1 \/ (letter' = 0 /\ \A k \in O!Places(O!Arg) : k <= letter),
           flags' = (flags \ TurnedOff(O!AtomsAt(O!Arg, letter))) \cup TurnedOn(O!AtomsAt(O!Arg, letter))
    PROVE  O!FlagsAsDocumented' /\ O!UnknownNotPassed'
<1>1. O!Given' = O!Given \cup O!AtomsAt(O!Arg, letter) /\ O!UnknownNotPassed'
  BY PlaceRead
<1>. QED
  BY <1>1, FlagsRight

\* Behind the last letter of a cluster nothing is left to read.
LEMMA ClusterEnd ==
    ASSUME O!ArgumentsAssumption, CommandInv, letter > 0, O!Arg.form = "short", letter > Len(O!Arg.letters),
           UNCHANGED <<argv, optind, flags>>, letter' = 0
    PROVE  O!FlagsAsDocumented' /\ O!UnknownNotPassed'
<1>1. O!Places(O!Arg) \subseteq DOMAIN O!Arg.letters
  BY PlacesOf
<1>2. \A k \in O!Places(O!Arg) : k < letter
  BY <1>1, ReadingNow
<1>3. \A i : O!Places(argv[i])' = O!Places(argv[i])
  BY DEF O!Places, O!IsList
<1>4. ASSUME NEW i \in 1 .. optind - 1
      PROVE  O!Seen(i)' = O!Seen(i)
  <2>1. O!Seen(i)' = O!Places(argv[i])
    BY <1>3 DEF O!Seen
  <2>2. O!Seen(i) = O!Places(argv[i])
    BY <1>2 DEF O!Seen, O!Arg
  <2>. QED
    BY <2>1, <2>2
<1>5. O!Given' = O!Given /\ (O!UnknownNotPassed => O!UnknownNotPassed')
  BY <1>4, SameGiven
<1>. QED
  BY <1>5 DEF CommandInv, O!FlagsAsDocumented, O!Promised

LEMMA ShortOptionStep ==
    ASSUME O!ArgumentsAssumption, CommandInv, O!ShortOption
    PROVE  CommandInv'
<1>1. status = "options" /\ letter > 0 /\ O!Arg.form = "short" /\ ~O!IsList(O!Arg)
  BY DEF O!ShortOption, O!IsList
<1>2. CASE letter > Len(O!Arg.letters)
  <2>1. O!Continue(flags, 0)
    BY <1>2 DEF O!ShortOption
  <2>2. O!FlagsAsDocumented' /\ O!UnknownNotPassed'
    BY <1>1, <1>2, <2>1, ClusterEnd DEF O!Continue
  <2>. QED
    BY <1>1, <2>1, <2>2, Continues
<1>3. CASE ~(letter > Len(O!Arg.letters))
  <2> DEFINE c == O!Arg.letters[letter]
  <2>1. letter \in O!Places(O!Arg) /\ letter \in DOMAIN O!Arg.letters
    <3>1. letter <= Len(O!Arg.letters)
      BY <1>1, <1>3, ReadingNow
    <3>. QED
      BY <1>1, <3>1, ReadingNow, ReadingPlace
  <2>2. \/ c = "f" /\ O!File
        \/ c = "v" /\ O!Exit("version")
        \/ c = "-" /\ O!Continue(flags, 0)
        \/ c \in O!ShortLetters /\ O!Continue(O!Short(flags, c), letter + 1)
        \/ c \notin O!ShortLetters \cup {"f", "v", "-"} /\ O!Exit("help")
    BY <1>3 DEF O!ShortOption
  <2>3. O!AtomsAt(O!Arg, letter) = O!Meaning(c)
    BY <1>1, AtomsAtOf
  <2>4. O!UnknownAt(O!Arg, letter) = (c \notin O!ShortLetters \cup {"f", "v", "-"})
    BY <1>1, UnknownAtOf
  <2>5. ASSUME c \in {"f", "-"}
        PROVE  /\ \A k \in O!Places(O!Arg) : k <= letter
               /\ O!Meaning(c) = {}
    <3>1. ASSUME NEW k \in O!Places(O!Arg), k > letter
          PROVE  FALSE
      <4>1. \A j \in 1 .. k - 1 : O!Arg.letters[j] \notin {"f", "-"}
        BY <1>1, <3>1, PlacesOf
      <4>2. letter \in 1 .. k - 1
        BY <1>1, <3>1, ReadingNow
      <4>. QED
        BY <2>5, <4>1, <4>2
    <3>2. O!Meaning(c) = {}
      BY <2>5 DEF O!Meaning
    <3>. QED
      BY <1>1, <3>1, <3>2, ReadingNow
  <2>6. CASE c = "f" /\ O!File
    <3>1. letter' = 0 /\ flags' = flags /\ UNCHANGED <<argv, optind>>
      BY <2>6 DEF O!File, O!EndParsing
    <3>2. O!FlagsAsDocumented' /\ O!UnknownNotPassed'
      BY <1>1, <2>1, <2>3, <2>4, <2>5, <2>6, <3>1, PlaceDone, NoEffect
    <3>3. NamesNext(O!Arg)
      BY <1>1, <2>1, <2>6 DEF NamesNext
    <3>. QED
      BY <1>1, <2>6, <3>2, <3>3, FileFound
  <2>7. CASE c = "v" /\ O!Exit("version")
    BY <1>1, <2>7, Ends
  <2>8. CASE c = "-" /\ O!Continue(flags, 0)
    <3>1. letter' = 0 /\ flags' = flags /\ UNCHANGED <<argv, optind>>
      BY <2>8 DEF O!Continue
    <3>2. O!FlagsAsDocumented' /\ O!UnknownNotPassed'
      BY <1>1, <2>1, <2>3, <2>4, <2>5, <2>8, <3>1, PlaceDone, NoEffect
    <3>. QED
      BY <1>1, <2>8, <3>2, Continues
  <2>9. CASE c \in O!ShortLetters /\ O!Continue(O!Short(flags, c), letter + 1)
    <3>1. letter' = letter + 1 /\ flags' = O!Short(flags, c) /\ UNCHANGED <<argv, optind>>
      BY <2>9 DEF O!Continue
    <3>2. O!Short(flags, c) = (flags \ TurnedOff(O!Meaning(c))) \cup TurnedOn(O!Meaning(c))
      BY <2>9, ShortRight
    <3>3. ~O!UnknownAt(O!Arg, letter)
      BY <2>4, <2>9
    <3>4. flags' = (flags \ TurnedOff(O!AtomsAt(O!Arg, letter))) \cup TurnedOn(O!AtomsAt(O!Arg, letter))
      BY <2>3, <3>1, <3>2
    <3> HIDE DEF c
    <3>5. O!FlagsAsDocumented' /\ O!UnknownNotPassed'
      <4>1. letter' = letter + 1 \/ (letter' = 0 /\ \A k \in O!Places(O!Arg) : k <= letter)
        BY <3>1
      <4>. QED
        BY <1>1, <2>1, <3>1, <3>3, <3>4, <4>1, PlaceDone
    <3>6. c \notin {"f", "-"}
      BY <2>9 DEF O!ShortLetters
    <3>7. PICK arg \in CommandArguments : arg = O!Arg
      BY <1>1, ReadingNow
    <3>8. Reading(arg)'
      <4>1. letter \in 1 .. Len(arg.letters) /\ \A j \in 1 .. letter - 1 : arg.letters[j] \notin {"f", "-"}
        BY <1>1, <2>1, <3>7, ReadingNow DEF Reading
      <4>2. arg.form = "short" /\ Len(arg.letters) \in Nat /\ letter \in Nat
        BY <1>1, <3>7, ReadingNow
      <4>3. \A j \in 1 .. letter' - 1 : arg.letters[j] \notin {"f", "-"}
        BY <3>1, <3>6, <3>7, <4>1, <4>2 DEF c
      <4>4. ~O!IsList(arg)' /\ letter' \in 1 .. Len(arg.letters) + 1
        BY <3>1, <4>1, <4>2 DEF O!IsList
      <4>. QED
        BY <4>2, <4>3, <4>4 DEF Reading
    <3>9. Reading(O!Arg)'
      <4>1. O!Arg' = arg
        BY <3>1, <3>7 DEF O!Arg
      <4>. QED
        BY <3>8, <4>1 DEF Reading, O!IsList
    <3>. QED
      BY <1>1, <2>9, <3>5, <3>9, ReadingNow, Continues
  <2>10. CASE c \notin O!ShortLetters \cup {"f", "v", "-"} /\ O!Exit("help")
    BY <1>1, <2>1, <2>4, <2>10, ReadingNow, UsageShown
  <2>. QED
    BY <2>2, <2>6, <2>7, <2>8, <2>9, <2>10
<1>. QED
  BY <1>2, <1>3

LEMMA ListOptionStep ==
    ASSUME O!ArgumentsAssumption, CommandInv, O!ListOption
    PROVE  CommandInv'
<1> DEFINE c == O!Arg.categories[letter].word
           more == O!MoreCategories(O!Arg.categories, letter)
<1>0. IF c \in O!Known(O!Arg.name)
      THEN O!Continue(O!Category(flags, O!Arg.name, c), IF more THEN letter + 1 ELSE 0)
      ELSE O!Exit("help")
  BY DEF O!ListOption
<1> HIDE DEF c, more
<1>1. /\ status = "options" /\ letter > 0 /\ O!IsList(O!Arg)
      /\ O!Arg.form = "long" /\ O!Arg.form # "short" /\ O!Arg.name \in {"log", "optimize"}
  BY DEF O!ListOption, O!IsList
<1>2. PICK arg \in CommandArguments : arg = O!Arg
  BY <1>1, ReadingNow
<1>3. /\ letter \in 1 .. Len(arg.categories) /\ Len(arg.categories) \in Nat
      /\ \A j \in 1 .. letter - 1 : arg.categories[j].more = O!NoText
      /\ DOMAIN arg.categories = 1 .. Len(arg.categories)
      /\ O!Places(arg) \subseteq Nat \ {0}
  BY <1>1, <1>2, ReadingNow DEF Reading
<1>4. letter \in O!Places(O!Arg)
  BY <1>1, ReadingNow, ReadingPlace
<1>5. /\ O!AtomsAt(O!Arg, letter) = {O!Atom(O!Arg.name, c)}
      /\ O!UnknownAt(O!Arg, letter) = (c \notin O!Known(O!Arg.name))
  BY <1>1, AtomsAtOf, UnknownAtOf DEF c
<1>6. CASE c \in O!Known(O!Arg.name)
  <2>1. O!Continue(O!Category(flags, O!Arg.name, c), IF more THEN letter + 1 ELSE 0)
    BY <1>0, <1>6
  <2>2. /\ more => letter' = letter + 1
        /\ ~more => letter' = 0
        /\ UNCHANGED <<argv, optind>>
        /\ flags' = O!Category(flags, O!Arg.name, c)
    BY <2>1 DEF O!Continue
  <2>3. ~more => \A k \in O!Places(O!Arg) : k <= letter
    <3>1. O!Places(arg) = {k \in DOMAIN arg.categories : \A j \in 1 .. k - 1 : arg.categories[j].more = O!NoText}
      BY <1>1, <1>2, PlacesOf
    <3>2. ASSUME ~more, NEW k \in O!Places(arg), k > letter
          PROVE  FALSE
      <4>1. k \in 1 .. Len(arg.categories) /\ arg.categories[letter].more = O!NoText
        BY <1>3, <3>1, <3>2
      <4>2. letter < Len(arg.categories)
        BY <1>3, <3>2, <4>1
      <4>3. more
        BY <1>2, <4>1, <4>2 DEF more, O!MoreCategories
      <4>. QED
        BY <3>2, <4>3
    <3>3. ~more => \A k \in O!Places(arg) : k <= letter
      BY <1>3, <3>2
    <3>. QED
      BY <1>2, <3>3
  <2>4. letter' = letter + 1 \/ (letter' = 0 /\ \A k \in O!Places(O!Arg) : k <= letter)
    <3>1. CASE more
      BY <2>2, <3>1
    <3>2. CASE ~more
      BY <2>2, <2>3, <3>2
    <3>. QED
      BY <3>1, <3>2
  <2>5. flags' = (flags \ TurnedOff(O!AtomsAt(O!Arg, letter))) \cup TurnedOn(O!AtomsAt(O!Arg, letter))
    <3>1. flags' = (flags \ TurnedOff({O!Atom(O!Arg.name, c)})) \cup TurnedOn({O!Atom(O!Arg.name, c)})
      BY <1>1, <1>6, <2>2, CategoryRight
    <3>. QED
      BY <1>5, <3>1
  <2>6. ~O!UnknownAt(O!Arg, letter)
    BY <1>5, <1>6
  <2>7. O!FlagsAsDocumented' /\ O!UnknownNotPassed'
    BY <1>1, <1>4, <2>2, <2>4, <2>5, <2>6, PlaceDone
  <2>8. ASSUME more
        PROVE  Reading(O!Arg)'
    <3>1. letter < Len(arg.categories) /\ arg.categories[letter].more = O!NoText /\ letter' = letter + 1
      BY <1>2, <2>2, <2>8 DEF more, O!MoreCategories
    <3>2. /\ letter' \in 1 .. Len(arg.categories)
          /\ \A j \in 1 .. letter' - 1 : arg.categories[j].more = O!NoText
      BY <1>3, <3>1
    <3>3. O!Arg' = arg
      BY <1>2, <2>2 DEF O!Arg
    <3>4. arg.form = "long" /\ O!IsList(arg)
      BY <1>1, <1>2
    <3>5. Reading(arg)'
      BY <3>2, <3>4 DEF Reading, O!IsList
    <3>. QED
      BY <3>3, <3>5 DEF Reading, O!IsList
  <2>9. (IF more THEN letter + 1 ELSE 0) \in Nat
    <3>1. letter \in Nat
      BY <1>3
    <3>2. letter + 1 \in Nat
      BY <3>1
    <3>. QED
      BY <3>2
  <2>10. (IF more THEN letter + 1 ELSE 0) > 0 => Reading(O!Arg)'
    BY <1>3, <2>8
  <2>. QED
    BY <1>1, <2>1, <2>7, <2>9, <2>10, Continues
<1>7. CASE c \notin O!Known(O!Arg.name)
  <2>1. O!Exit("help")
    BY <1>0, <1>7
  <2>. QED
    BY <1>1, <1>4, <1>5, <1>7, <2>1, ReadingNow, UsageShown
<1>. QED
  BY <1>6, <1>7

LEMMA LongOptionStep ==
    ASSUME O!ArgumentsAssumption, CommandInv, O!LongOption
    PROVE  CommandInv'
<1>1. /\ status = "options" /\ letter > 0 /\ ~O!IsList(O!Arg)
      /\ O!Arg.form = "long" /\ O!Arg.form # "short"
  BY DEF O!LongOption
<1>2. letter = 1 /\ O!Places(O!Arg) = {1}
  BY <1>1, ReadingNow, PlacesOf DEF Reading
<1>3. /\ O!AtomsAt(O!Arg, letter) = {O!Atom(O!Arg.name, "")}
      /\ ~O!UnknownAt(O!Arg, letter)
  BY <1>1, AtomsAtOf, UnknownAtOf
<1>4. ASSUME flags' = O!On(flags, O!LongFlags(O!Arg.name)), letter' = 0, UNCHANGED <<argv, optind>>
      PROVE  O!FlagsAsDocumented' /\ O!UnknownNotPassed'
  <2>1. flags' = (flags \ TurnedOff(O!AtomsAt(O!Arg, letter))) \cup TurnedOn(O!AtomsAt(O!Arg, letter))
    BY <1>3, <1>4, LongRight
  <2>2. letter \in O!Places(O!Arg) /\ \A k \in O!Places(O!Arg) : k <= letter
    BY <1>2
  <2>. QED
    BY <1>1, <1>3, <1>4, <2>1, <2>2, PlaceDone
<1>5. CASE O!Arg.name = "help" /\ O!Exit("help")
  BY <1>1, <1>5, ReadingNow, UsageShown
<1>6. CASE O!Arg.name = "version" /\ O!Exit("version")
  BY <1>1, <1>6, Ends
<1>7. CASE O!Arg.name = "file" /\ O!File
  <2>1. flags' = flags /\ letter' = 0 /\ UNCHANGED <<argv, optind>>
    BY <1>7 DEF O!File, O!EndParsing
  <2>2. O!On(flags, O!LongFlags(O!Arg.name)) = flags
    BY <1>7 DEF O!On, O!LongFlags
  <2>3. O!FlagsAsDocumented' /\ O!UnknownNotPassed'
    BY <1>4, <2>1, <2>2
  <2>4. NamesNext(O!Arg)
    BY <1>1, <1>7 DEF NamesNext
  <2>. QED
    BY <1>1, <1>7, <2>3, <2>4, FileFound
<1>8. CASE O!Continue(O!On(flags, O!LongFlags(O!Arg.name)), 0)
  <2>1. O!FlagsAsDocumented' /\ O!UnknownNotPassed'
    BY <1>4, <1>8 DEF O!Continue
  <2>. QED
    BY <1>1, <1>8, <2>1, Continues
<1>. QED
  BY <1>5, <1>6, <1>7, <1>8 DEF O!LongOption

LEMMA NoMoreArgumentsStep ==
    ASSUME CommandInv, O!NoMoreArguments
    PROVE  CommandInv'
<1>1. /\ UNCHANGED <<argv, optind, letter, flags>> /\ letter' = 0 /\ status' = "no file"
  BY DEF O!NoMoreArguments, O!EndParsing
<1>2. O!FlagsAsDocumented' /\ O!UnknownNotPassed'
  BY <1>1, NothingRead
<1>3. /\ (letter > 0 => optind - 1 \in 1 .. Len(argv) /\ Reading(O!Arg))'
      /\ (letter \in Nat)'
  <2>1. letter' = 0
    BY <1>1
  <2>. QED
    BY <2>1
<1>4. O!UsageOnlyForUnknown'
  BY <1>1 DEF O!UsageOnlyForUnknown
<1>. QED
  BY <1>1, <1>2, <1>3, <1>4 DEF CommandInv

LEMMA RunStep ==
    ASSUME CommandInv, O!Run
    PROVE  CommandInv'
<1>1. /\ UNCHANGED <<argv, optind, letter, flags, file_path>>
      /\ status = "parsed" /\ status' \in {"analyze", "transcode"}
  BY DEF O!Run, O!Exit
<1>2. O!FlagsAsDocumented' /\ O!UnknownNotPassed'
  BY <1>1, NothingRead
<1>3. (letter > 0 => Reading(O!Arg))'
  BY <1>1 DEF CommandInv, O!Arg, Reading, O!IsList
<1>4. NamesNext(argv[optind - 1])' <=> NamesNext(argv[optind - 1])
  BY <1>1 DEF NamesNext
<1>. QED
  BY <1>1, <1>2, <1>3, <1>4 DEF CommandInv, O!UsageOnlyForUnknown

LEMMA CommandInvNext ==
    ASSUME O!ArgumentsAssumption, CommandInv, [O!Next]_O!vars
    PROVE  CommandInv'
<1>1. CASE UNCHANGED O!vars
  <2>1. UNCHANGED <<argv, optind, letter, flags, file_path, status>>
    BY <1>1 DEF O!vars
  <2>2. O!FlagsAsDocumented' /\ O!UnknownNotPassed'
    BY <2>1, NothingRead
  <2>3. (letter > 0 => Reading(O!Arg))'
    BY <2>1 DEF CommandInv, O!Arg, Reading, O!IsList
  <2>4. NamesNext(argv[optind - 1])' <=> NamesNext(argv[optind - 1])
    BY <2>1 DEF NamesNext
  <2>5. O!UsageOnlyForUnknown'
    BY <2>1 DEF CommandInv, O!UsageOnlyForUnknown, O!Places, O!UnknownAt, O!IsList
  <2>. QED
    BY <2>1, <2>2, <2>3, <2>4, <2>5 DEF CommandInv
<1>. QED
  BY <1>1, NextArgumentStep, NoMoreArgumentsStep, ShortOptionStep, ListOptionStep, LongOptionStep,
     RunStep DEF O!Next

\* What runs has its file named by the argument before it.
LEMMA CommandInvFile ==
    ASSUME CommandInv
    PROVE  O!GuestArguments
BY DEF CommandInv, O!GuestArguments, O!Started, NamesNext, O!guestArgv

\* For every command line: the flags are those the usage text promises for what
\* has been read, the guest's arguments begin with the executable behind -f or
\* --file, the usage is shown only to those who ask for it or give something
\* unknown, and nothing unknown is passed over where the code reads it
\* (src/env/opt.c, main()).
THEOREM CommandLineHolds ==
    ASSUME O!ArgumentsAssumption, MaxArgs \in Nat
    PROVE  O!Spec => [](/\ O!FlagsAsDocumented /\ O!GuestArguments
                        /\ O!UsageOnlyForUnknown /\ O!UnknownNotPassed)
<1>1. O!Init => CommandInv
  BY CommandInvInit
<1>2. CommandInv /\ [O!Next]_O!vars => CommandInv'
  BY CommandInvNext
<1>3. CommandInv => O!FlagsAsDocumented /\ O!GuestArguments /\ O!UsageOnlyForUnknown /\ O!UnknownNotPassed
  BY CommandInvFile DEF CommandInv
<1>. QED
  BY <1>1, <1>2, <1>3, PTL DEF O!Spec

-----------------------------------------------------------------------------
(* The nodes of the analyzer: what is counted, and where it is kept. *)

CONSTANTS Code, MaxLength, NodesPerPage, LastCombination
VARIABLES segment, prev, cur, mnem_count, reg_count, array, pages, nextFree, report

An == INSTANCE Analyzer

\* An instruction c after b is a pair of the kind p, f, with immediates x and y.
Hit(b, c, p, f, x, y) ==
    <<b.mnem, c.mnem>> = p /\ An!FlagsOf(b, c) = f /\ An!Uses(b, c) /\ b.imm = x /\ c.imm = y
HitPlaces(s, p, f, x, y) ==
    {k \in DOMAIN s : Hit(IF k = 1 THEN An!Nothing ELSE s[k - 1], s[k], p, f, x, y)}

\* The list of a pair and its flags, empty where there is none.
NodeList(a, p, f) == An!ListOf(An!ListsOf(a, p), f)

IsList(l) == Len(l) \in Nat /\ DOMAIN l = 1 .. Len(l) /\ l = [k \in 1 .. Len(l) |-> l[k]]
IsNode(n) == n = [imm1 |-> n.imm1, imm2 |-> n.imm2, count |-> n.count, node |-> n.node]
Of(n, x, y) == n.imm1 = x /\ n.imm2 = y

-----------------------------------------------------------------------------
(* One more instruction. *)

LEMMA OneAppended ==
    ASSUME NEW l, IsList(l), NEW e
    PROVE  /\ IsList(Append(l, e)) /\ Len(Append(l, e)) = Len(l) + 1
           /\ \A k \in 1 .. Len(l) : Append(l, e)[k] = l[k]
           /\ Append(l, e)[Len(l) + 1] = e
<1> DEFINE S == {l[k] : k \in 1 .. Len(l)} \cup {e}
           r == Append(l, e)
<1>1. l \in Seq(S) /\ e \in S
  <2>1. l \in [1 .. Len(l) -> S] /\ Len(l) \in Nat
    BY DEF IsList
  <2>. QED
    BY <2>1
<1> HIDE DEF S
<1>2. /\ r \in Seq(S) /\ Len(r) = Len(l) + 1
      /\ \A k \in 1 .. Len(l) : r[k] = l[k]
      /\ r[Len(l) + 1] = e
  BY <1>1
<1> HIDE DEF r
<1>3. IsList(r)
  BY <1>2 DEF IsList
<1>. QED
  BY <1>2, <1>3 DEF r

LEMMA PlacesGrow ==
    ASSUME NEW s, IsList(s), NEW c, NEW p, NEW f, NEW x, NEW y
    PROVE  LET b == IF s = <<>> THEN An!Nothing ELSE s[Len(s)]
           IN  /\ Cardinality(HitPlaces(s, p, f, x, y)) \in Nat
               /\ Hit(b, c, p, f, x, y) =>
                    Cardinality(HitPlaces(Append(s, c), p, f, x, y)) = Cardinality(HitPlaces(s, p, f, x, y)) + 1
               /\ ~Hit(b, c, p, f, x, y) => HitPlaces(Append(s, c), p, f, x, y) = HitPlaces(s, p, f, x, y)
<1> DEFINE b == IF s = <<>> THEN An!Nothing ELSE s[Len(s)]
           P == HitPlaces(s, p, f, x, y)
           t == Append(s, c)
           n == Len(s) + 1
           Old(k) == IF k = 1 THEN An!Nothing ELSE s[k - 1]
           Now(k) == IF k = 1 THEN An!Nothing ELSE t[k - 1]
<1>1. /\ Len(s) \in Nat /\ DOMAIN s = 1 .. Len(s) /\ DOMAIN t = 1 .. n /\ t[n] = c
      /\ \A k \in 1 .. Len(s) : t[k] = s[k]
  BY OneAppended DEF IsList
<1>2. Now(n) = b
  <2>1. s = <<>> <=> Len(s) = 0
    BY <1>1 DEF IsList
  <2>2. CASE Len(s) = 0
    BY <2>1, <2>2
  <2>3. CASE Len(s) # 0
    <3>1. n # 1 /\ n - 1 = Len(s) /\ Len(s) \in 1 .. Len(s)
      BY <1>1, <2>3
    <3>. QED
      BY <1>1, <2>1, <2>3, <3>1
  <2>. QED
    BY <2>2, <2>3
<1>3. \A k \in 1 .. Len(s) : Now(k) = Old(k)
  BY <1>1
<1>4. P = {k \in 1 .. Len(s) : Hit(Old(k), s[k], p, f, x, y)}
  BY <1>1 DEF HitPlaces
<1>5. HitPlaces(t, p, f, x, y) = {k \in 1 .. n : Hit(Now(k), t[k], p, f, x, y)}
  BY <1>1 DEF HitPlaces
<1> HIDE DEF b, t, Old, Now
<1>6. 1 .. n = (1 .. Len(s)) \cup {n} /\ n \notin 1 .. Len(s)
  BY <1>1
<1>7. HitPlaces(t, p, f, x, y) = P \cup (IF Hit(b, c, p, f, x, y) THEN {n} ELSE {})
  BY <1>1, <1>2, <1>3, <1>4, <1>5, <1>6
<1>8. IsFiniteSet(P) /\ n \notin P
  <2>1. P \subseteq 1 .. Len(s)
    BY <1>4
  <2>2. IsFiniteSet(1 .. Len(s))
    BY <1>1, FS_Interval
  <2> HIDE DEF P
  <2>3. IsFiniteSet(P)
    BY <2>1, <2>2, FS_Subset
  <2>. QED
    BY <1>6, <2>1, <2>3
<1> HIDE DEF P, n
<1>9. Cardinality(P) \in Nat /\ Cardinality(P \cup {n}) = Cardinality(P) + 1
  BY <1>8, FS_CardinalityType, FS_AddElement
<1>10. /\ Hit(b, c, p, f, x, y) => Cardinality(HitPlaces(t, p, f, x, y)) = Cardinality(P) + 1
       /\ ~Hit(b, c, p, f, x, y) => HitPlaces(t, p, f, x, y) = P
  BY <1>7, <1>9
<1>. QED
  BY <1>9, <1>10 DEF P, t, b

\* Where a pair is filed, and that nothing else moves.
LEMMA Filed ==
    ASSUME NEW b, NEW c, NEW p, NEW f
    PROVE  NodeList(An!File(b, c), p, f) =
             IF p = <<b.mnem, c.mnem>> /\ f = An!FlagsOf(b, c)
             THEN An!Counted(NodeList(array, p, f), b.imm, c.imm) ELSE NodeList(array, p, f)
<1> DEFINE pair == <<b.mnem, c.mnem>>
           g == An!FlagsOf(b, c)
           lists == An!ListsOf(array, pair)
           new == An!Counted(An!ListOf(lists, g), b.imm, c.imm)
           more == [h \in DOMAIN lists \cup {g} |-> IF h = g THEN new ELSE lists[h]]
           all == [q \in DOMAIN array \cup {pair} |-> IF q = pair THEN more ELSE array[q]]
<1>1. An!File(b, c) = all
  BY DEF An!File, An!Put
<1> HIDE DEF pair, g, new
<1>2. An!ListsOf(all, p) = IF p = pair THEN more ELSE An!ListsOf(array, p)
  BY DEF An!ListsOf
<1>3. An!ListOf(more, f) = IF f = g THEN new ELSE An!ListOf(lists, f)
  BY DEF An!ListOf
<1> HIDE DEF more, all
<1>4. NodeList(all, p, f) = IF p = pair /\ f = g THEN new ELSE NodeList(array, p, f)
  BY <1>2, <1>3 DEF NodeList
<1>5. p = pair /\ f = g => new = An!Counted(NodeList(array, p, f), b.imm, c.imm)
  BY DEF new, NodeList
<1>. QED
  BY <1>1, <1>4, <1>5 DEF pair, g

-----------------------------------------------------------------------------
(* The memory of the nodes. *)

\* The node at n has been handed out.
Allocated(n, pg, free) ==
    /\ n[1] \in 1 .. pg /\ n[2] \in 0 .. NodesPerPage - 1
    /\ n[1] = pg /\ free # An!NoPage => n[2] < free
Allocator(pg, free) ==
    /\ pg \in Nat /\ free \in {An!NoPage} \cup 0 .. NodesPerPage - 1
    /\ free # An!NoPage => pg >= 1

LEMMA AllocateFresh ==
    ASSUME NodesPerPage \in Nat \ {0}, Allocator(pages, nextFree)
    PROVE  LET new == An!Allocate
           IN  /\ Allocator(new.pages, new.next) /\ Allocated(new.node, new.pages, new.next)
               /\ ~Allocated(new.node, pages, nextFree)
               /\ \A n : Allocated(n, pages, nextFree) => Allocated(n, new.pages, new.next)
<1> DEFINE page == IF nextFree = An!NoPage THEN pages + 1 ELSE pages
           place == IF nextFree = An!NoPage THEN 0 ELSE nextFree
           free == IF place + 1 >= NodesPerPage THEN An!NoPage ELSE place + 1
           node == <<page, place>>
<1>1. An!Allocate = [node |-> node, pages |-> page, next |-> free]
  BY DEF An!Allocate
<1>2. /\ pages \in Nat /\ page \in Nat /\ place \in 0 .. NodesPerPage - 1
      /\ nextFree \in {-1} \cup 0 .. NodesPerPage - 1
  BY DEF Allocator, An!NoPage
<1>3. Allocator(page, free) /\ page >= 1
  BY <1>2 DEF Allocator, An!NoPage
<1>4. node[1] = page /\ node[2] = place
  OBVIOUS
<1>5. Allocated(node, page, free)
  BY <1>2, <1>3, <1>4 DEF Allocated, An!NoPage
<1>6. ~Allocated(node, pages, nextFree)
  BY <1>2, <1>4 DEF Allocated, An!NoPage
<1>7. ASSUME NEW n, Allocated(n, pages, nextFree) PROVE Allocated(n, page, free)
  BY <1>2, <1>7 DEF Allocated, An!NoPage
<1>. QED
  BY <1>1, <1>3, <1>5, <1>6, <1>7

-----------------------------------------------------------------------------
(* One list, before and after an instruction. *)

NodeOK(n, s, p, f, pg, free) ==
    /\ IsNode(n) /\ Allocated(n.node, pg, free)
    /\ n.count = Cardinality(HitPlaces(s, p, f, n.imm1, n.imm2))
Unique(l) == \A k, j \in 1 .. Len(l) : l[k].imm1 = l[j].imm1 /\ l[k].imm2 = l[j].imm2 => k = j
Complete(l, s, p, f) ==
    \A x, y : (\A k \in 1 .. Len(l) : ~Of(l[k], x, y)) => Cardinality(HitPlaces(s, p, f, x, y)) = 0
ListOK(l, s, p, f, pg, free) ==
    /\ IsList(l) /\ Unique(l) /\ Complete(l, s, p, f)
    /\ \A k \in 1 .. Len(l) : NodeOK(l[k], s, p, f, pg, free)

LEMMA ListStays ==
    ASSUME NEW l, NEW s, NEW t, NEW p, NEW f, NEW pg, NEW free, NEW qg, NEW gree,
           ListOK(l, s, p, f, pg, free),
           \A x, y : HitPlaces(t, p, f, x, y) = HitPlaces(s, p, f, x, y),
           \A n : Allocated(n, pg, free) => Allocated(n, qg, gree)
    PROVE  ListOK(l, t, p, f, qg, gree)
<1>1. Complete(l, t, p, f)
  BY DEF ListOK, Complete
<1>2. \A k \in 1 .. Len(l) : NodeOK(l[k], t, p, f, qg, gree)
  BY DEF ListOK, NodeOK
<1>. QED
  BY <1>1, <1>2 DEF ListOK

\* A first pair with these immediates.
LEMMA ListGrows ==
    ASSUME NEW l, NEW s, NEW t, NEW p, NEW f, NEW pg, NEW free, NEW qg, NEW gree, NEW x, NEW y, NEW place,
           ListOK(l, s, p, f, pg, free),
           \A k \in 1 .. Len(l) : ~Of(l[k], x, y),
           \A v, w : ~(v = x /\ w = y) => HitPlaces(t, p, f, v, w) = HitPlaces(s, p, f, v, w),
           Cardinality(HitPlaces(t, p, f, x, y)) = Cardinality(HitPlaces(s, p, f, x, y)) + 1,
           \A n : Allocated(n, pg, free) => Allocated(n, qg, gree),
           Allocated(place, qg, gree)
    PROVE  ListOK(Append(l, [imm1 |-> x, imm2 |-> y, count |-> 1, node |-> place]), t, p, f, qg, gree)
<1> DEFINE e == [imm1 |-> x, imm2 |-> y, count |-> 1, node |-> place]
           r == Append(l, e)
<1>1. IsList(l) /\ Len(l) \in Nat
  BY DEF ListOK, IsList
<1>2. /\ e.imm1 = x /\ e.imm2 = y /\ e.count = 1 /\ e.node = place /\ IsNode(e)
  BY DEF IsNode
<1> HIDE DEF e
<1>3. /\ IsList(r) /\ Len(r) = Len(l) + 1 /\ r[Len(l) + 1] = e
      /\ \A k \in 1 .. Len(l) : r[k] = l[k]
  BY <1>1, OneAppended
<1> HIDE DEF r
<1>4. 1 .. Len(r) = (1 .. Len(l)) \cup {Len(l) + 1}
  BY <1>1, <1>3
<1>5. Cardinality(HitPlaces(s, p, f, x, y)) = 0
  BY DEF ListOK, Complete
<1>6. NodeOK(e, t, p, f, qg, gree)
  BY <1>2, <1>5 DEF NodeOK
<1>7. ASSUME NEW k \in 1 .. Len(l) PROVE NodeOK(l[k], t, p, f, qg, gree)
  <2>1. NodeOK(l[k], s, p, f, pg, free) /\ ~(l[k].imm1 = x /\ l[k].imm2 = y)
    BY DEF ListOK, Of
  <2>. QED
    BY <2>1 DEF NodeOK
<1>8. \A k \in 1 .. Len(r) : NodeOK(r[k], t, p, f, qg, gree)
  BY <1>3, <1>4, <1>6, <1>7
<1>9. Unique(r)
  <2>1. \A k \in 1 .. Len(l) : ~(l[k].imm1 = e.imm1 /\ l[k].imm2 = e.imm2)
    BY <1>2 DEF Of
  <2>. QED
    BY <1>3, <1>4, <2>1 DEF ListOK, Unique
<1>10. Complete(r, t, p, f)
  <2>1. ASSUME NEW v, NEW w, \A k \in 1 .. Len(r) : ~Of(r[k], v, w)
        PROVE  Cardinality(HitPlaces(t, p, f, v, w)) = 0
    <3>1. ~(v = x /\ w = y)
      BY <1>2, <1>3, <1>4, <2>1 DEF Of
    <3>2. \A k \in 1 .. Len(l) : ~Of(l[k], v, w)
      BY <1>3, <1>4, <2>1
    <3>. QED
      BY <3>1, <3>2 DEF ListOK, Complete
  <2>. QED
    BY <2>1 DEF Complete
<1>. QED
  BY <1>3, <1>8, <1>9, <1>10 DEF ListOK, r, e

\* The pair again.
LEMMA ListCounts ==
    ASSUME NEW l, NEW s, NEW t, NEW p, NEW f, NEW pg, NEW free, NEW x, NEW y, NEW m \in 1 .. Len(l),
           ListOK(l, s, p, f, pg, free),
           Of(l[m], x, y),
           \A v, w : ~(v = x /\ w = y) => HitPlaces(t, p, f, v, w) = HitPlaces(s, p, f, v, w),
           Cardinality(HitPlaces(t, p, f, x, y)) = Cardinality(HitPlaces(s, p, f, x, y)) + 1
    PROVE  LET r == [l EXCEPT ![m].count = @ + 1]
           IN  /\ ListOK(r, t, p, f, pg, free) /\ Len(r) = Len(l)
               /\ \A k \in 1 .. Len(l) : r[k].node = l[k].node
<1> DEFINE e == [l[m] EXCEPT !.count = @ + 1]
           r == [l EXCEPT ![m].count = @ + 1]
           S == {l[k] : k \in 1 .. Len(l)} \cup {e}
<1>1. Len(l) \in Nat /\ l = [k \in 1 .. Len(l) |-> l[k]]
  BY DEF ListOK, IsList
<1>2. /\ e = [imm1 |-> l[m].imm1, imm2 |-> l[m].imm2, count |-> l[m].count + 1, node |-> l[m].node]
  <2>1. IsNode(l[m])
    BY DEF ListOK, NodeOK
  <2>. QED
    BY <2>1 DEF IsNode
<1>3. r = [k \in 1 .. Len(l) |-> IF k = m THEN e ELSE l[k]]
  BY <1>1
<1> HIDE DEF e, r
<1>4. Len(r) = Len(l)
  <2>1. l \in [1 .. Len(l) -> S] /\ r \in [1 .. Len(l) -> S]
    BY <1>1, <1>3
  <2> HIDE DEF S
  <2>. QED
    BY <1>1, <2>1
<1>5. IsList(r) /\ \A k \in 1 .. Len(l) : r[k] = IF k = m THEN e ELSE l[k]
  BY <1>1, <1>3, <1>4 DEF IsList
<1>6. e.imm1 = l[m].imm1 /\ e.imm2 = l[m].imm2 /\ e.count = l[m].count + 1 /\ e.node = l[m].node /\ IsNode(e)
  BY <1>2 DEF IsNode
<1>7. l[m].imm1 = x /\ l[m].imm2 = y
  BY DEF Of
<1>8. \A k \in 1 .. Len(l) : r[k].imm1 = l[k].imm1 /\ r[k].imm2 = l[k].imm2 /\ r[k].node = l[k].node
  BY <1>5, <1>6
<1>9. Unique(r)
  BY <1>4, <1>8 DEF ListOK, Unique
<1>10. NodeOK(e, t, p, f, pg, free)
  <2>1. NodeOK(l[m], s, p, f, pg, free)
    BY DEF ListOK
  <2>. QED
    BY <1>6, <1>7, <2>1 DEF NodeOK
<1>11. ASSUME NEW k \in 1 .. Len(l), k # m PROVE NodeOK(l[k], t, p, f, pg, free)
  <2>1. ~(l[k].imm1 = x /\ l[k].imm2 = y)
    BY <1>7, <1>11 DEF ListOK, Unique
  <2>2. NodeOK(l[k], s, p, f, pg, free)
    BY DEF ListOK
  <2>. QED
    BY <2>1, <2>2 DEF NodeOK
<1>12. \A k \in 1 .. Len(r) : NodeOK(r[k], t, p, f, pg, free)
  BY <1>4, <1>5, <1>10, <1>11
<1>13. Complete(r, t, p, f)
  <2>1. ASSUME NEW v, NEW w, \A k \in 1 .. Len(r) : ~Of(r[k], v, w)
        PROVE  Cardinality(HitPlaces(t, p, f, v, w)) = 0
    <3>1. \A k \in 1 .. Len(l) : ~Of(l[k], v, w)
      BY <1>4, <1>8, <2>1 DEF Of
    <3>2. ~(v = x /\ w = y)
      BY <3>1
    <3>. QED
      BY <3>1, <3>2 DEF ListOK, Complete
  <2>. QED
    BY <2>1 DEF Complete
<1>. QED
  BY <1>4, <1>5, <1>8, <1>9, <1>12, <1>13 DEF ListOK, r

-----------------------------------------------------------------------------
(* The whole array. *)

NodesOwn(a) == \A p, f, q, g :
    \A k \in 1 .. Len(NodeList(a, p, f)), j \in 1 .. Len(NodeList(a, q, g)) :
      NodeList(a, p, f)[k].node = NodeList(a, q, g)[j].node => p = q /\ f = g /\ k = j

NodesInv ==
    /\ IsList(segment) /\ cur = (IF segment = <<>> THEN An!Nothing ELSE segment[Len(segment)])
    /\ Allocator(pages, nextFree)
    /\ \A p, f : ListOK(NodeList(array, p, f), segment, p, f, pages, nextFree)
    /\ NodesOwn(array)

LEMMA NodesInvInit ==
    ASSUME An!Init
    PROVE  NodesInv
<1>1. segment = <<>> /\ cur = An!Nothing /\ pages = 0 /\ nextFree = An!NoPage /\ array = [p \in {} |-> An!NoLists]
  BY DEF An!Init
<1>2. IsList(<<>>) /\ Len(<<>>) = 0
  BY DEF IsList
<1>3. \A p, f : NodeList(array, p, f) = <<>>
  BY <1>1 DEF NodeList, An!ListsOf, An!ListOf, An!NoLists
<1>4. \A p, f, x, y : Cardinality(HitPlaces(<<>>, p, f, x, y)) = 0
  <2>1. \A p, f, x, y : HitPlaces(<<>>, p, f, x, y) = {}
    BY DEF HitPlaces
  <2>. QED
    BY <2>1, FS_EmptySet
<1>5. \A p, f : ListOK(<<>>, <<>>, p, f, pages, nextFree)
  BY <1>2, <1>4 DEF ListOK, Unique, Complete
<1>6. NodesOwn(array)
  BY <1>2, <1>3 DEF NodesOwn
<1>7. Allocator(pages, nextFree)
  BY <1>1 DEF Allocator
<1>. QED
  BY <1>1, <1>2, <1>3, <1>5, <1>6, <1>7 DEF NodesInv

\* A pair that has no register in common is counted nowhere.
LEMMA UnrelatedKeeps ==
    ASSUME NodesInv, NEW c \in Code, An!add_instruction(c), ~An!Uses(cur, c)
    PROVE  NodesInv'
<1>1. segment' = Append(segment, c) /\ cur' = c /\ array' = array /\ pages' = pages /\ nextFree' = nextFree
  BY DEF An!add_instruction
<1>2. IsList(segment') /\ segment' # <<>> /\ cur' = segment'[Len(segment')]
  <2>1. IsList(segment) /\ Len(segment) \in Nat
    BY DEF NodesInv, IsList
  <2>2. IsList(segment') /\ Len(segment') = Len(segment) + 1 /\ segment'[Len(segment) + 1] = c
    BY <1>1, <2>1, OneAppended
  <2>3. segment' # <<>>
    BY <2>1, <2>2
  <2>. QED
    BY <1>1, <2>2, <2>3
<1>3. \A p, f, x, y : HitPlaces(segment', p, f, x, y) = HitPlaces(segment, p, f, x, y)
  <2>1. \A p, f, x, y : ~Hit(cur, c, p, f, x, y)
    BY DEF Hit
  <2>. QED
    BY <1>1, <2>1, PlacesGrow DEF NodesInv
<1>4. \A p, f : ListOK(NodeList(array, p, f), segment', p, f, pages, nextFree)
  <2>1. ASSUME NEW p, NEW f PROVE ListOK(NodeList(array, p, f), segment', p, f, pages, nextFree)
    <3> DEFINE l == NodeList(array, p, f)
    <3>1. ListOK(l, segment, p, f, pages, nextFree)
      BY DEF NodesInv
    <3> HIDE DEF l
    <3>2. ListOK(l, segment', p, f, pages, nextFree)
      BY <1>3, <3>1, ListStays
    <3>. QED
      BY <3>2 DEF l
  <2>. QED
    BY <2>1
<1>. QED
  BY <1>1, <1>2, <1>4 DEF NodesInv

LEMMA SmallestOfOne ==
    ASSUME NEW k \in Nat
    PROVE  An!Min({k}) = k
BY DEF An!Min

\* A pair that has one is counted in one node.
LEMMA RelatedKeeps ==
    ASSUME NodesPerPage \in Nat \ {0},
           NodesInv, NEW c \in Code, An!add_instruction(c), An!Uses(cur, c)
    PROVE  NodesInv'
<1> DEFINE pair == <<cur.mnem, c.mnem>>
           g == An!FlagsOf(cur, c)
           x == cur.imm
           y == c.imm
           old == NodeList(array, pair, g)
           new == An!Counted(old, x, y)
           fresh == An!PlaceOf(old, x, y) = {}
           place == An!Allocate.node
<1>1. /\ segment' = Append(segment, c) /\ cur' = c /\ array' = An!File(cur, c)
      /\ IF fresh THEN pages' = An!Allocate.pages /\ nextFree' = An!Allocate.next
                  ELSE pages' = pages /\ nextFree' = nextFree
  BY DEF An!add_instruction, NodeList
<1>2. \A p, f : NodeList(array', p, f) = IF p = pair /\ f = g THEN new ELSE NodeList(array, p, f)
  BY <1>1, Filed
<1>3. IsList(segment') /\ segment' # <<>> /\ cur' = segment'[Len(segment')]
  <2>1. IsList(segment) /\ Len(segment) \in Nat
    BY DEF NodesInv, IsList
  <2>2. IsList(segment') /\ Len(segment') = Len(segment) + 1 /\ segment'[Len(segment) + 1] = c
    BY <1>1, <2>1, OneAppended
  <2>3. segment' # <<>>
    BY <2>1, <2>2
  <2>. QED
    BY <1>1, <2>2, <2>3
<1>4. \A p, f, v, w : ~(p = pair /\ f = g /\ v = x /\ w = y) =>
          HitPlaces(segment', p, f, v, w) = HitPlaces(segment, p, f, v, w)
  <2>1. \A p, f, v, w : ~(p = pair /\ f = g /\ v = x /\ w = y) => ~Hit(cur, c, p, f, v, w)
    BY DEF Hit
  <2>. QED
    BY <1>1, <2>1, PlacesGrow DEF NodesInv
<1>5. Cardinality(HitPlaces(segment', pair, g, x, y)) = Cardinality(HitPlaces(segment, pair, g, x, y)) + 1
  <2>1. Hit(cur, c, pair, g, x, y)
    BY DEF Hit
  <2>. QED
    BY <1>1, <2>1, PlacesGrow DEF NodesInv
<1>6. /\ Allocator(pages', nextFree')
      /\ \A n : Allocated(n, pages, nextFree) => Allocated(n, pages', nextFree')
      /\ fresh => Allocated(place, pages', nextFree') /\ ~Allocated(place, pages, nextFree)
  <2>1. Allocator(pages, nextFree)
    BY DEF NodesInv
  <2>. QED
    BY <1>1, <2>1, AllocateFresh
<1>7. ListOK(old, segment, pair, g, pages, nextFree)
  BY DEF NodesInv
<1>8. Len(old) \in Nat /\ DOMAIN old = 1 .. Len(old) /\ IsList(old)
  BY <1>7 DEF ListOK, IsList
<1> HIDE DEF pair, g, x, y, place
<1>9. \A p, f : ListOK(NodeList(array, p, f), segment, p, f, pages, nextFree)
  BY DEF NodesInv
<1>10. \A p, f : ~(p = pair /\ f = g) => ListOK(NodeList(array', p, f), segment', p, f, pages', nextFree')
  <2>1. ASSUME NEW p, NEW f, ~(p = pair /\ f = g)
        PROVE  ListOK(NodeList(array', p, f), segment', p, f, pages', nextFree')
    <3> DEFINE l == NodeList(array, p, f)
    <3>1. NodeList(array', p, f) = l
      BY <1>2, <2>1
    <3>2. ListOK(l, segment, p, f, pages, nextFree)
      BY <1>9
    <3> HIDE DEF l
    <3>3. ListOK(l, segment', p, f, pages', nextFree')
      BY <1>4, <1>6, <2>1, <3>2, ListStays
    <3>. QED
      BY <3>1, <3>3
  <2>. QED
    BY <2>1
<1>11. NodeList(array', pair, g) = new
  BY <1>2
<1> HIDE DEF old
<1>12. CASE fresh
  <2> DEFINE e == [imm1 |-> x, imm2 |-> y, count |-> 1, node |-> place]
             l == Append(old, e)
  <2>1. new = l
    BY <1>12 DEF An!Counted, An!NewNode, place
  <2>2. \A k \in 1 .. Len(old) : ~Of(old[k], x, y)
    BY <1>8, <1>12 DEF An!PlaceOf, Of
  <2>3. Allocated(place, pages', nextFree') /\ ~Allocated(place, pages, nextFree)
    BY <1>6, <1>12
  <2>4. ListOK(l, segment', pair, g, pages', nextFree')
    BY <1>4, <1>5, <1>6, <1>7, <2>2, <2>3, ListGrows
  <2>5. /\ Len(l) = Len(old) + 1 /\ l[Len(old) + 1] = e
        /\ \A k \in 1 .. Len(old) : l[k] = old[k]
    BY <1>8, OneAppended
  <2>6. e.node = place
    OBVIOUS
  <2> HIDE DEF e, l
  \* A node is one that was there, or the new one.
  <2>7. ASSUME NEW p, NEW f, NEW k \in 1 .. Len(NodeList(array', p, f))
        PROVE  \/ /\ k \in 1 .. Len(NodeList(array, p, f))
                  /\ NodeList(array', p, f)[k].node = NodeList(array, p, f)[k].node
                  /\ NodeList(array', p, f)[k].node # place
               \/ /\ p = pair /\ f = g /\ k = Len(old) + 1
                  /\ NodeList(array', p, f)[k].node = place
    <3>1. \A j \in 1 .. Len(NodeList(array, p, f)) : NodeList(array, p, f)[j].node # place
      <4>1. \A j \in 1 .. Len(NodeList(array, p, f)) : Allocated(NodeList(array, p, f)[j].node, pages, nextFree)
        BY <1>9 DEF ListOK, NodeOK
      <4>. QED
        BY <2>3, <4>1
    <3>2. CASE p = pair /\ f = g
      <4>1. NodeList(array', p, f) = l /\ NodeList(array, p, f) = old
        BY <1>11, <2>1, <3>2 DEF old
      <4>2. k \in 1 .. Len(old) \/ k = Len(old) + 1
        BY <1>8, <2>5, <4>1
      <4>. QED
        BY <2>5, <2>6, <3>1, <3>2, <4>1, <4>2
    <3>3. CASE ~(p = pair /\ f = g)
      <4>1. NodeList(array', p, f) = NodeList(array, p, f)
        BY <1>2, <3>3
      <4>. QED
        BY <3>1, <4>1
    <3>. QED
      BY <3>2, <3>3
  <2>8. NodesOwn(array')
    <3>1. ASSUME NEW p, NEW f, NEW q, NEW h, NEW k \in 1 .. Len(NodeList(array', p, f)),
                 NEW j \in 1 .. Len(NodeList(array', q, h)),
                 NodeList(array', p, f)[k].node = NodeList(array', q, h)[j].node
          PROVE  p = q /\ f = h /\ k = j
      <4>1. CASE NodeList(array', p, f)[k].node = place
        <5>1. p = pair /\ f = g /\ k = Len(old) + 1
          BY <2>7, <4>1
        <5>2. NodeList(array', q, h)[j].node = place
          BY <3>1, <4>1
        <5>3. q = pair /\ h = g /\ j = Len(old) + 1
          BY <2>7, <5>2
        <5>. QED
          BY <5>1, <5>3
      <4>2. CASE NodeList(array', p, f)[k].node # place
        <5>1. /\ k \in 1 .. Len(NodeList(array, p, f)) /\ j \in 1 .. Len(NodeList(array, q, h))
              /\ NodeList(array, p, f)[k].node = NodeList(array, q, h)[j].node
          BY <2>7, <3>1, <4>2
        <5>. QED
          BY <5>1 DEF NodesInv, NodesOwn
      <4>. QED
        BY <4>1, <4>2
    <3>. QED
      BY <3>1 DEF NodesOwn
  <2>9. \A p, f : ListOK(NodeList(array', p, f), segment', p, f, pages', nextFree')
    BY <1>10, <1>11, <2>1, <2>4
  <2>. QED
    BY <1>3, <1>6, <2>8, <2>9 DEF NodesInv
<1>13. CASE ~fresh
  <2>1. PICK m \in 1 .. Len(old) : Of(old[m], x, y)
    BY <1>8, <1>13 DEF An!PlaceOf, Of
  <2>2. An!PlaceOf(old, x, y) = {m}
    BY <1>7, <1>8, <2>1 DEF An!PlaceOf, Of, ListOK, Unique
  <2>3. An!Min({m}) = m
    BY <1>8, SmallestOfOne
  <2> DEFINE l == [old EXCEPT ![m].count = @ + 1]
  <2>4. new = l
    BY <2>2, <2>3 DEF An!Counted
  <2>5. pages' = pages /\ nextFree' = nextFree
    BY <1>1, <1>13
  <2>6. /\ ListOK(l, segment', pair, g, pages, nextFree) /\ Len(l) = Len(old)
        /\ \A k \in 1 .. Len(old) : l[k].node = old[k].node
    BY <1>4, <1>5, <1>7, <2>1, ListCounts
  <2> HIDE DEF l
  <2>7. \A p, f : /\ Len(NodeList(array', p, f)) = Len(NodeList(array, p, f))
                  /\ \A k \in 1 .. Len(NodeList(array, p, f)) :
                        NodeList(array', p, f)[k].node = NodeList(array, p, f)[k].node
    BY <1>2, <2>4, <2>6 DEF old
  <2>8. NodesOwn(array')
    BY <2>7 DEF NodesInv, NodesOwn
  <2>9. \A p, f : ListOK(NodeList(array', p, f), segment', p, f, pages', nextFree')
    BY <1>10, <1>11, <2>4, <2>5, <2>6
  <2>. QED
    BY <1>3, <1>6, <2>8, <2>9 DEF NodesInv
<1>. QED
  BY <1>12, <1>13

LEMMA NodesInvNext ==
    ASSUME NodesPerPage \in Nat \ {0}, NodesInv, [An!Next]_(An!vars)
    PROVE  NodesInv'
<1>1. CASE An!Read
  <2>1. PICK c \in Code : An!add_instruction(c)
    BY <1>1 DEF An!Read
  <2>. QED
    BY <2>1, UnrelatedKeeps, RelatedKeeps
<1>2. CASE An!Report \/ UNCHANGED An!vars
  <2>1. UNCHANGED <<segment, cur, array, pages, nextFree>>
    BY <1>2 DEF An!Report, An!vars
  <2>. QED
    BY <2>1 DEF NodesInv
<1>. QED
  BY <1>1, <1>2 DEF An!Next

LEMMA SameCardinality ==
    ASSUME NEW S
    PROVE  An!Cardinality(S) = Cardinality(S)
BY Zenon DEF An!Cardinality, Cardinality, An!IsFiniteSet, IsFiniteSet

LEMMA NodesInvApart ==
    ASSUME NodesPerPage \in Nat \ {0}, NodesInv
    PROVE  An!NodesApart
<1>1. ASSUME NEW p \in DOMAIN array, NEW f \in DOMAIN array[p]
      PROVE  array[p][f] = NodeList(array, p, f)
  BY DEF NodeList, An!ListsOf, An!ListOf
<1>2. ASSUME NEW n \in An!Nodes
      PROVE  \E p, f : \E k \in 1 .. Len(NodeList(array, p, f)) : n = NodeList(array, p, f)[k]
  <2>1. PICK l \in An!Lists : \E k \in DOMAIN l : n = l[k]
    BY DEF An!Nodes
  <2>2. PICK p \in DOMAIN array : \E f \in DOMAIN array[p] : l = array[p][f]
    BY DEF An!Lists
  <2>3. PICK f \in DOMAIN array[p] : l = NodeList(array, p, f)
    BY <1>1, <2>2
  <2>4. DOMAIN l = 1 .. Len(l)
    BY <2>3 DEF NodesInv, ListOK, IsList
  <2>. QED
    BY <2>1, <2>3, <2>4
<1>3. \A n \in An!Nodes : n.node[1] \in 1 .. pages /\ n.node[2] < NodesPerPage
  <2>1. \A n \in An!Nodes : Allocated(n.node, pages, nextFree)
    BY <1>2 DEF NodesInv, ListOK, NodeOK
  <2>. QED
    BY <2>1 DEF Allocated
<1>4. \A n, o \in An!Nodes : n.node = o.node => n = o
  BY <1>2 DEF NodesInv, NodesOwn
<1>5. ASSUME NEW p \in DOMAIN array, NEW f \in DOMAIN array[p], NEW k \in DOMAIN array[p][f]
      PROVE  array[p][f][k].count = An!Occurrences(p, f, array[p][f][k])
  <2> DEFINE l == NodeList(array, p, f)
  <2>1. array[p][f] = l
    BY <1>1
  <2>2. ListOK(l, segment, p, f, pages, nextFree)
    BY DEF NodesInv
  <2>3. ASSUME NEW n PROVE An!Occurrences(p, f, n) = Cardinality(HitPlaces(segment, p, f, n.imm1, n.imm2))
    <3> DEFINE b(j) == IF j = 1 THEN An!Nothing ELSE segment[j - 1]
               c(j) == segment[j]
    <3>1. An!Occurrences(p, f, n) =
            Cardinality({j \in DOMAIN segment :
              /\ <<b(j).mnem, c(j).mnem>> = p /\ An!FlagsOf(b(j), c(j)) = f
              /\ An!Uses(b(j), c(j))
              /\ b(j).imm = n.imm1 /\ c(j).imm = n.imm2})
      BY SameCardinality DEF An!Occurrences
    <3>2. HitPlaces(segment, p, f, n.imm1, n.imm2) = {j \in DOMAIN segment : Hit(b(j), c(j), p, f, n.imm1, n.imm2)}
      BY DEF HitPlaces
    <3> HIDE DEF b, c
    <3>. QED
      BY <3>1, <3>2 DEF Hit
  <2> HIDE DEF l
  <2>4. k \in 1 .. Len(l)
    BY <2>1, <2>2 DEF ListOK, IsList
  <2>5. l[k].count = Cardinality(HitPlaces(segment, p, f, l[k].imm1, l[k].imm2))
    BY <2>2, <2>4 DEF ListOK, NodeOK
  <2>. QED
    BY <2>1, <2>3, <2>5
<1>. QED
  BY <1>3, <1>4, <1>5 DEF An!NodesApart

\* Two nodes of the analyzer never share their memory and lie within a page,
\* and a node counts exactly the pairs of the segment with its mnemonics, flags
\* and immediates, for any segment and any number of nodes on a page
\* (add_instruction, getOrAllocateNode).
THEOREM NodesApartHolds ==
    ASSUME NodesPerPage \in Nat \ {0}
    PROVE  An!Spec => []An!NodesApart
<1>1. An!Init => NodesInv
  BY NodesInvInit
<1>2. NodesInv /\ [An!Next]_(An!vars) => NodesInv'
  BY NodesInvNext
<1>3. NodesInv => An!NodesApart
  BY NodesInvApart
<1>. QED
  BY <1>1, <1>2, <1>3, PTL DEF An!Spec

=============================================================================
