----------------------------- MODULE SystemCalls -----------------------------
(***************************************************************************)
(* The guest's system calls (runtime/emulateEcall.c) but for brk, mmap and *)
(* munmap, which are in AddressSpace: a table from the guest's numbers to  *)
(* host calls, the two that fill a record of another layout, the ones the  *)
(* translator answers itself, and the end of the program.                  *)
(*                                                                         *)
(* The kernel may answer anything.                                         *)
(***************************************************************************)
EXTENDS Integers, Sequences

CONSTANTS
    Arguments,  \* what a guest has in a0 to a5: sequences of six values
    Pointers,   \* values that are addresses of a stat record in the guest's memory
    Results,    \* what the kernel returns: errors are negative
    Files       \* what there is to know about a file, by name

ENOSYS == 38
BUF == -1         \* the address of a record on the translator's stack

VARIABLES
    phase,      \* "guest", "ecall", "loop", "ended", "replaced", "killed"
    regs,       \* a0 to a5, a7 and the pc
    asked,      \* the request of the last ECALL: the host call, its arguments, its result
    memory,     \* the guest's stat records
    finalize, guest_exit_status

vars == <<phase, regs, asked, memory, finalize, guest_exit_status>>

ArgRegs == <<"a0", "a1", "a2", "a3", "a4", "a5">>

\* Mutant: the fourth argument of a host call is not where a function's is.
ArgsInRcx(n) == [k \in 1 .. n |-> IF k = 4 THEN 0 ELSE regs[ArgRegs[k]]]

\* syscall0 to syscall6
Args(n) == [k \in 1 .. n |-> regs[ArgRegs[k]]]

-----------------------------------------------------------------------------
(* The table: the guest's number, the host's call and how many registers   *)
(* are handed on.                                                          *)

Fs == {
    <<17, "getcwd", 2>>, <<25, "fcntl", 3>>, <<29, "ioctl", 3>>, <<35, "unlinkat", 3>>,
    <<46, "ftruncate", 2>>, <<48, "faccessat", 4>>, <<49, "chdir", 1>>,
    <<52, "fchmod", 2>>, <<55, "fchown", 3>>, <<56, "openat", 4>>, <<57, "close", 1>>,
    <<59, "pipe2", 2>>, <<61, "getdents64", 3>>, <<62, "lseek", 3>>, <<63, "read", 3>>,
    <<64, "write", 3>>, <<66, "writev", 3>>, <<78, "readlinkat", 4>>,
    <<88, "utimensat", 4>>, <<276, "renameat2", 5>>}

Process == {
    <<96, "set_tid_address", 1>>, <<98, "futex", 6>>, <<99, "set_robust_list", 2>>,
    <<113, "clock_gettime", 2>>, <<131, "tgkill", 3>>, <<135, "rt_sigprocmask", 4>>,
    <<160, "uname", 1>>, <<169, "gettimeofday", 2>>, <<172, "getpid", 0>>,
    <<174, "getuid", 0>>, <<175, "geteuid", 0>>, <<176, "getgid", 0>>,
    <<177, "getegid", 0>>, <<178, "gettid", 0>>, <<179, "sysinfo", 1>>,
    <<221, "execve", 3>>, <<260, "wait4", 4>>, <<261, "prlimit64", 4>>,
    <<278, "getrandom", 3>>}

Forwarded == Fs \cup Process

fstatat == 79
fstat == 80
exit == 93
exit_group == 94
rt_sigaction == 134
Unknown == 220       \* clone, for one

Numbers == {c[1] : c \in Forwarded} \cup {fstatat, fstat, exit, exit_group, rt_sigaction, Unknown}

-----------------------------------------------------------------------------
(* statRiscV and what is copied to it from the host's struct stat.         *)

Copied == {"st_dev", "st_ino", "st_mode", "st_nlink", "st_uid", "st_gid", "st_rdev", "st_size",
           "st_blksize", "st_blocks", "st_atim", "st_atime_nsec", "st_mtim", "st_mtime_nsec",
           "st_ctim", "st_ctime_nsec"}
statRiscV == Copied \cup {"__pad1", "__pad2", "__unused4", "__unused5"}

\* The host's record: zero until the kernel fills it.
Zeroes == [f \in Copied |-> <<"zero", f>>]
Filled(file) == [f \in Copied |-> <<file, f>>]

CopyTo(p, buf) == [memory EXCEPT ![p] = [f \in statRiscV |-> IF f \in Copied THEN buf[f] ELSE @[f]]]

-----------------------------------------------------------------------------
Nothing == [name |-> "", args |-> <<>>, result |-> 0]

Init ==
    /\ phase = "guest"
    /\ regs = [r \in {ArgRegs[k] : k \in 1 .. 6} \cup {"a7", "pc"} |-> 0]
    /\ asked = Nothing
    /\ memory = [p \in Pointers |-> [f \in statRiscV |-> <<"own", f>>]]
    /\ finalize = FALSE /\ guest_exit_status = 0

\* The guest fills the registers and executes ECALL at address 0 or 4.
GuestCalls == \E n \in Numbers, a \in Arguments, addr \in {0, 4} :
    /\ phase = "guest"
    /\ phase' = "ecall"
    /\ regs' = [r \in DOMAIN regs |->
                   IF r = "a7" THEN n ELSE IF r = "pc" THEN addr
                   ELSE a[CHOOSE k \in 1 .. 6 : ArgRegs[k] = r]]
    /\ asked' = Nothing
    /\ UNCHANGED <<memory, finalize, guest_exit_status>>

\* The pc is raised first; every case but the last ones sets a0.
Return(value) == regs' = [regs EXCEPT !["pc"] = @ + 4, !["a0"] = value]
Ask(name, args, result) == asked' = [name |-> name, args |-> args, result |-> result]

Forward == \E c \in Forwarded, result \in Results :
    /\ phase = "ecall"
    /\ regs["a7"] = c[1]
    /\ Ask(c[2], Args(c[3]), result)
    /\ Return(result)
    /\ phase' = IF c[2] = "execve" /\ result >= 0 THEN "replaced" ELSE "loop"
    /\ UNCHANGED <<memory, finalize, guest_exit_status>>

\* Mutant: fstat's register for both.
StatPointerFirst(n) == regs["a1"]

StatPointer(n) == IF n = fstatat THEN regs["a2"] ELSE regs["a1"]

\* The kernel writes a record of the translator's, which is copied then,
\* whatever the result.
Stat == \E result \in Results, file \in Files :
    LET n == regs["a7"]
        buf == IF result >= 0 THEN Filled(file) ELSE Zeroes
    IN  /\ phase = "ecall"
        /\ n \in {fstatat, fstat}
        /\ StatPointer(n) \in Pointers
        /\ IF n = fstatat
           THEN Ask("newfstatat", <<regs["a0"], regs["a1"], BUF, regs["a3"]>>, result)
           ELSE Ask("fstat", <<regs["a0"], BUF>>, result)
        /\ memory' = CopyTo(StatPointer(n), buf)
        /\ Return(result)
        /\ phase' = "loop"
        /\ UNCHANGED <<finalize, guest_exit_status>>

\* The translator itself writes through a pointer that is none.
StatFaults ==
    /\ phase = "ecall"
    /\ regs["a7"] \in {fstatat, fstat}
    /\ StatPointer(regs["a7"]) \notin Pointers
    /\ phase' = "killed"
    /\ UNCHANGED <<regs, asked, memory, finalize, guest_exit_status>>

\* Mutant: the end of a thread is not the end of the program.
ExitOfGroup == {exit_group}

ExitCalls == {exit, exit_group}

Exit ==
    /\ phase = "ecall"
    /\ regs["a7"] \in {exit, exit_group}
    /\ guest_exit_status' = regs["a0"]
    /\ finalize' = (regs["a7"] \in ExitCalls)
    /\ regs' = [regs EXCEPT !["pc"] = @ + 4]
    /\ phase' = "loop"
    /\ UNCHANGED <<asked, memory>>

rt_sigactionIgnored ==
    /\ phase = "ecall"
    /\ regs["a7"] = rt_sigaction
    /\ Return(0)
    /\ phase' = "loop"
    /\ UNCHANGED <<asked, memory, finalize, guest_exit_status>>

NotImplemented ==
    /\ phase = "ecall"
    /\ regs["a7"] \notin Numbers \ {Unknown}
    /\ Return(-ENOSYS)
    /\ phase' = "loop"
    /\ UNCHANGED <<asked, memory, finalize, guest_exit_status>>

\* The block returns to transcode_loop, which goes on from the pc or ends.
transcode_loop ==
    /\ phase = "loop"
    /\ phase' = IF finalize THEN "ended" ELSE "guest"
    /\ UNCHANGED <<regs, asked, memory, finalize, guest_exit_status>>

emulate_ecall == Forward \/ Stat \/ StatFaults \/ Exit \/ rt_sigactionIgnored \/ NotImplemented

Next == GuestCalls \/ emulate_ecall \/ transcode_loop

Spec == Init /\ [][Next]_vars
FairSpec == Spec /\ WF_vars(emulate_ecall \/ transcode_loop)

-----------------------------------------------------------------------------
(* Properties.                                                             *)

TypeOK ==
    /\ phase \in {"guest", "ecall", "loop", "ended", "replaced", "killed"}
    /\ \A r \in DOMAIN regs \ {"a0", "a7", "pc"} : \E a \in Arguments, k \in 1 .. 6 : regs[r] \in {0, a[k]}
    /\ regs["pc"] \in {0, 4, 8}
    /\ asked.name \in {"", "newfstatat", "fstat"} \cup {c[2] : c \in Forwarded}
    /\ asked.result \in Results \cup {0}
    /\ \A p \in Pointers, f \in statRiscV :
          memory[p][f] \in {"own", "zero"} \X {f} \cup Files \X {f}
    /\ finalize \in BOOLEAN

\* The calls of Linux on RISC-V: number, name, number of parameters.
Abi == {
    <<17, "getcwd", 2>>, <<25, "fcntl", 3>>, <<29, "ioctl", 3>>, <<35, "unlinkat", 3>>,
    <<46, "ftruncate", 2>>, <<48, "faccessat", 3>>, <<49, "chdir", 1>>, <<52, "fchmod", 2>>,
    <<55, "fchown", 3>>, <<56, "openat", 4>>, <<57, "close", 1>>, <<59, "pipe2", 2>>,
    <<61, "getdents64", 3>>, <<62, "lseek", 3>>, <<63, "read", 3>>, <<64, "write", 3>>,
    <<66, "writev", 3>>, <<78, "readlinkat", 4>>, <<88, "utimensat", 4>>,
    <<96, "set_tid_address", 1>>, <<98, "futex", 6>>, <<99, "set_robust_list", 2>>,
    <<113, "clock_gettime", 2>>, <<131, "tgkill", 3>>, <<135, "rt_sigprocmask", 4>>,
    <<160, "uname", 1>>, <<169, "gettimeofday", 2>>, <<172, "getpid", 0>>, <<174, "getuid", 0>>,
    <<175, "geteuid", 0>>, <<176, "getgid", 0>>, <<177, "getegid", 0>>, <<178, "gettid", 0>>,
    <<179, "sysinfo", 1>>, <<221, "execve", 3>>, <<260, "wait4", 4>>, <<261, "prlimit64", 4>>,
    <<276, "renameat2", 5>>, <<278, "getrandom", 3>>}

\* A call of the guest is the same call of the host, with every argument the
\* call has; its result is the guest's, and the guest goes on behind the ECALL
\* with its other registers and memory unchanged (the cases of emulate_ecall).
CallsAsAsked == [][
    phase = "ecall" => \A c \in Abi : regs["a7"] = c[1] =>
        /\ asked'.name = c[2]
        /\ \A k \in 1 .. c[3] : asked'.args[k] = regs[ArgRegs[k]]
        /\ regs' = [regs EXCEPT !["a0"] = asked'.result, !["pc"] = @ + 4]
        /\ UNCHANGED <<memory, finalize>>]_vars

\* fstat and fstatat fill the record the guest named with what the kernel knows
\* of the file, in the guest's layout, and no other record (cases 79 and 80).
StatFilled == [][
    phase = "ecall" /\ regs["a7"] \in {fstatat, fstat} /\ phase' = "loop" /\ asked'.result >= 0 =>
        LET p == regs[IF regs["a7"] = fstatat THEN "a2" ELSE "a1"]
        IN  /\ \E file \in Files : \A f \in Copied : memory'[p][f] = <<file, f>>
            /\ \A q \in Pointers \ {p} : memory'[q] = memory[q]]_vars

\* A program that exits ends, with the status it gave, and its registers are
\* not touched any more (cases 93 and 94, "note the guest exit code and stop
\* main loop").
ExitEnds ==
    phase = "ecall" /\ regs["a7"] \in {exit, exit_group}
        ~> [](phase = "ended" /\ guest_exit_status = regs["a0"])

\* A call that fails leaves the guest's memory alone: fstat is supported as the
\* kernel's (CHANGELOG.md, "We currently support the system calls").
FailedStatKeeps == [][
    phase = "ecall" /\ asked'.result < 0 /\ phase' = "loop" => memory' = memory]_vars
=============================================================================
