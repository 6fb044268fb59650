----------------------------- MODULE GuestStack -----------------------------
(***************************************************************************)
(* What the guest finds on its stack (elf/loadElf.c, copyArgsToStack):     *)
(* the arguments, the environment and the auxiliary vector, pushed from    *)
(* the top of the stack down.  Addresses count words of 8 bytes.           *)
(***************************************************************************)
EXTENDS Integers, Sequences

CONSTANTS
    MaxArgc, MaxEnvc,
    Tops,      \* word addresses of the top of the stack
    AuxTypes   \* the entries of the vector below AT_NULL, in memory order

AUXC == 16
NULL == <<"NULL", 0>>
Pointers(name, n) == [i \in 1 .. n |-> <<name, i>>]

\* The code lists all entries but AT_NULL; allocateStack returns whole pages.
StackAssumption ==
    /\ MaxArgc \in Nat /\ MaxEnvc \in Nat
    /\ \A t \in Tops : t \in Int /\ t % 2 = 0
    /\ AuxTypes = [k \in 1 .. AUXC - 1 |-> AuxTypes[k]]

VARIABLES stage, argc, envc, top, stackPos, stack
vars == <<stage, argc, envc, top, stackPos, stack>>

\* What goes on the stack, in words, without the padding.
totalStackSize == 2 * AUXC + (envc + 1) + (argc + 1) + 1

\* Mutant: the stack pointer is aligned before anything is pushed.
NoPadding == 0

stackOffset == (2 - (totalStackSize % 2)) % 2

\* stack is the memory from stackPos on; a push puts words in front of it.
Push(words) ==
    /\ stack' = words \o stack
    /\ stackPos' = stackPos - Len(words)

Init ==
    /\ stage = "auxv"
    /\ argc \in 1 .. MaxArgc /\ envc \in 0 .. MaxEnvc /\ top \in Tops
    /\ stackPos = top - stackOffset
    /\ stack = [i \in 1 .. stackOffset |-> "padding"]

\* Two words for each entry, the last of type AT_NULL.
Entry(k) == IF k \in DOMAIN AuxTypes THEN AuxTypes[k] ELSE "AT_NULL"
auxv == [i \in 1 .. 2 * (Len(AuxTypes) + 1) |->
            IF i % 2 = 1 THEN Entry((i + 1) \div 2) ELSE <<"value", Entry(i \div 2)>>]

\* The number of entries is compared with the one that was reckoned with.
PushAuxv ==
    /\ stage = "auxv"
    /\ IF Len(auxv) = 2 * AUXC
       THEN Push(auxv) /\ stage' = "envp"
       ELSE stage' = "failed" /\ UNCHANGED <<stack, stackPos>>
    /\ UNCHANGED <<argc, envc, top>>

PushEnvp ==
    /\ stage = "envp" /\ stage' = "argv"
    /\ Push(Pointers("envp", envc) \o <<NULL>>)
    /\ UNCHANGED <<argc, envc, top>>

argvWords == Pointers("argv", argc) \o <<NULL>>

PushArgv ==
    /\ stage = "argv" /\ stage' = "argc"
    /\ Push(argvWords)
    /\ UNCHANGED <<argc, envc, top>>

PushArgc ==
    /\ stage = "argc" /\ stage' = "done"
    /\ Push(<<argc>>)
    /\ UNCHANGED <<argc, envc, top>>

Next == PushAuxv \/ PushEnvp \/ PushArgv \/ PushArgc

Spec == Init /\ [][Next]_vars

-----------------------------------------------------------------------------
(* What a guest's _start makes of it.                                      *)

\* Everything between the stack pointer and the top has been written.
TypeOK ==
    /\ stage \in {"auxv", "envp", "argv", "argc", "done", "failed"}
    /\ argc \in 1 .. MaxArgc /\ envc \in 0 .. MaxEnvc
    /\ stackPos + Len(stack) = top

\* The words from k up to the first NULL, as an index.
EndOf(k) == CHOOSE n \in k .. Len(stack) :
    stack[n] = NULL /\ \A j \in k .. n - 1 : stack[j] # NULL
EnvpAt == stack[1] + 3
AuxvAt == EndOf(EnvpAt) + 1

\* A guest that starts at sp finds argc, argv and envp with their terminators,
\* and behind them the auxiliary vector, up to AT_NULL (the ABI of _start;
\* "Copy guestArgv to guest stack", "Add auxv to guest stack").
StartFinds == stage = "done" =>
    /\ stack[1] = argc
    /\ EndOf(2) = argc + 2 /\ SubSeq(stack, 2, argc + 1) = Pointers("argv", argc)
    /\ EndOf(EnvpAt) = EnvpAt + envc
    /\ SubSeq(stack, EnvpAt, EnvpAt + envc - 1) = Pointers("envp", envc)
    /\ \A i \in DOMAIN AuxTypes :
          /\ stack[AuxvAt + 2 * (i - 1)] = AuxTypes[i]
          /\ stack[AuxvAt + 2 * i - 1] = <<"value", AuxTypes[i]>>
    /\ stack[AuxvAt + 2 * Len(AuxTypes)] = "AT_NULL"

\* The stack pointer the guest starts with is 16 byte aligned, for every number
\* of arguments and variables ("the 16-Byte aligned address of the start stack
\* pointer", loadElf.h).
StackAligned == stage = "done" => stackPos % 2 = 0

\* The stack is completed as the ABI of _start asks, for every number of
\* arguments and variables: every list terminated where the next is looked for,
\* the pointer 16 byte aligned, as many auxiliary entries as were reckoned with
\* (copyArgsToStack).
StackBuilt == StartFinds /\ StackAligned /\ stage # "failed"
=============================================================================
