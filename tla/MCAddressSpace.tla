--------------------------- MODULE MCAddressSpace ---------------------------
(***************************************************************************)
(* Small instances of AddressSpace and of GuestStack, one or the other in  *)
(* a behaviour (`part`).  Pages are of two bytes, 14 of them mapped by the *)
(* kernel and two beyond.  The code memory are pages 9 and 10.             *)
(***************************************************************************)
EXTENDS AddressSpace, Sequences

Seg(type, vaddr, memsz) == [type |-> type, vaddr |-> vaddr, memsz |-> memsz]
Load(vaddr, memsz) == Seg("PT_LOAD", vaddr, memsz)

\* One that fits, one that ends within a page, and some that are refused or
\* meet the stack or the code memory.
MCFiles == {<<Load(2, 2)>>, <<Load(3, 2), Load(2, 1), Seg("OTHER", 0, 0)>>,
            <<Load(2, 2), Seg("PT_INTERP", 4, 1)>>, <<Load(2, 21)>>, <<Load(12, 2)>>, <<Load(16, 4)>>}
OneFile == {<<Load(2, 2)>>}

Request(a, len, kind) == [addr |-> a, len |-> len, kind |-> kind]
Hints == {Request(0, 2, "HINT"), Request(20, 2, "HINT"), Request(16, 4, "HINT")}
FixedBelow == {Request(10, 2, "FIXED"), Request(8, 4, "FIXED_NOREPLACE"), Request(20, 2, "FIXED"),
               Request(16, 4, "FIXED_NOREPLACE")}
MCRequests == Hints \cup FixedBelow

\* For runs of a single request: without a hint (above all other memory), and
\* across the limit of the guest.
Anywhere == {Request(0, 2, "HINT")}
Crossing == {Request(16, 4, "FIXED")}

MCMunmaps == {[addr |-> a, len |-> n] : a \in {8, 10, 16, 18}, n \in {2, 14}}
NoMunmaps == {}

-----------------------------------------------------------------------------
(* The stack that the guest starts with.                                   *)

VARIABLES stage, argc, envc, top, stackPos, stack,
          part     \* "space" or "stack"

AuxTypes == <<"AT_EXECFN", "AT_HWCAP2", "AT_HWCAP", "AT_PAGESZ", "AT_SECURE", "AT_RANDOM", "AT_CLKTCK",
              "AT_EUID", "AT_EGID", "AT_GID", "AT_UID", "AT_PHENT", "AT_PHNUM", "AT_PHDR", "AT_ENTRY">>

G == INSTANCE GuestStack WITH MaxArgc <- 5, MaxEnvc <- 5, Tops <- {100, 102}

\* What the theorems about GuestStack assume.
ASSUME StackInstance == G!StackAssumption

startVars == <<stage, argc, envc, top, stackPos, stack>>

InSpace == part = "space" /\ UNCHANGED <<startVars, part>>
InStack == part = "stack" /\ UNCHANGED <<vars, part>>

MCInit ==
    \/ part = "space" /\ Init /\ argc = 1 /\ envc = 0 /\ top = 100 /\ G!Init
    \/ part = "stack" /\ file = <<Load(2, 2)>> /\ stackSize = 2 /\ Init /\ G!Init

MCNext ==
    \/ InSpace /\ mapIntoMemoryFails
    \/ InSpace /\ mapIntoMemory
    \/ InSpace /\ ReadSegment
    \/ InSpace /\ LoadDone
    \/ InSpace /\ allocateStack
    \/ InSpace /\ setupInstrMem
    \/ InSpace /\ Store
    \/ InSpace /\ BrkMapped
    \/ InSpace /\ BrkGrows
    \/ InSpace /\ MmapAnywhere
    \/ InSpace /\ MmapHinted
    \/ InSpace /\ MmapFixed
    \/ InSpace /\ Munmap
    \/ InStack /\ G!PushAuxv
    \/ InStack /\ G!PushEnvp
    \/ InStack /\ G!PushArgv
    \/ InStack /\ G!PushArgc

MCSpec == MCInit /\ [][MCNext]_<<vars, startVars, part>>

\* The stack that copyArgsToStack leaves is what _start looks for (GuestStack).
StackBuilt == G!StackBuilt
=============================================================================
