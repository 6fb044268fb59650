---------------------------- MODULE AddressSpace ----------------------------
(***************************************************************************)
(* One address space for guest and translator: the ELF loader              *)
(* (elf/loadElf.c), the setup in main.c, and the guest's brk, mmap and     *)
(* munmap (runtime/emulateEcall.c).                                        *)
(*                                                                         *)
(* From below: the guest's segments, its heap, what it maps, its stack,    *)
(* the memory for translated code from Limit to BASE, the translator.      *)
(* A page has PAGE bytes; who owns it is the kernel's knowledge.           *)
(***************************************************************************)
EXTENDS Integers, FiniteSets, Sequences, FiniteSetsExt

CONSTANTS
    PAGE,           \* 4096
    SPACE,          \* 2^64: addresses are computed modulo SPACE
    TASK_SIZE,      \* the end of what the kernel maps for a process
    TRANSLATOR_BASE, STACK_OFFSET,
    HostPages,      \* the translator's own pages
    StackSizes,     \* what RLIMIT_STACK may be
    Files,          \* executables: sequences of [type, vaddr, memsz]
    BrkRequests,    \* arguments of brk
    MmapRequests,   \* arguments [addr, len, kind] of mmap
    MunmapRequests  \* arguments [addr, len] of munmap

Limit == TRANSLATOR_BASE - STACK_OFFSET
guard == PAGE

ASSUME LayoutAssumption ==
    /\ PAGE \in Nat \ {0}
    /\ \A n \in {SPACE, TASK_SIZE, TRANSLATOR_BASE, STACK_OFFSET} : n \in Nat /\ n % PAGE = 0
    /\ 0 < STACK_OFFSET /\ STACK_OFFSET < TRANSLATOR_BASE
    /\ TRANSLATOR_BASE < TASK_SIZE /\ TASK_SIZE < SPACE

ASSUME RequestsAssumption ==
    /\ StackSizes \subseteq Nat
    /\ \A f \in Files : \A i \in DOMAIN f : f[i].vaddr \in Nat /\ f[i].memsz \in Nat
    /\ BrkRequests \subseteq 0 .. SPACE - 1
    /\ \A q \in MmapRequests \cup MunmapRequests : q.addr \in 0 .. SPACE - 1 /\ q.len \in 0 .. SPACE - 1
    /\ \A q \in MmapRequests : q.kind \in {"HINT", "FIXED", "FIXED_NOREPLACE"}

Pages == 1 .. (TASK_SIZE \div PAGE) - 1       \* nothing is mapped at 0
Owners == {"free", "elf", "brk", "map", "stack", "host"}
A(n) == n % SPACE
ALIGN_DOWN(a) == a - (a % PAGE)

ALIGN_UP(a) == ALIGN_DOWN(A(a + PAGE - 1))

VARIABLES
    phase,    \* "map", "read", "stack", "code", "run", "stopped"
    file, next,       \* the executable and the segment read next
    content,  \* the segments whose bytes are in memory
    owner,    \* of a page
    dirty,    \* the addresses of heap bytes that are not zero
    curBrk, initialBrk, mappedBrk, lastHint, stackSize

vars == <<phase, file, next, content, owner, dirty, curBrk, initialBrk, mappedBrk, lastHint, stackSize>>
brk == <<curBrk, initialBrk, mappedBrk>>
loading == <<file, next, content>>

-----------------------------------------------------------------------------
(* The kernel.  A mapping that does not fit where it was asked for is put  *)
(* elsewhere, or refused; 0 stands for an error.                           *)

Span(a, len) == {p \in Pages : p * PAGE >= a /\ p * PAGE < a + len}
Fits(a, len) == a % PAGE = 0 /\ len > 0 /\ a >= PAGE /\ a + len <= TASK_SIZE
IsFree(a, len) == \A p \in Span(a, len) : owner[p] = "free"
Elsewhere(len) == {p * PAGE : p \in {q \in Pages : Fits(q * PAGE, len) /\ IsFree(q * PAGE, len)}}

\* Where mmap may map.  A kernel that does not know MAP_FIXED_NOREPLACE takes
\* the address for a hint.
Mapped(a, len, kind) ==
    IF len = 0 \/ len > TASK_SIZE THEN {0}
    ELSE IF Fits(a, len) /\ (kind = "FIXED" \/ IsFree(a, len)) THEN {a, 0}
    ELSE IF kind = "FIXED" THEN {0}
    ELSE IF kind = "FIXED_NOREPLACE" /\ ~Fits(a, len) THEN {0}
    ELSE {0} \cup Elsewhere(len)

Take(a, len, who) == [p \in Pages |-> IF p \in Span(a, len) THEN who ELSE owner[p]]

-----------------------------------------------------------------------------
(* Startup.                                                                *)

Init ==
    /\ phase = "map"
    /\ file \in Files /\ next = 1 /\ content = {}
    /\ owner = [p \in Pages |-> IF p \in HostPages THEN "host" ELSE "free"]
    /\ dirty = {}
    /\ curBrk = 0 /\ initialBrk = 0 /\ mappedBrk = 0
    /\ lastHint = 0
    /\ stackSize \in StackSizes

Loads == {i \in DOMAIN file : file[i].type = "PT_LOAD"}
End(i) == file[i].vaddr + file[i].memsz

\* 0 stands for "none yet": an address 0 does not count as the smallest.
minAddr == LET s == {file[i].vaddr : i \in Loads} \ {0} IN IF s = {} THEN 0 ELSE Min(s)
maxAddr == LET s == {End(i) : i \in Loads} IN IF s = {} THEN 0 ELSE Max(s)

Refused ==
    \/ \E i \in Loads : End(i) > TRANSLATOR_BASE
    \/ \E i \in DOMAIN file : file[i].type = "PT_INTERP"

mapIntoMemoryFails ==
    /\ phase = "map"
    /\ phase' = "stopped"
    /\ UNCHANGED <<loading, owner, dirty, brk, lastHint, stackSize>>

\* One mapping for all segments, then setupBrk behind it.
mapIntoMemory ==
    LET start == ALIGN_DOWN(minAddr)
        end == ALIGN_UP(maxAddr)
    IN  /\ phase = "map" /\ ~Refused
        /\ start \in Mapped(start, A(end - start), "FIXED_NOREPLACE") /\ start # 0
        /\ owner' = Take(start, end - start, "elf")
        /\ curBrk' = end /\ initialBrk' = end /\ mappedBrk' = end
        /\ phase' = "read"
        /\ UNCHANGED <<loading, dirty, lastHint, stackSize>>

\* The result of reading a segment is not looked at.
ReadSegment ==
    /\ phase = "read" /\ next <= Len(file)
    /\ \E read \in BOOLEAN :
          content' = IF next \in Loads /\ read THEN content \cup {next} ELSE content
    /\ next' = next + 1
    /\ UNCHANGED <<phase, file, owner, dirty, brk, lastHint, stackSize>>

LoadDone ==
    /\ phase = "read" /\ next > Len(file)
    /\ phase' = "stack"
    /\ UNCHANGED <<loading, owner, dirty, brk, lastHint, stackSize>>

\* The lowest page of the stack is the guard.
stackStart == A(Limit - (stackSize + guard + PAGE))

allocateStack ==
    /\ phase = "stack"
    /\ \E r \in Mapped(stackStart, stackSize + guard, "FIXED_NOREPLACE") :
          IF r = stackStart /\ r # 0
          THEN phase' = "code" /\ owner' = Take(r, stackSize + guard, "stack")
          ELSE phase' = "stopped" /\ UNCHANGED owner
    /\ UNCHANGED <<loading, dirty, brk, lastHint, stackSize>>

setupMmapHint == A(Limit - stackSize - guard)

\* The code memory, and main.c's last step before the loop.
setupInstrMem ==
    /\ phase = "code"
    /\ \E r \in Mapped(Limit, STACK_OFFSET, "FIXED_NOREPLACE") :
          IF r = Limit
          THEN /\ phase' = "run" /\ owner' = Take(r, STACK_OFFSET, "host")
               /\ lastHint' = setupMmapHint
          ELSE phase' = "stopped" /\ UNCHANGED <<owner, lastHint>>
    /\ UNCHANGED <<loading, dirty, brk, stackSize>>

-----------------------------------------------------------------------------
(* The guest runs.  It unmaps and replaces only what it has mapped itself  *)
(* (or what is not its own).                                               *)

Store == \E p \in {q \in Pages : owner[q] = "brk"}, k \in 0 .. PAGE - 1 :
    /\ phase = "run"
    /\ dirty' = dirty \cup {p * PAGE + k}
    /\ UNCHANGED <<phase, loading, owner, brk, lastHint, stackSize>>

\* Mutant: only the new pages are zero.
NothingCleared(from, to) == dirty

\* memset(from, 0, to - from)
Cleared(from, to) == dirty \ (from .. to - 1)

BrkMapped == \E b \in BrkRequests :
    /\ phase = "run"
    /\ initialBrk <= b /\ b <= mappedBrk
    /\ dirty' = Cleared(curBrk, b)
    /\ curBrk' = b
    /\ UNCHANGED <<phase, loading, owner, initialBrk, mappedBrk, lastHint, stackSize>>

\* Mutant: the break may replace what is mapped behind it.
Replacing == "FIXED"

BrkKind == "FIXED_NOREPLACE"

BrkGrows == \E b \in BrkRequests :
    LET newMappedBrk == ALIGN_UP(b)
        len == A(newMappedBrk - mappedBrk)
    IN  /\ phase = "run"
        /\ b > mappedBrk
        /\ \E r \in Mapped(mappedBrk, len, BrkKind) :
              IF r = mappedBrk
              THEN /\ owner' = Take(r, len, "brk")
                   /\ dirty' = Cleared(curBrk, mappedBrk)
                   /\ mappedBrk' = newMappedBrk /\ curBrk' = b
              ELSE UNCHANGED <<owner, dirty, mappedBrk, curBrk>>  \* unmapped again
        /\ UNCHANGED <<phase, loading, initialBrk, lastHint, stackSize>>

\* A mapping by the kernel; pages the guest replaces are its own or not the guest's.
GuestMaps(a, len, kind) ==
    /\ kind = "FIXED" => \A p \in Span(a, len) : owner[p] \in {"free", "map", "host"}
    /\ \E r \in Mapped(a, len, kind) : owner' = IF r = 0 THEN owner ELSE Take(r, len, "map")

InTranslator(a) == a > Limit

MmapAnywhere == \E q \in MmapRequests :
    LET hint == ALIGN_DOWN(A(lastHint - q.len))
    IN  /\ phase = "run"
        /\ q.kind = "HINT" /\ (q.addr = 0 \/ InTranslator(q.addr))
        /\ GuestMaps(hint, q.len, "HINT")
        /\ lastHint' = hint
        /\ UNCHANGED <<phase, loading, dirty, brk, stackSize>>

MmapHinted == \E q \in MmapRequests :
    /\ phase = "run"
    /\ q.kind = "HINT" /\ q.addr # 0 /\ ~InTranslator(q.addr)
    /\ GuestMaps(q.addr, q.len, "HINT")
    /\ UNCHANGED <<phase, loading, dirty, brk, lastHint, stackSize>>

\* One that starts in the translator's region is refused.
MmapFixed == \E q \in MmapRequests :
    /\ phase = "run"
    /\ q.kind # "HINT" /\ ~InTranslator(q.addr)
    /\ GuestMaps(q.addr, q.len, q.kind)
    /\ UNCHANGED <<phase, loading, dirty, brk, lastHint, stackSize>>

\* Mutant: only the start of the range is compared.
StartInTranslator(a, len) == InTranslator(a)

ReachesTranslator(a, len) == A(a + len) > Limit

\* The kernel refuses what does not fit, the translator what ends in its region.
Munmap == \E q \in MunmapRequests :
    /\ phase = "run"
    /\ ~ReachesTranslator(q.addr, q.len)
    /\ Fits(q.addr, q.len)
    /\ \A p \in Span(q.addr, q.len) : owner[p] \in {"free", "map", "host"}
    /\ owner' = Take(q.addr, q.len, "free")
    /\ UNCHANGED <<phase, loading, dirty, brk, lastHint, stackSize>>

Next ==
    \/ mapIntoMemoryFails \/ mapIntoMemory \/ ReadSegment \/ LoadDone
    \/ allocateStack \/ setupInstrMem
    \/ Store \/ BrkMapped \/ BrkGrows
    \/ MmapAnywhere \/ MmapHinted \/ MmapFixed \/ Munmap

Spec == Init /\ [][Next]_vars

-----------------------------------------------------------------------------
(* Properties.                                                             *)

Heap == {p \in Pages : initialBrk <= p * PAGE /\ p * PAGE < mappedBrk}

\* The break is page-aligned where it is mapped up to, and the heap is exactly
\* the pages below (emulateEcall.c, case 214).
TypeOK ==
    /\ phase \in {"map", "read", "stack", "code", "run", "stopped"}
    /\ owner \in [Pages -> Owners]
    /\ content \subseteq Loads
    /\ initialBrk % PAGE = 0 /\ mappedBrk % PAGE = 0
    /\ initialBrk <= curBrk /\ curBrk <= mappedBrk /\ mappedBrk <= TASK_SIZE
    /\ lastHint \in 0 .. SPACE - 1
    /\ {p \in Pages : owner[p] = "brk"} = Heap

\* When the break is raised, the guest finds zeroes in what it gets, whatever it
\* wrote there before it lowered the break, and its data below it unchanged
\* (emulateEcall.c, case 214: "Need to zero already allocated pages").
HeapGrowth == [][
    curBrk' # curBrk /\ phase = "run" =>
        /\ \A a \in curBrk .. curBrk' - 1 : a \notin dirty' /\ owner'[a \div PAGE] = "brk"
        /\ \A a \in initialBrk .. curBrk - 1 : a < curBrk' => (a \in dirty <=> a \in dirty')]_vars

\* No call of the guest takes memory from the translator: its own pages, the
\* code memory (the comparisons with TRANSLATOR_BASE - STACK_OFFSET, the
\* comment "Fixed mapping that does not interfere with translator region").
TranslatorKept ==
    /\ \A p \in HostPages : owner[p] = "host"
    /\ phase = "run" => \A p \in Span(Limit, STACK_OFFSET) : owner[p] = "host"

\* Segments, heap, stack stay the guest's while it runs, and a mapping stays a
\* mapping or is unmapped: the heap never grows into any of them (brk fails
\* instead), no mapping is put over them.
GuestKept == [][
    phase = "run" => \A p \in Pages :
        /\ owner[p] \in {"elf", "stack", "brk"} => owner'[p] = owner[p]
        /\ owner[p] = "map" => owner'[p] \in {"map", "free"}]_vars

FreeBelow == \E p \in Pages : owner[p] = "free" /\ mappedBrk < p * PAGE /\ p * PAGE < stackStart

\* As long as there is room, mmap without an address maps below the translator,
\* where the guest can unmap it again ("hint to top of guest space").
MapsInGuestSpace == [][
    FreeBelow => \A p \in Pages : owner'[p] = "map" => owner[p] = "map" \/ p * PAGE < Limit]_vars

\* Once loading has succeeded the segments' bytes are in memory ("Maps all LOAD
\* segments of the ELF file").
SegmentsLoaded == phase \in {"stack", "code", "run"} => content = Loads
=============================================================================
