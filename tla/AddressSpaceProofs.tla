-------------------------- MODULE AddressSpaceProofs --------------------------
(***************************************************************************)
(* Theorems about AddressSpace, for any page size, layout, executable and  *)
(* requests: the heap is exactly the pages up to the mapped break and is   *)
(* zero where it grows; the guest keeps what it has; and, when no fixed    *)
(* mapping crosses the boundary, so does the translator.  GuestStack (G)   *)
(* builds what _start looks for, whatever the arguments.                   *)
(***************************************************************************)
EXTENDS AddressSpace, Sequences, WellFoundedInduction, TLAPS

-----------------------------------------------------------------------------
(* Pages and remainders.                                                   *)

\* What the layout says of the constants.
LEMMA Layout ==
    /\ PAGE \in Nat /\ PAGE > 0 /\ SPACE \in Nat /\ SPACE > 0
    /\ TASK_SIZE \in Nat /\ TASK_SIZE < SPACE /\ TRANSLATOR_BASE \in Nat /\ TRANSLATOR_BASE < TASK_SIZE
    /\ STACK_OFFSET \in Nat /\ STACK_OFFSET > 0
    /\ Limit \in Nat /\ 0 < Limit /\ Limit < TASK_SIZE
    /\ TASK_SIZE % PAGE = 0
  BY LayoutAssumption DEF Limit

\* Addresses are computed modulo SPACE.
LEMMA Wrapped ==
  ASSUME NEW n \in Int
  PROVE  /\ A(n) \in 0 .. SPACE - 1
         /\ n \in 0 .. SPACE - 1 => A(n) = n
         /\ -SPACE < n /\ n < 0 => A(n) = n + SPACE
         /\ SPACE <= n /\ n < 2 * SPACE => A(n) = n - SPACE
  BY Layout DEF A

\* Rounding down gives the multiple of PAGE at or below.
LEMMA Down ==
  ASSUME NEW n \in Nat
  PROVE  /\ ALIGN_DOWN(n) \in Nat
         /\ ALIGN_DOWN(n) % PAGE = 0
         /\ ALIGN_DOWN(n) <= n /\ n < ALIGN_DOWN(n) + PAGE
         /\ n < PAGE => ALIGN_DOWN(n) = 0
<1>1. n = PAGE * (n \div PAGE) + (n % PAGE) /\ n \div PAGE \in Int
  BY Layout
<1>2. ALIGN_DOWN(n) = PAGE * (n \div PAGE)
  BY <1>1, Layout DEF ALIGN_DOWN
<1>3. n % PAGE \in 0 .. PAGE - 1 /\ (n < PAGE => n % PAGE = n)
  BY Layout
<1>4. (PAGE * (n \div PAGE)) % PAGE = 0
  BY <1>1, Layout
<1>5. n \div PAGE \in Nat
  BY Layout
<1>6. ALIGN_DOWN(n) \in Nat
  BY <1>2, <1>5, Layout
<1>7. ALIGN_DOWN(n) <= n /\ n < ALIGN_DOWN(n) + PAGE
  BY <1>3, Layout DEF ALIGN_DOWN
<1>8. n < PAGE => ALIGN_DOWN(n) = 0
  BY <1>3 DEF ALIGN_DOWN
<1> QED
  BY <1>2, <1>4, <1>6, <1>7, <1>8

\* Rounding an address up gives a multiple at or above it, or 0 at the end of
\* the address space.
LEMMA Up ==
  ASSUME NEW b \in 0 .. SPACE - 1
  PROVE  /\ ALIGN_UP(b) \in 0 .. SPACE - 1
         /\ ALIGN_UP(b) % PAGE = 0
         /\ b <= ALIGN_UP(b) \/ ALIGN_UP(b) = 0
<1> DEFINE x == A(b + PAGE - 1)
<1>0. b + PAGE - 1 \in Nat /\ PAGE <= SPACE
  <2>1. SPACE % PAGE = 0 /\ (SPACE < PAGE => SPACE % PAGE = SPACE)
    BY LayoutAssumption, Layout
  <2> QED
    BY <2>1, Layout
<1>1. x \in 0 .. SPACE - 1
  BY <1>0, Wrapped
<1>2. ALIGN_UP(b) = ALIGN_DOWN(x)
  BY DEF ALIGN_UP
<1>3. CASE b + PAGE - 1 < SPACE
  <2>1. x = b + PAGE - 1 /\ x \in Nat
    BY <1>0, <1>3, Wrapped, Layout
  <2> HIDE DEF x
  <2>2. ALIGN_DOWN(x) \in Nat /\ ALIGN_DOWN(x) % PAGE = 0 /\ ALIGN_DOWN(x) <= x /\ x < ALIGN_DOWN(x) + PAGE
    BY <2>1, Down
  <2> QED
    BY <1>1, <1>2, <2>1, <2>2, Layout
<1>4. CASE b + PAGE - 1 >= SPACE
  <2>1. x = b + PAGE - 1 - SPACE
    BY <1>0, <1>4, Wrapped, Layout
  <2>2. x < PAGE /\ x \in Nat
    BY <2>1, <1>1, Layout
  <2> HIDE DEF x
  <2>3. ALIGN_DOWN(x) = 0 /\ ALIGN_DOWN(x) % PAGE = 0
    BY <2>2, Down
  <2> QED
    BY <1>2, <2>3, Layout
<1> QED
  BY <1>0, <1>3, <1>4, Layout

\* The page of an address.
LEMMA PageOf ==
  ASSUME NEW a \in Nat, PAGE <= a, a < TASK_SIZE
  PROVE  /\ a \div PAGE \in Pages
         /\ (a \div PAGE) * PAGE <= a /\ a < (a \div PAGE) * PAGE + PAGE
<1>1. a = PAGE * (a \div PAGE) + (a % PAGE) /\ a \div PAGE \in Nat /\ a % PAGE \in 0 .. PAGE - 1
  BY Layout
<1>2. TASK_SIZE = PAGE * (TASK_SIZE \div PAGE) /\ TASK_SIZE \div PAGE \in Nat
  BY Layout
<1>3. a \div PAGE >= 1
  BY <1>1, Layout
<1>4. a \div PAGE < TASK_SIZE \div PAGE
  BY <1>1, <1>2, Layout
<1> QED
  BY <1>1, <1>2, <1>3, <1>4, Layout DEF Pages

\* Nothing lies between two multiples of PAGE that follow each other.
LEMMA Multiples ==
  ASSUME NEW m \in Nat, NEW n \in Nat, m % PAGE = 0, n % PAGE = 0
  PROVE  m < n => m + PAGE <= n
<1>1. m = PAGE * (m \div PAGE) /\ n = PAGE * (n \div PAGE) /\ m \div PAGE \in Nat /\ n \div PAGE \in Nat
  BY Layout
<1>2. ASSUME NEW i \in Nat, NEW j \in Nat, PAGE * i < PAGE * j
      PROVE  PAGE * i + PAGE <= PAGE * j
  <2>1. i < j
    BY <1>2, Layout
  <2>2. PAGE * (i + 1) <= PAGE * j
    BY <2>1, Layout
  <2> QED
    BY <2>2, Layout
<1>3. ASSUME m < n PROVE m + PAGE <= n
  BY <1>1, <1>2, <1>3
<1> QED
  BY <1>3

\* Pages are numbers, at multiples of PAGE.
LEMMA PageFacts ==
  ASSUME NEW p \in Pages
  PROVE  p \in Nat /\ p * PAGE \in Nat /\ (p * PAGE) % PAGE = 0 /\ p * PAGE >= PAGE
<1>1. TASK_SIZE \div PAGE \in Nat
  BY Layout
<1>2. p \in Nat /\ p >= 1
  BY <1>1 DEF Pages
<1> QED
  BY <1>2, Layout

-----------------------------------------------------------------------------
(* The kernel.                                                             *)

\* Without MAP_FIXED nothing mapped is replaced; with it the address is the one
\* asked for.
LEMMA MappedWhere ==
  ASSUME NEW a, NEW len, NEW kind, NEW r \in Mapped(a, len, kind), r # 0
  PROVE  /\ Fits(r, len)
         /\ kind # "FIXED" => IsFree(r, len)
         /\ kind = "FIXED" => r = a
  BY DEF Mapped, Elsewhere

\* Owner by owner, what a new mapping changes.
LEMMA Taken ==
  ASSUME NEW a, NEW len, NEW who \in Owners, owner \in [Pages -> Owners]
  PROVE  /\ Take(a, len, who) \in [Pages -> Owners]
         /\ \A p \in Span(a, len) : p \in Pages /\ Take(a, len, who)[p] = who
         /\ \A p \in Pages \ Span(a, len) : Take(a, len, who)[p] = owner[p]
  BY DEF Take, Span

-----------------------------------------------------------------------------
(* The invariant.                                                          *)

BrkPages == {p \in Pages : owner[p] = "brk"}

\* The break: aligned where it is mapped up to, and within the kernel's range.
Break ==
    /\ initialBrk \in Nat /\ curBrk \in Nat /\ mappedBrk \in Nat
    /\ initialBrk % PAGE = 0 /\ mappedBrk % PAGE = 0
    /\ initialBrk <= curBrk /\ curBrk <= mappedBrk /\ mappedBrk <= TASK_SIZE
    /\ phase \in {"read", "stack", "code", "run"} => initialBrk > 0

IInv ==
    /\ phase \in {"map", "read", "stack", "code", "run", "stopped"}
    /\ file \in Files
    /\ content \subseteq Loads
    /\ owner \in [Pages -> Owners]
    /\ stackSize \in Nat
    /\ lastHint \in 0 .. SPACE - 1
    /\ Break
    /\ phase = "map" => dirty = {} /\ initialBrk = mappedBrk
    /\ BrkPages = Heap
    /\ \A a \in dirty : a \in Nat /\ initialBrk <= a /\ a < mappedBrk

\* A mapping that leaves the heap's pages alone, of which it takes none, and
\* adds none to them.
LEMMA HeapStays ==
  ASSUME IInv, NEW a, NEW len, NEW who \in Owners \ {"brk"},
         \A p \in Span(a, len) : owner[p] # "brk",
         owner' = Take(a, len, who), UNCHANGED <<initialBrk, mappedBrk>>
  PROVE  owner' \in [Pages -> Owners] /\ BrkPages' = Heap'
<1>1. owner' \in [Pages -> Owners]
      /\ (\A p \in Span(a, len) : p \in Pages /\ owner'[p] = who)
      /\ \A p \in Pages \ Span(a, len) : owner'[p] = owner[p]
  BY Taken DEF IInv
<1>2. BrkPages' = BrkPages
  BY <1>1 DEF BrkPages
<1>3. Heap' = Heap
  BY DEF Heap
<1> QED
  BY <1>1, <1>2, <1>3 DEF IInv

\* A break that is raised over the mapped one: what the new pages are.
LEMMA Grows ==
  ASSUME IInv, phase = "run", NEW b \in BrkRequests, b > mappedBrk,
         mappedBrk \in Mapped(mappedBrk, A(ALIGN_UP(b) - mappedBrk), "FIXED_NOREPLACE")
  PROVE  /\ ALIGN_UP(b) \in Nat /\ ALIGN_UP(b) % PAGE = 0
         /\ b <= ALIGN_UP(b) /\ ALIGN_UP(b) <= TASK_SIZE
         /\ mappedBrk + A(ALIGN_UP(b) - mappedBrk) = ALIGN_UP(b)
         /\ IsFree(mappedBrk, A(ALIGN_UP(b) - mappedBrk))
         /\ mappedBrk > 0
<1> DEFINE up == ALIGN_UP(b)
           len == A(up - mappedBrk)
<1>1. b \in 0 .. SPACE - 1 /\ mappedBrk \in Nat /\ mappedBrk > 0 /\ mappedBrk <= TASK_SIZE
  BY RequestsAssumption DEF IInv, Break
<1>2. up \in 0 .. SPACE - 1 /\ up % PAGE = 0 /\ (b <= up \/ up = 0)
  BY <1>1, Up
<1>3. Fits(mappedBrk, len) /\ IsFree(mappedBrk, len)
  BY <1>1, MappedWhere
<1>4. mappedBrk + len <= TASK_SIZE
  BY <1>3 DEF Fits
<1>5. up - mappedBrk \in Int
  BY <1>1, <1>2
<1>6. up # 0
  <2>1. SUFFICES ASSUME up = 0 PROVE FALSE
    OBVIOUS
  <2>2. len = up - mappedBrk + SPACE
    BY <1>1, <1>2, <1>5, <2>1, Wrapped, Layout
  <2> HIDE DEF up, len
  <2> QED
    BY <1>1, <1>4, <2>1, <2>2, Layout
<1>7. b <= up
  BY <1>2, <1>6
<1>8. len = up - mappedBrk
  <2>1. up - mappedBrk \in 0 .. SPACE - 1
    BY <1>1, <1>2, <1>7, Layout
  <2> QED
    BY <2>1, <1>5, Wrapped
<1> HIDE DEF up, len
<1>9. mappedBrk + len = up
  BY <1>1, <1>2, <1>8
<1> QED
  BY <1>1, <1>2, <1>3, <1>4, <1>7, <1>9 DEF up, len

-----------------------------------------------------------------------------
(* The loader's range.                                                     *)

\* Every set of natural numbers has a smallest.
LEMMA Smallest ==
  ASSUME NEW S \in SUBSET Nat, S # {}
  PROVE  \E x \in S : \A y \in S : x <= y
<1>1. PICK x \in S : \A y \in S : ~ (<<y, x>> \in OpToRel(<, Nat))
  BY WFMin, NatLessThanWellFounded
<1>2. \A y \in S : ~ (y < x)
  BY <1>1 DEF OpToRel
<1> QED
  BY <1>2

\* One with an upper bound has a largest.
LEMMA Largest ==
  ASSUME NEW S \in SUBSET Nat, S # {}, NEW bound \in Nat, \A e \in S : e <= bound
  PROVE  Max(S) \in S
<1> DEFINE below == {bound - e : e \in S}
<1>0. \A e \in S : bound - e \in Nat
  OBVIOUS
<1>1. below \in SUBSET Nat /\ below # {}
  BY <1>0, Zenon
<1>2. PICK x \in below : \A y \in below : x <= y
  BY <1>1, Smallest
<1>3. PICK e \in S : x = bound - e
  OBVIOUS
<1>4. \A f \in S : bound - e <= bound - f
  BY <1>2, <1>3
<1>5. \A f \in S : e >= f
  BY <1>4
<1> QED
  BY <1>5 DEF Max

\* The ends of the range are numbers.
LEMMA LoadedRange ==
  ASSUME file \in Files, ~Refused
  PROVE  minAddr \in Nat /\ maxAddr \in 0 .. SPACE - 1
<1>1. \A i \in Loads : file[i].vaddr \in Nat /\ End(i) \in Nat /\ End(i) <= TRANSLATOR_BASE
  BY RequestsAssumption, Layout DEF Loads, End, Refused
<1>2. minAddr \in Nat
  <2> DEFINE low == {file[i].vaddr : i \in Loads} \ {0}
  <2>1. low \in SUBSET Nat
    BY <1>1
  <2>2. CASE low # {}
    <3>1. \E x \in low : \A y \in low : x <= y
      BY <2>1, <2>2, Smallest
    <3>2. Min(low) \in low
      BY <3>1 DEF Min
    <3> QED
      BY <2>1, <2>2, <3>2 DEF minAddr
  <2>3. CASE low = {}
    BY <2>3 DEF minAddr
  <2> QED
    BY <2>2, <2>3
<1>3. maxAddr \in 0 .. SPACE - 1
  <2> DEFINE high == {End(i) : i \in Loads}
  <2>1. high \in SUBSET Nat /\ \A e \in high : e <= TRANSLATOR_BASE
    BY <1>1
  <2>2. CASE high # {}
    <3>1. Max(high) \in high
      BY <2>1, <2>2, Largest, Layout
    <3> QED
      BY <2>1, <2>2, <3>1, Layout DEF maxAddr
  <2>3. CASE high = {}
    BY <2>3, Layout DEF maxAddr
  <2> QED
    BY <2>2, <2>3
<1> QED
  BY <1>2, <1>3

-----------------------------------------------------------------------------
(* Every step keeps the invariant.                                         *)

LEMMA InitInv == Init => IInv
<1> SUFFICES ASSUME Init PROVE IInv
  OBVIOUS
<1>1. 0 % PAGE = 0
  BY Layout
<1>2. owner \in [Pages -> Owners] /\ BrkPages = {}
  BY DEF Init, Owners, BrkPages
<1>3. Heap = {}
  BY PageFacts DEF Init, Heap
<1> QED
  BY <1>1, <1>2, <1>3, RequestsAssumption, Layout DEF Init, IInv, Break

\* The segments' pages are the range from the lowest start to the highest end.
LEMMA LoadedSpan ==
  ASSUME IInv, mapIntoMemory
  PROVE  LET start == ALIGN_DOWN(minAddr)
             end == ALIGN_UP(maxAddr)
         IN  /\ start \in Nat /\ start % PAGE = 0
             /\ end \in 0 .. SPACE - 1 /\ end % PAGE = 0
             /\ end > start /\ end <= TASK_SIZE
             /\ A(end - start) = end - start
<1> DEFINE start == ALIGN_DOWN(minAddr)
           end == ALIGN_UP(maxAddr)
           len == A(end - start)
<1>1. phase = "map" /\ ~Refused /\ file \in Files
  BY DEF mapIntoMemory, IInv
<1>2. start \in Nat /\ start % PAGE = 0
  BY <1>1, LoadedRange, Down
<1>3. end \in 0 .. SPACE - 1 /\ end % PAGE = 0
  <2>1. maxAddr \in 0 .. SPACE - 1
    BY <1>1, LoadedRange
  <2> QED
    BY <2>1, Up
<1>4. /\ start \in Mapped(start, len, "FIXED_NOREPLACE") /\ start # 0
      /\ owner' = Take(start, end - start, "elf")
      /\ curBrk' = end /\ initialBrk' = end /\ mappedBrk' = end /\ phase' = "read"
      /\ UNCHANGED <<file, next, content, dirty, lastHint, stackSize>>
  BY DEF mapIntoMemory, loading
<1> HIDE DEF start, end
<1>5. Fits(start, len) /\ IsFree(start, len)
  BY <1>4, MappedWhere
<1>6. end - start = len /\ end > start
  <2>1. len > 0 /\ start + len <= TASK_SIZE
    BY <1>5 DEF Fits
  <2>2. end - start \in Int
    BY <1>2, <1>3
  <2>3. end - start # 0
    <3>1. SUFFICES ASSUME end - start = 0 PROVE FALSE
      OBVIOUS
    <3>2. len = 0
      BY <2>2, <3>1, Wrapped, Layout
    <3> QED
      BY <2>1, <3>2
  <2>4. start < SPACE
    <3>1. len \in Nat
      BY <2>2, Wrapped, Layout
    <3> HIDE DEF len
    <3> QED
      BY <1>2, <2>1, <3>1, Layout
  <2>5. end - start > 0
    <3>1. SUFFICES ASSUME end - start < 0 PROVE FALSE
      BY <2>2, <2>3
    <3>2. len = end - start + SPACE
      BY <1>2, <1>3, <2>2, <2>4, <3>1, Wrapped, Layout
    <3> HIDE DEF len
    <3> QED
      BY <1>2, <1>3, <2>1, <3>2, Layout
  <2>6. end - start \in 0 .. SPACE - 1
    BY <1>2, <1>3, <2>2, <2>5, Layout
  <2>7. len = end - start
    BY <2>2, <2>6, Wrapped
  <2> HIDE DEF len
  <2> QED
    BY <1>2, <1>3, <2>5, <2>7
<1>7. end <= TASK_SIZE
  <2>1. start + len <= TASK_SIZE
    BY <1>5 DEF Fits
  <2> HIDE DEF len
  <2> QED
    BY <1>2, <1>3, <1>6, <2>1, Layout
<1> QED
  BY <1>2, <1>3, <1>6, <1>7 DEF start, end

LEMMA MapKeeps ==
  ASSUME IInv, mapIntoMemory
  PROVE  IInv'
<1> DEFINE start == ALIGN_DOWN(minAddr)
           end == ALIGN_UP(maxAddr)
           len == A(end - start)
<1>1. phase = "map" /\ file \in Files
  BY DEF mapIntoMemory, IInv
<1>2. /\ start \in Nat /\ end \in 0 .. SPACE - 1 /\ end % PAGE = 0
      /\ end > start /\ end <= TASK_SIZE /\ end - start = len
  BY LoadedSpan
<1>3. /\ owner' = Take(start, end - start, "elf")
      /\ curBrk' = end /\ initialBrk' = end /\ mappedBrk' = end /\ phase' = "read"
      /\ UNCHANGED <<file, next, content, dirty, lastHint, stackSize>>
  BY DEF mapIntoMemory, loading
<1> HIDE DEF start, end
<1>4. end \in Nat /\ end > 0
  <2> HIDE DEF len
  <2> QED
    BY <1>2, Layout
<1>5. /\ owner' = Take(start, len, "elf")
      /\ curBrk' = end /\ initialBrk' = end /\ mappedBrk' = end /\ phase' = "read"
      /\ UNCHANGED <<file, next, content, dirty, lastHint, stackSize>>
  BY <1>2, <1>3
<1>6. BrkPages = {}
  BY <1>1, PageFacts DEF IInv, Heap, Break
<1>7. owner' \in [Pages -> Owners] /\ BrkPages' = {}
  <2>1. owner \in [Pages -> Owners] /\ "elf" \in Owners
    BY DEF IInv, Owners
  <2> HIDE DEF len
  <2>2. /\ owner' \in [Pages -> Owners]
        /\ \A p \in Span(start, len) : p \in Pages /\ owner'[p] = "elf"
        /\ \A p \in Pages \ Span(start, len) : owner'[p] = owner[p]
    BY <1>5, <2>1, Taken
  <2> QED
    BY <1>6, <2>2 DEF BrkPages
<1>8. Heap' = {}
  <2> HIDE DEF len
  <2> QED
    BY <1>4, <1>5, PageFacts DEF Heap
<1>9. dirty' = {}
  BY <1>1, <1>5 DEF IInv
<1>10. content' \subseteq Loads'
  BY <1>5 DEF IInv, Loads
<1> HIDE DEF len
<1> QED
  BY <1>1, <1>2, <1>4, <1>5, <1>7, <1>8, <1>9, <1>10 DEF IInv, Break

\* A mapping the guest asks for.
LEMMA GuestMapsKeeps ==
  ASSUME IInv, NEW a \in Nat, NEW len, NEW kind, GuestMaps(a, len, kind),
         UNCHANGED <<initialBrk, mappedBrk>>
  PROVE  /\ owner' \in [Pages -> Owners] /\ BrkPages' = Heap'
         /\ \A p \in Pages : owner[p] \in {"elf", "stack", "brk"} => owner'[p] = owner[p]
         /\ \A p \in Pages : owner[p] = "map" => owner'[p] = "map"
<1>1. PICK r \in Mapped(a, len, kind) : owner' = IF r = 0 THEN owner ELSE Take(r, len, "map")
  BY DEF GuestMaps
<1>2. owner \in [Pages -> Owners] /\ BrkPages = Heap /\ "map" \in Owners \ {"brk"}
  BY DEF IInv, Owners
<1>3. CASE r = 0
  <2>1. owner' = owner
    BY <1>1, <1>3
  <2> QED
    BY <1>2, <2>1 DEF BrkPages, Heap
<1>4. CASE r # 0
  <2>1. owner' = Take(r, len, "map")
    BY <1>1, <1>4
  <2>2. \A p \in Span(r, len) : owner[p] \in {"free", "map", "host"}
    <3>1. CASE kind = "FIXED"
      BY <1>1, <1>4, <3>1, MappedWhere DEF GuestMaps
    <3>2. CASE kind # "FIXED"
      BY <1>1, <1>4, <3>2, MappedWhere DEF IsFree
    <3> QED
      BY <3>1, <3>2
  <2>3. owner' \in [Pages -> Owners] /\ BrkPages' = Heap'
    BY <1>2, <2>1, <2>2, HeapStays
  <2>4. /\ \A p \in Span(r, len) : owner'[p] = "map"
        /\ \A p \in Pages \ Span(r, len) : owner'[p] = owner[p]
    BY <1>2, <2>1, Taken
  <2> QED
    BY <2>2, <2>3, <2>4
<1> QED
  BY <1>3, <1>4

LEMMA StackKeeps ==
  ASSUME IInv, allocateStack \/ setupInstrMem
  PROVE  IInv'
<1>1. CASE allocateStack
  <2>1. PICK r \in Mapped(stackStart, stackSize + guard, "FIXED_NOREPLACE") :
           IF r = stackStart /\ r # 0
           THEN phase' = "code" /\ owner' = Take(r, stackSize + guard, "stack")
           ELSE phase' = "stopped" /\ UNCHANGED owner
    BY <1>1 DEF allocateStack
  <2>2. phase = "stack" /\ UNCHANGED <<file, next, content, dirty, curBrk, initialBrk, mappedBrk, lastHint, stackSize>>
    BY <1>1 DEF allocateStack, loading, brk
  <2>3. owner' \in [Pages -> Owners] /\ BrkPages' = Heap'
    <3>1. CASE UNCHANGED owner
      BY <2>2, <3>1 DEF IInv, BrkPages, Heap
    <3>2. CASE r # 0 /\ owner' = Take(r, stackSize + guard, "stack")
      <4>1. IsFree(r, stackSize + guard)
        BY <2>1, <3>2, MappedWhere
      <4>2. \A p \in Span(r, stackSize + guard) : owner[p] # "brk"
        BY <4>1 DEF IsFree
      <4>3. "stack" \in Owners \ {"brk"}
        BY DEF Owners
      <4> QED
        BY <2>2, <3>2, <4>2, <4>3, HeapStays
    <3> QED
      BY <2>1, <3>1, <3>2
  <2>4. phase' \in {"code", "stopped"}
    BY <2>1
  <2>5. content' \subseteq Loads'
    BY <2>2 DEF IInv, Loads
  <2> QED
    BY <2>2, <2>3, <2>4, <2>5 DEF IInv, Break
<1>2. CASE setupInstrMem
  <2>1. PICK r \in Mapped(Limit, STACK_OFFSET, "FIXED_NOREPLACE") :
           IF r = Limit
           THEN /\ phase' = "run" /\ owner' = Take(r, STACK_OFFSET, "host")
                /\ lastHint' = setupMmapHint
           ELSE phase' = "stopped" /\ UNCHANGED <<owner, lastHint>>
    BY <1>2 DEF setupInstrMem
  <2>2. phase = "code" /\ UNCHANGED <<file, next, content, dirty, curBrk, initialBrk, mappedBrk, stackSize>>
    BY <1>2 DEF setupInstrMem, loading, brk
  <2>3. owner' \in [Pages -> Owners] /\ BrkPages' = Heap'
    <3>1. CASE UNCHANGED owner
      BY <2>2, <3>1 DEF IInv, BrkPages, Heap
    <3>2. CASE r = Limit /\ owner' = Take(r, STACK_OFFSET, "host")
      <4>1. IsFree(r, STACK_OFFSET)
        BY <2>1, <3>2, MappedWhere, Layout
      <4>2. \A p \in Span(r, STACK_OFFSET) : owner[p] # "brk"
        BY <4>1 DEF IsFree
      <4>3. "host" \in Owners \ {"brk"}
        BY DEF Owners
      <4> QED
        BY <2>2, <3>2, <4>2, <4>3, HeapStays
    <3> QED
      BY <2>1, <3>1, <3>2
  <2>4. phase' \in {"run", "stopped"}
    BY <2>1
  <2>5. lastHint' \in 0 .. SPACE - 1
    <3>1. setupMmapHint \in 0 .. SPACE - 1
      <4>1. Limit - stackSize - guard \in Int
        BY Layout DEF IInv, guard
      <4> QED
        BY <4>1, Wrapped DEF setupMmapHint
    <3> QED
      BY <2>1, <3>1 DEF IInv
  <2>6. content' \subseteq Loads'
    BY <2>2 DEF IInv, Loads
  <2> QED
    BY <2>2, <2>3, <2>4, <2>5, <2>6 DEF IInv, Break
<1> QED
  BY <1>1, <1>2

\* What a raised break does, in the two cases.
LEMMA BrkGrowsStep ==
  ASSUME IInv, BrkGrows
  PROVE  /\ UNCHANGED <<phase, file, next, content, initialBrk, lastHint, stackSize>>
         /\ phase = "run"
         /\ \/ UNCHANGED <<owner, dirty, mappedBrk, curBrk>>
            \/ /\ curBrk' \in Nat /\ mappedBrk' \in Nat /\ mappedBrk' % PAGE = 0
               /\ mappedBrk < curBrk' /\ curBrk' <= mappedBrk' /\ mappedBrk' <= TASK_SIZE
               /\ owner' \in [Pages -> Owners]
               /\ \A p \in Pages : mappedBrk <= p * PAGE /\ p * PAGE < mappedBrk' =>
                     owner[p] = "free" /\ owner'[p] = "brk"
               /\ \A p \in Pages : p * PAGE < mappedBrk \/ mappedBrk' <= p * PAGE =>
                     owner'[p] = owner[p]
               /\ dirty' = dirty \ (curBrk .. mappedBrk - 1)
<1>1. PICK b \in BrkRequests :
        LET newMappedBrk == ALIGN_UP(b)
            len == A(newMappedBrk - mappedBrk)
        IN  /\ phase = "run"
            /\ b > mappedBrk
            /\ \E r \in Mapped(mappedBrk, len, BrkKind) :
                  IF r = mappedBrk
                  THEN /\ owner' = Take(r, len, "brk")
                       /\ dirty' = Cleared(curBrk, mappedBrk)
                       /\ mappedBrk' = newMappedBrk /\ curBrk' = b
                  ELSE UNCHANGED <<owner, dirty, mappedBrk, curBrk>>
            /\ UNCHANGED <<phase, loading, initialBrk, lastHint, stackSize>>
  BY DEF BrkGrows
<1> DEFINE up == ALIGN_UP(b)
           len == A(up - mappedBrk)
<1>2. /\ phase = "run" /\ b > mappedBrk
      /\ UNCHANGED <<phase, file, next, content, initialBrk, lastHint, stackSize>>
  BY <1>1 DEF loading
<1>3. PICK r \in Mapped(mappedBrk, len, BrkKind) :
         IF r = mappedBrk
         THEN /\ owner' = Take(r, len, "brk")
              /\ dirty' = Cleared(curBrk, mappedBrk)
              /\ mappedBrk' = up /\ curBrk' = b
         ELSE UNCHANGED <<owner, dirty, mappedBrk, curBrk>>
  BY <1>1
<1>4. CASE r # mappedBrk
  <2>1. UNCHANGED <<owner, dirty, mappedBrk, curBrk>>
    BY <1>3, <1>4
  <2> QED
    BY <1>2, <2>1
<1>5. CASE r = mappedBrk
  <2>1. /\ up \in Nat /\ up % PAGE = 0 /\ b <= up /\ up <= TASK_SIZE
        /\ mappedBrk + len = up /\ IsFree(mappedBrk, len) /\ mappedBrk > 0
    BY <1>2, <1>3, <1>5, Grows DEF BrkKind
  <2>2. /\ owner' = Take(mappedBrk, len, "brk") /\ mappedBrk' = up /\ curBrk' = b
        /\ dirty' = dirty \ (curBrk .. mappedBrk - 1)
    BY <1>3, <1>5 DEF Cleared
  <2>3. b \in Nat /\ mappedBrk \in Nat
    BY RequestsAssumption DEF IInv, Break
  <2> HIDE DEF up, len
  <2>4. owner \in [Pages -> Owners] /\ "brk" \in Owners
    BY DEF IInv, Owners
  <2>5. /\ owner' \in [Pages -> Owners]
        /\ \A p \in Span(mappedBrk, len) : p \in Pages /\ owner'[p] = "brk"
        /\ \A p \in Pages \ Span(mappedBrk, len) : owner'[p] = owner[p]
    BY <2>2, <2>4, Taken
  <2>6. \A p \in Pages : p \in Span(mappedBrk, len) <=> mappedBrk <= p * PAGE /\ p * PAGE < up
    BY <2>1, <2>3, PageFacts DEF Span
  <2>7. \A p \in Span(mappedBrk, len) : owner[p] = "free"
    BY <2>1 DEF IsFree
  <2>8. \A p \in Pages : mappedBrk <= p * PAGE /\ p * PAGE < mappedBrk' =>
           owner[p] = "free" /\ owner'[p] = "brk"
    BY <2>2, <2>5, <2>6, <2>7
  <2>9. \A p \in Pages : p * PAGE < mappedBrk \/ mappedBrk' <= p * PAGE => owner'[p] = owner[p]
    BY <2>1, <2>2, <2>3, <2>5, <2>6, PageFacts
  <2> QED
    BY <1>2, <2>1, <2>2, <2>3, <2>5, <2>8, <2>9
<1> QED
  BY <1>4, <1>5

LEMMA BrkKeeps ==
  ASSUME IInv, BrkMapped \/ BrkGrows
  PROVE  IInv'
<1>1. CASE BrkMapped
  <2>1. PICK b \in BrkRequests :
          /\ initialBrk <= b /\ b <= mappedBrk
          /\ dirty' = Cleared(curBrk, b)
          /\ curBrk' = b
    BY <1>1 DEF BrkMapped
  <2>2. /\ phase = "run"
        /\ UNCHANGED <<phase, file, next, content, owner, initialBrk, mappedBrk, lastHint, stackSize>>
    BY <1>1 DEF BrkMapped, loading
  <2>3. b \in Nat /\ dirty' \subseteq dirty
    BY <2>1, RequestsAssumption DEF Cleared
  <2>4. BrkPages' = Heap' /\ content' \subseteq Loads'
    BY <2>2 DEF IInv, BrkPages, Heap, Loads
  <2> QED
    BY <2>1, <2>2, <2>3, <2>4 DEF IInv, Break
<1>2. CASE BrkGrows
  <2>1. /\ UNCHANGED <<phase, file, next, content, initialBrk, lastHint, stackSize>>
        /\ phase = "run"
    BY <1>2, BrkGrowsStep
  <2>2. content' \subseteq Loads'
    BY <2>1 DEF IInv, Loads
  <2>3. CASE UNCHANGED <<owner, dirty, mappedBrk, curBrk>>
    <3>1. BrkPages' = Heap'
      BY <2>1, <2>3 DEF IInv, BrkPages, Heap
    <3> QED
      BY <2>1, <2>2, <2>3, <3>1 DEF IInv, Break
  <2>4. CASE mappedBrk' # mappedBrk
    <3>1. /\ curBrk' \in Nat /\ mappedBrk' \in Nat /\ mappedBrk' % PAGE = 0
          /\ mappedBrk < curBrk' /\ curBrk' <= mappedBrk' /\ mappedBrk' <= TASK_SIZE
          /\ owner' \in [Pages -> Owners]
          /\ \A p \in Pages : mappedBrk <= p * PAGE /\ p * PAGE < mappedBrk' =>
                owner[p] = "free" /\ owner'[p] = "brk"
          /\ \A p \in Pages : p * PAGE < mappedBrk \/ mappedBrk' <= p * PAGE =>
                owner'[p] = owner[p]
          /\ dirty' = dirty \ (curBrk .. mappedBrk - 1)
      BY <1>2, <2>4, BrkGrowsStep
    <3>2. initialBrk \in Nat /\ mappedBrk \in Nat /\ initialBrk <= mappedBrk /\ BrkPages = Heap
      BY DEF IInv, Break
    <3>3. ASSUME NEW p \in Pages PROVE p \in BrkPages' <=> p \in Heap'
      <4>1. p * PAGE \in Nat
        BY PageFacts
      <4>2. owner[p] = "brk" <=> initialBrk <= p * PAGE /\ p * PAGE < mappedBrk
        BY <3>2 DEF BrkPages, Heap
      <4>3. owner'[p] = "brk" <=> initialBrk <= p * PAGE /\ p * PAGE < mappedBrk'
        BY <3>1, <3>2, <4>1, <4>2
      <4> QED
        BY <2>1, <4>3 DEF BrkPages, Heap
    <3>4. BrkPages' = Heap'
      BY <3>3 DEF BrkPages, Heap
    <3>5. \A a \in dirty' : a \in Nat /\ initialBrk' <= a /\ a < mappedBrk'
      BY <2>1, <3>1, <3>2 DEF IInv
    <3>6. Break'
      BY <2>1, <3>1, <3>2 DEF IInv, Break
    <3> QED
      BY <2>1, <2>2, <3>1, <3>4, <3>5, <3>6 DEF IInv
  <2>5. UNCHANGED <<owner, dirty, mappedBrk, curBrk>> \/ mappedBrk' # mappedBrk
    BY <1>2, BrkGrowsStep DEF IInv, Break
  <2> QED
    BY <2>3, <2>4, <2>5
<1> QED
  BY <1>1, <1>2

\* A byte the guest writes is on a page of the heap.
LEMMA StoreKeeps ==
  ASSUME IInv, Store
  PROVE  IInv'
<1>1. PICK p \in {q \in Pages : owner[q] = "brk"}, k \in 0 .. PAGE - 1 :
         dirty' = dirty \cup {p * PAGE + k}
  BY DEF Store
<1>2. /\ phase = "run"
      /\ UNCHANGED <<phase, file, next, content, owner, curBrk, initialBrk, mappedBrk, lastHint, stackSize>>
  BY DEF Store, loading, brk
<1>3. p \in Heap
  BY <1>1 DEF IInv, BrkPages
<1>4. initialBrk <= p * PAGE /\ p * PAGE + PAGE <= mappedBrk /\ p * PAGE \in Nat
  <2>1. p * PAGE \in Nat /\ (p * PAGE) % PAGE = 0
    BY <1>1, PageFacts
  <2> QED
    BY <1>3, <2>1, Multiples DEF IInv, Break, Heap
<1>5. \A a \in dirty' : a \in Nat /\ initialBrk' <= a /\ a < mappedBrk'
  <2> DEFINE q == p * PAGE
  <2>1. q + k \in Nat /\ initialBrk <= q + k /\ q + k < mappedBrk
    <3>1. q \in Nat /\ initialBrk <= q /\ q + PAGE <= mappedBrk
      BY <1>4
    <3> HIDE DEF q
    <3> QED
      BY <3>1, Layout DEF IInv, Break
  <2> QED
    BY <1>1, <1>2, <2>1 DEF IInv
<1>6. BrkPages' = Heap' /\ content' \subseteq Loads'
  BY <1>2 DEF IInv, BrkPages, Heap, Loads
<1> QED
  BY <1>2, <1>5, <1>6 DEF IInv, Break

\* The calls of the guest, one by one: which mapping they ask for.
LEMMA MmapStep ==
  ASSUME IInv, MmapAnywhere \/ MmapHinted \/ MmapFixed
  PROVE  /\ phase = "run"
         /\ UNCHANGED <<phase, file, next, content, dirty, curBrk, initialBrk, mappedBrk, stackSize>>
         /\ lastHint' \in 0 .. SPACE - 1
         /\ \E q \in MmapRequests, a \in Nat :
               /\ GuestMaps(a, q.len, q.kind)
               /\ q.kind = "FIXED" => a = q.addr /\ ~InTranslator(q.addr)
<1>1. CASE MmapAnywhere
  <2>1. PICK q \in MmapRequests :
          /\ phase = "run" /\ q.kind = "HINT"
          /\ GuestMaps(ALIGN_DOWN(A(lastHint - q.len)), q.len, "HINT")
          /\ lastHint' = ALIGN_DOWN(A(lastHint - q.len))
          /\ UNCHANGED <<phase, loading, dirty, brk, stackSize>>
    BY <1>1 DEF MmapAnywhere
  <2>2. lastHint - q.len \in Int
    BY RequestsAssumption DEF IInv
  <2>3. A(lastHint - q.len) \in 0 .. SPACE - 1
    BY <2>2, Wrapped
  <2>4. ALIGN_DOWN(A(lastHint - q.len)) \in 0 .. SPACE - 1
    BY <2>3, Down, Layout
  <2> QED
    BY <2>1, <2>4 DEF loading, brk
<1>2. CASE MmapHinted
  <2>1. PICK q \in MmapRequests :
          /\ phase = "run" /\ q.kind = "HINT" /\ GuestMaps(q.addr, q.len, "HINT")
          /\ UNCHANGED <<phase, loading, dirty, brk, lastHint, stackSize>>
    BY <1>2 DEF MmapHinted
  <2>2. q.addr \in Nat
    BY RequestsAssumption
  <2> QED
    BY <2>1, <2>2 DEF loading, brk, IInv
<1>3. CASE MmapFixed
  <2>1. PICK q \in MmapRequests :
          /\ phase = "run" /\ ~InTranslator(q.addr) /\ GuestMaps(q.addr, q.len, q.kind)
          /\ UNCHANGED <<phase, loading, dirty, brk, lastHint, stackSize>>
    BY <1>3 DEF MmapFixed
  <2>2. q.addr \in Nat
    BY RequestsAssumption
  <2> QED
    BY <2>1, <2>2 DEF loading, brk, IInv
<1> QED
  BY <1>1, <1>2, <1>3

\* What the guest may unmap lies below the translator's region.
LEMMA MunmapStep ==
  ASSUME IInv, Munmap
  PROVE  /\ phase = "run"
         /\ UNCHANGED <<phase, file, next, content, dirty, curBrk, initialBrk, mappedBrk, lastHint, stackSize>>
         /\ \E q \in MunmapRequests :
               /\ owner' = Take(q.addr, q.len, "free")
               /\ \A p \in Span(q.addr, q.len) : owner[p] \in {"free", "map", "host"}
               /\ q.addr \in Nat /\ q.len \in Nat /\ q.addr + q.len <= Limit
<1>1. PICK q \in MunmapRequests :
        /\ phase = "run"
        /\ ~ReachesTranslator(q.addr, q.len)
        /\ Fits(q.addr, q.len)
        /\ \A p \in Span(q.addr, q.len) : owner[p] \in {"free", "map", "host"}
        /\ owner' = Take(q.addr, q.len, "free")
        /\ UNCHANGED <<phase, loading, dirty, brk, lastHint, stackSize>>
  BY DEF Munmap
<1>2. q.addr \in Nat /\ q.len \in Nat
  BY RequestsAssumption
<1>3. q.addr + q.len \in 0 .. SPACE - 1
  BY <1>1, <1>2, Layout DEF Fits
<1>4. A(q.addr + q.len) = q.addr + q.len
  BY <1>3, Wrapped
<1>5. q.addr + q.len <= Limit
  BY <1>1, <1>3, <1>4, Layout DEF ReachesTranslator
<1> QED
  BY <1>1, <1>2, <1>5 DEF loading, brk

LEMMA CallsKeep ==
  ASSUME IInv, MmapAnywhere \/ MmapHinted \/ MmapFixed \/ Munmap
  PROVE  IInv'
<1>1. /\ phase = "run"
      /\ UNCHANGED <<phase, file, next, content, dirty, curBrk, initialBrk, mappedBrk, stackSize>>
      /\ lastHint' \in 0 .. SPACE - 1
  BY MmapStep, MunmapStep DEF IInv
<1>2. owner' \in [Pages -> Owners] /\ BrkPages' = Heap'
  <2>1. CASE Munmap
    <3>1. PICK q \in MunmapRequests :
             /\ owner' = Take(q.addr, q.len, "free")
             /\ \A p \in Span(q.addr, q.len) : owner[p] \in {"free", "map", "host"}
      BY <2>1, MunmapStep
    <3>2. "free" \in Owners \ {"brk"}
      BY DEF Owners
    <3> QED
      BY <1>1, <3>1, <3>2, HeapStays
  <2>2. CASE MmapAnywhere \/ MmapHinted \/ MmapFixed
    <3>1. PICK q \in MmapRequests, a \in Nat : GuestMaps(a, q.len, q.kind)
      BY <2>2, MmapStep
    <3> QED
      BY <1>1, <3>1, GuestMapsKeeps
  <2> QED
    BY <2>1, <2>2
<1>3. content' \subseteq Loads'
  BY <1>1 DEF IInv, Loads
<1> QED
  BY <1>1, <1>2, <1>3 DEF IInv, Break

\* The steps of loading that change no memory.
LEMMA LoadingKeeps ==
  ASSUME IInv, mapIntoMemoryFails \/ ReadSegment \/ LoadDone \/ UNCHANGED vars
  PROVE  IInv'
<1>1. UNCHANGED <<file, owner, dirty, curBrk, initialBrk, mappedBrk, lastHint, stackSize>>
  BY DEF mapIntoMemoryFails, ReadSegment, LoadDone, vars, loading, brk
<1>2. BrkPages' = Heap'
  BY <1>1 DEF IInv, BrkPages, Heap
<1>3. content' \subseteq Loads'
  BY DEF mapIntoMemoryFails, ReadSegment, LoadDone, vars, loading, IInv, Loads
<1>4. /\ phase' \in {"map", "read", "stack", "code", "run", "stopped"}
      /\ phase' = "map" => phase = "map"
      /\ phase' \in {"read", "stack", "code", "run"} => phase \in {"read", "stack", "code", "run"}
  BY DEF mapIntoMemoryFails, ReadSegment, LoadDone, vars, IInv
<1> QED
  BY <1>1, <1>2, <1>3, <1>4 DEF IInv, Break

\* The guest runs from the step on that maps the code memory.
LEMMA StepsToRun ==
  ASSUME IInv, [Next]_vars, phase # "run", phase' = "run"
  PROVE  setupInstrMem
  BY MmapStep, MunmapStep, BrkGrowsStep
     DEF Next, vars, mapIntoMemoryFails, mapIntoMemory, ReadSegment, LoadDone, allocateStack,
         Store, BrkMapped

LEMMA NextInv == IInv /\ [Next]_vars => IInv'
  BY MapKeeps, StackKeeps, BrkKeeps, StoreKeeps, CallsKeep, LoadingKeeps DEF Next

LEMMA Invariant == Spec => []IInv
<1>1. Init => IInv
  BY InitInv
<1>2. IInv /\ [Next]_vars => IInv'
  BY NextInv
<1> QED
  BY <1>1, <1>2, PTL DEF Spec

-----------------------------------------------------------------------------
(* The theorems.                                                           *)

\* The break is page-aligned where it is mapped up to, the heap is exactly the
\* pages below (emulateEcall.c, case 214).
THEOREM TypeOKHolds == Spec => []TypeOK
<1>1. IInv => TypeOK
  BY DEF IInv, Break, TypeOK, BrkPages
<1> QED
  BY <1>1, Invariant, PTL

\* Where the break is raised the guest finds zeroes, and below it what it wrote
\* (emulateEcall.c, case 214, the two memset calls).
THEOREM HeapGrowthHolds == Spec => HeapGrowth
<1> DEFINE Step == curBrk' # curBrk /\ phase = "run" =>
        /\ \A a \in curBrk .. curBrk' - 1 : a \notin dirty' /\ owner'[a \div PAGE] = "brk"
        /\ \A a \in initialBrk .. curBrk - 1 : a < curBrk' => (a \in dirty <=> a \in dirty')
<1>1. ASSUME IInv, [Next]_vars PROVE Step
  <2>1. SUFFICES ASSUME curBrk' # curBrk, phase = "run" PROVE Step
    OBVIOUS
  <2>2. IInv'
    BY <1>1, NextInv
  <2>3. BrkMapped \/ BrkGrows
    BY <1>1, <2>1, MmapStep, MunmapStep
       DEF Next, vars, brk, mapIntoMemoryFails, mapIntoMemory, ReadSegment, LoadDone,
           allocateStack, setupInstrMem, Store
  <2>4. /\ initialBrk \in Nat /\ curBrk \in Nat /\ mappedBrk \in Nat /\ initialBrk <= curBrk
        /\ curBrk <= mappedBrk /\ \A a \in dirty : a \in Nat /\ a < mappedBrk
    BY <1>1 DEF IInv, Break
  <2>5. \A a \in curBrk .. curBrk' - 1 : a \in Nat /\ a \notin dirty'
    <3>1. CASE BrkMapped
      BY <2>4, <3>1, RequestsAssumption DEF BrkMapped, Cleared
    <3>2. CASE BrkGrows
      <4>1. dirty' = dirty \ (curBrk .. mappedBrk - 1) /\ curBrk' \in Nat
        BY <1>1, <2>1, <3>2, BrkGrowsStep
      <4> QED
        BY <2>4, <4>1
    <3> QED
      BY <2>3, <3>1, <3>2
  <2>6. ASSUME NEW a, a \in curBrk .. curBrk' - 1 PROVE owner'[a \div PAGE] = "brk"
    <3>1. /\ initialBrk' \in Nat /\ curBrk' \in Nat /\ mappedBrk' \in Nat
          /\ initialBrk' % PAGE = 0 /\ mappedBrk' % PAGE = 0
          /\ curBrk' <= mappedBrk' /\ mappedBrk' <= TASK_SIZE /\ BrkPages' = Heap'
      BY <2>2 DEF IInv, Break
    <3>2. initialBrk' = initialBrk /\ initialBrk > 0 /\ phase' = "run"
      BY <1>1, <2>1, <2>3, BrkGrowsStep DEF BrkMapped, IInv, Break
    <3>3. a \in Nat /\ initialBrk' <= a /\ a < mappedBrk'
      <4>1. curBrk' \in Nat /\ mappedBrk' \in Nat /\ curBrk' <= mappedBrk'
        BY <3>1
      <4>2. initialBrk \in Nat /\ curBrk \in Nat /\ initialBrk <= curBrk
        BY <2>4
      <4>3. curBrk <= a /\ a < curBrk' /\ a \in Nat
        <5>1. curBrk' \in Nat /\ curBrk \in Nat
          BY <4>1, <4>2
        <5>2. a \in curBrk .. curBrk' - 1
          BY <2>6
        <5>3. \A m, n \in Nat : \A x \in m .. n - 1 : m <= x /\ x < n /\ x \in Nat
          OBVIOUS
        <5> QED
          BY <5>1, <5>2, <5>3, Zenon
      <4> QED
        BY <3>2, <4>1, <4>2, <4>3
    <3>4. PAGE <= initialBrk'
      <4>1. 0 \in Nat /\ 0 % PAGE = 0
        BY Layout
      <4>2. initialBrk \in Nat /\ initialBrk % PAGE = 0
        BY <1>1 DEF IInv, Break
      <4>3. 0 < initialBrk => 0 + PAGE <= initialBrk
        BY <4>1, <4>2, Multiples
      <4> QED
        BY <3>2, <4>2, <4>3, Layout
    <3>5. PAGE <= a /\ a < TASK_SIZE
      BY <3>1, <3>3, <3>4, Layout
    <3> DEFINE p == a \div PAGE
    <3>6. p \in Pages /\ p * PAGE <= a /\ a < p * PAGE + PAGE
      BY <3>3, <3>5, PageOf
    <3> HIDE DEF p
    <3>7. p * PAGE \in Nat /\ (p * PAGE) % PAGE = 0
      BY <3>6, PageFacts
    <3>8. initialBrk' <= p * PAGE
      <4>1. p * PAGE < initialBrk' => p * PAGE + PAGE <= initialBrk'
        BY <3>1, <3>7, Multiples
      <4> QED
        BY <3>1, <3>3, <3>6, <3>7, <4>1, Layout
    <3>9. p \in Heap'
      BY <3>1, <3>3, <3>6, <3>7, <3>8 DEF Heap
    <3> QED
      BY <3>1, <3>9 DEF BrkPages, p
  <2>7. \A a \in initialBrk .. curBrk - 1 : a < curBrk' => (a \in dirty <=> a \in dirty')
    <3>1. CASE BrkMapped
      BY <2>4, <3>1, RequestsAssumption DEF BrkMapped, Cleared
    <3>2. CASE BrkGrows
      <4>1. dirty' = dirty \ (curBrk .. mappedBrk - 1) /\ curBrk' \in Nat
        BY <1>1, <2>1, <3>2, BrkGrowsStep
      <4> QED
        BY <2>4, <4>1
    <3> QED
      BY <2>3, <3>1, <3>2
  <2> QED
    BY <2>5, <2>6, <2>7
<1>2. UNCHANGED vars => UNCHANGED curBrk
  BY DEF vars, brk
<1>3. IInv /\ [Next]_vars => [Step]_vars
  BY <1>1
<1> HIDE DEF Step
<1>4. Spec => [][Step]_vars
  BY <1>3, Invariant, PTL DEF Spec
<1> USE DEF Step
<1> QED
  BY <1>4 DEF HeapGrowth

\* What the guest has stays the guest's: segments, heap and stack are never
\* taken by another mapping, mappings only go when the guest unmaps them.
THEOREM GuestKeptHolds == Spec => GuestKept
<1> DEFINE Step == phase = "run" => \A p \in Pages :
        /\ owner[p] \in {"elf", "stack", "brk"} => owner'[p] = owner[p]
        /\ owner[p] = "map" => owner'[p] \in {"map", "free"}
<1>1. ASSUME IInv, [Next]_vars PROVE Step
  <2>1. SUFFICES ASSUME phase = "run", NEW p \in Pages
                 PROVE  /\ owner[p] \in {"elf", "stack", "brk"} => owner'[p] = owner[p]
                        /\ owner[p] = "map" => owner'[p] \in {"map", "free"}
    OBVIOUS
  <2>2. CASE UNCHANGED owner
    BY <2>2
  <2>3. CASE BrkGrows
    <3>1. CASE UNCHANGED owner
      BY <3>1
    <3>2. CASE owner' # owner
      <4>1. /\ mappedBrk <= p * PAGE /\ p * PAGE < mappedBrk' => owner[p] = "free"
            /\ p * PAGE < mappedBrk \/ mappedBrk' <= p * PAGE => owner'[p] = owner[p]
            /\ mappedBrk' \in Nat
        BY <1>1, <2>3, <3>2, BrkGrowsStep
      <4>2. p * PAGE \in Nat /\ mappedBrk \in Nat
        BY <1>1, PageFacts DEF IInv, Break
      <4> QED
        BY <4>1, <4>2
    <3> QED
      BY <3>1, <3>2
  <2>4. CASE MmapAnywhere \/ MmapHinted \/ MmapFixed
    <3>1. /\ \E q \in MmapRequests, a \in Nat : GuestMaps(a, q.len, q.kind)
          /\ UNCHANGED <<initialBrk, mappedBrk>>
      BY <1>1, <2>4, MmapStep
    <3> QED
      BY <1>1, <3>1, GuestMapsKeeps
  <2>5. CASE Munmap
    <3>1. PICK q \in MunmapRequests :
             /\ owner' = Take(q.addr, q.len, "free")
             /\ \A n \in Span(q.addr, q.len) : owner[n] \in {"free", "map", "host"}
      BY <1>1, <2>5, MunmapStep
    <3>2. owner \in [Pages -> Owners] /\ "free" \in Owners
      BY <1>1 DEF IInv, Owners
    <3>3. /\ \A n \in Span(q.addr, q.len) : owner'[n] = "free"
          /\ \A n \in Pages \ Span(q.addr, q.len) : owner'[n] = owner[n]
      BY <3>1, <3>2, Taken
    <3> QED
      BY <3>1, <3>3
  <2> QED
    BY <1>1, <2>1, <2>2, <2>3, <2>4, <2>5
       DEF Next, vars, mapIntoMemoryFails, mapIntoMemory, ReadSegment, LoadDone,
           allocateStack, setupInstrMem, Store, BrkMapped
<1>3. IInv /\ [Next]_vars => [Step]_vars
  BY <1>1
<1> HIDE DEF Step
<1>4. Spec => [][Step]_vars
  BY <1>3, Invariant, PTL DEF Spec
<1> USE DEF Step
<1> QED
  BY <1>4 DEF GuestKept

-----------------------------------------------------------------------------
(* The translator's region.  A fixed mapping that starts below it and ends *)
(* in it replaces its pages (only the start is compared), so what holds is *)
(* that nothing else does.                                                 *)

\* The guest asks for no fixed mapping across the boundary, and the
\* translator's own pages are above it.
NoCrossing ==
    /\ \A q \in MmapRequests : q.kind = "FIXED" /\ ~InTranslator(q.addr) => q.addr + q.len <= Limit
    /\ HostPages \subseteq {p \in Pages : Limit <= p * PAGE}

\* A page of the region is only taken while it is free.
LEMMA HostStays ==
  ASSUME NoCrossing, IInv, [Next]_vars,
         NEW p \in Pages, Limit <= p * PAGE, owner[p] = "host"
  PROVE  owner'[p] = "host"
<1>1. p * PAGE \in Nat /\ owner \in [Pages -> Owners] /\ {"free", "elf", "stack", "host", "map"} \subseteq Owners
  BY PageFacts DEF IInv, Owners
<1>2. ASSUME NEW a, NEW len, NEW who \in Owners, owner' = Take(a, len, who), IsFree(a, len)
      PROVE  owner'[p] = "host"
  BY <1>1, <1>2, Taken DEF IsFree
<1>3. ASSUME NEW a \in Nat, NEW len \in Nat, NEW who \in Owners, owner' = Take(a, len, who), a + len <= Limit
      PROVE  owner'[p] = "host"
  <2>1. p \notin Span(a, len)
    BY <1>1, <1>3, Layout DEF Span
  <2> QED
    BY <1>1, <1>3, <2>1, Taken
<1>4. CASE UNCHANGED owner
  BY <1>4
<1>5. CASE mapIntoMemory
  <2> DEFINE start == ALIGN_DOWN(minAddr)
             end == ALIGN_UP(maxAddr)
  <2>1. IsFree(start, A(end - start)) /\ start # 0 /\ owner' = Take(start, end - start, "elf")
    BY <1>5, MappedWhere DEF mapIntoMemory
  <2>2. A(end - start) = end - start
    BY <1>5, LoadedSpan
  <2> QED
    BY <1>1, <1>2, <2>1, <2>2
<1>6. CASE allocateStack
  <2>1. PICK r \in Mapped(stackStart, stackSize + guard, "FIXED_NOREPLACE") :
           UNCHANGED owner \/ (r # 0 /\ owner' = Take(r, stackSize + guard, "stack"))
    BY <1>6 DEF allocateStack
  <2>2. r # 0 => IsFree(r, stackSize + guard)
    BY <2>1, MappedWhere
  <2> QED
    BY <1>1, <1>2, <1>4, <2>1, <2>2
<1>7. CASE setupInstrMem
  <2>1. PICK r \in Mapped(Limit, STACK_OFFSET, "FIXED_NOREPLACE") :
           UNCHANGED owner \/ (r = Limit /\ owner' = Take(r, STACK_OFFSET, "host"))
    BY <1>7 DEF setupInstrMem
  <2>2. r = Limit => IsFree(r, STACK_OFFSET)
    BY <2>1, MappedWhere, Layout
  <2> QED
    BY <1>1, <1>2, <1>4, <2>1, <2>2
<1>8. CASE BrkGrows
  <2>1. CASE owner' # owner
    <3>1. /\ mappedBrk <= p * PAGE /\ p * PAGE < mappedBrk' => owner[p] = "free"
          /\ p * PAGE < mappedBrk \/ mappedBrk' <= p * PAGE => owner'[p] = owner[p]
          /\ mappedBrk' \in Nat
      BY <1>8, <2>1, BrkGrowsStep
    <3>2. mappedBrk \in Nat
      BY DEF IInv, Break
    <3> QED
      BY <1>1, <3>1, <3>2
  <2> QED
    BY <1>4, <2>1
<1>9. CASE MmapAnywhere \/ MmapHinted \/ MmapFixed
  <2>1. PICK q \in MmapRequests, a \in Nat :
           /\ GuestMaps(a, q.len, q.kind)
           /\ q.kind = "FIXED" => a = q.addr /\ ~InTranslator(q.addr)
    BY <1>9, MmapStep
  <2>2. PICK r \in Mapped(a, q.len, q.kind) : owner' = IF r = 0 THEN owner ELSE Take(r, q.len, "map")
    BY <2>1 DEF GuestMaps
  <2>3. CASE r # 0 /\ q.kind = "FIXED"
    <3>1. r = a /\ a + q.len <= Limit /\ q.len \in Nat
      BY <2>1, <2>2, <2>3, MappedWhere, RequestsAssumption DEF NoCrossing
    <3> QED
      BY <1>1, <1>3, <2>2, <2>3, <3>1
  <2>4. CASE r # 0 /\ q.kind # "FIXED"
    <3>1. IsFree(r, q.len)
      BY <2>2, <2>4, MappedWhere
    <3> QED
      BY <1>1, <1>2, <2>2, <2>4, <3>1
  <2> QED
    BY <1>4, <2>2, <2>3, <2>4
<1>10. CASE Munmap
  <2>1. PICK q \in MunmapRequests :
           /\ owner' = Take(q.addr, q.len, "free")
           /\ q.addr \in Nat /\ q.len \in Nat /\ q.addr + q.len <= Limit
    BY <1>10, MunmapStep
  <2> QED
    BY <1>1, <1>3, <2>1
<1> QED
  BY <1>4, <1>5, <1>6, <1>7, <1>8, <1>9, <1>10
     DEF Next, vars, mapIntoMemoryFails, ReadSegment, LoadDone, Store, BrkMapped

\* As long as no fixed mapping crosses the boundary, the code memory and the
\* translator's pages stay its own (emulateEcall.c, the comparisons with
\* TRANSLATOR_BASE - STACK_OFFSET in cases 215 and 222).
THEOREM TranslatorKeptHolds == NoCrossing => (Spec => []TranslatorKept)
<1> SUFFICES ASSUME NoCrossing PROVE Spec => []TranslatorKept
  OBVIOUS
<1>1. Init => TranslatorKept
  <2> SUFFICES ASSUME Init PROVE TranslatorKept
    OBVIOUS
  <2>1. \A p \in HostPages : owner[p] = "host"
    BY DEF NoCrossing, Init
  <2> QED
    BY <2>1 DEF TranslatorKept, Init
<1>2. IInv /\ TranslatorKept /\ [Next]_vars => TranslatorKept'
  <2> SUFFICES ASSUME IInv, TranslatorKept, [Next]_vars PROVE TranslatorKept'
    OBVIOUS
  <2>1. \A p \in HostPages : owner'[p] = "host"
    BY HostStays DEF TranslatorKept, NoCrossing
  <2>2. ASSUME phase' = "run" PROVE \A p \in Span(Limit, STACK_OFFSET) : owner'[p] = "host"
    <3>1. CASE phase = "run"
      <4>1. \A p \in Span(Limit, STACK_OFFSET) : p \in Pages /\ Limit <= p * PAGE /\ owner[p] = "host"
        BY <3>1 DEF TranslatorKept, Span
      <4> QED
        BY <4>1, HostStays
    <3>2. CASE phase # "run"
      <4>1. setupInstrMem
        BY <2>2, <3>2, StepsToRun
      <4>2. owner' = Take(Limit, STACK_OFFSET, "host")
        BY <2>2, <4>1 DEF setupInstrMem
      <4>3. owner \in [Pages -> Owners] /\ "host" \in Owners
        BY DEF IInv, Owners
      <4> QED
        BY <4>2, <4>3, Taken
    <3> QED
      BY <3>1, <3>2
  <2> QED
    BY <2>1, <2>2 DEF TranslatorKept, Span, Pages, Limit
<1> QED
  BY <1>1, <1>2, Invariant, PTL DEF Spec

-----------------------------------------------------------------------------
(* The stack that the guest starts with. *)

CONSTANTS MaxArgc, MaxEnvc, Tops, AuxTypes
VARIABLES stage, argc, envc, top, stackPos, stack

G == INSTANCE GuestStack

\* Sequences by their elements.
IsWords(s, n) == s = [i \in 1 .. n |-> s[i]]

LEMMA Words ==
    ASSUME NEW s, NEW n \in Nat, IsWords(s, n)
    PROVE  s \in Seq({s[i] : i \in 1 .. n}) /\ Len(s) = n
<1>1. s \in [1 .. n -> {s[i] : i \in 1 .. n}]
  BY DEF IsWords
<1>. QED
  BY <1>1

\* What is pushed stands before what was there.
Onto(s, t) == s \o t
Single(w) == <<w>>

LEMMA Pushed ==
    ASSUME NEW s, NEW n \in Nat, IsWords(s, n), NEW t, NEW m \in Nat, IsWords(t, m)
    PROVE  /\ IsWords(Onto(s, t), n + m)
           /\ \A i \in 1 .. n : Onto(s, t)[i] = s[i]
           /\ \A i \in 1 .. m : Onto(s, t)[n + i] = t[i]
<1> DEFINE S == {s[i] : i \in 1 .. n} \cup {t[i] : i \in 1 .. m}
<1>1. s \in Seq(S) /\ t \in Seq(S) /\ Len(s) = n /\ Len(t) = m
  <2>1. s \in [1 .. n -> S] /\ t \in [1 .. m -> S]
    BY DEF IsWords
  <2>. QED
    BY <2>1
<1> HIDE DEF S
<1>. QED
  BY <1>1 DEF IsWords, Onto

LEMMA OneWordPushed ==
    ASSUME NEW w
    PROVE  IsWords(Single(w), 1) /\ Single(w)[1] = w
BY DEF IsWords, Single

\* The lists, and their terminators.
List(name, n) == Onto(G!Pointers(name, n), Single(G!NULL))

LEMMA ListWords ==
    ASSUME NEW name, name # "NULL", NEW n \in Nat
    PROVE  /\ IsWords(List(name, n), n + 1)
           /\ List(name, n)[n + 1] = G!NULL
           /\ \A i \in 1 .. n : List(name, n)[i] = <<name, i>> /\ List(name, n)[i] # G!NULL
<1> DEFINE p == G!Pointers(name, n)
           z == Single(G!NULL)
<1>1. IsWords(p, n) /\ \A i \in 1 .. n : p[i] = <<name, i>>
  BY DEF G!Pointers, IsWords
<1>2. IsWords(z, 1) /\ z[1] = G!NULL
  BY OneWordPushed
<1>3. \A i \in 1 .. n : <<name, i>> # G!NULL
  BY DEF G!NULL
<1> HIDE DEF p, z
<1>4. /\ IsWords(Onto(p, z), n + 1)
      /\ \A i \in 1 .. n : Onto(p, z)[i] = p[i]
      /\ \A i \in 1 .. 1 : Onto(p, z)[n + i] = z[i]
  BY <1>1, <1>2, Pushed
<1>5. List(name, n) = Onto(p, z)
  BY DEF p, z, List
<1> DEFINE q == Onto(p, z)
<1> HIDE DEF q
<1>6. IsWords(q, n + 1) /\ q[n + 1] = G!NULL
  BY <1>2, <1>4 DEF q
<1>7. \A i \in 1 .. n : q[i] = <<name, i>>
  BY <1>1, <1>4 DEF q
<1>8. \A i \in 1 .. n : q[i] # G!NULL
  BY <1>3, <1>7
<1>9. List(name, n) = q
  BY <1>5 DEF q
<1>. QED
  BY <1>6, <1>7, <1>8, <1>9

ArgvList == List("argv", argc)
EnvpList == List("envp", envc)

LEMMA Lists ==
    ASSUME argc \in Nat, envc \in Nat
    PROVE  /\ IsWords(ArgvList, argc + 1) /\ ArgvList[argc + 1] = G!NULL
           /\ \A i \in 1 .. argc : ArgvList[i] = <<"argv", i>> /\ ArgvList[i] # G!NULL
           /\ IsWords(EnvpList, envc + 1) /\ EnvpList[envc + 1] = G!NULL
           /\ \A i \in 1 .. envc : EnvpList[i] = <<"envp", i>> /\ EnvpList[i] # G!NULL
<1>1. "argv" # "NULL" /\ "envp" # "NULL"
  OBVIOUS
<1>. QED
  BY <1>1, ListWords DEF ArgvList, EnvpList

Pairs == 2 * G!AUXC

LEMMA AuxvWords ==
    ASSUME G!StackAssumption
    PROVE  /\ IsWords(G!auxv, Pairs) /\ Len(AuxTypes) = 15 /\ Len(G!auxv) = 2 * G!AUXC
           /\ DOMAIN AuxTypes = 1 .. 15
           /\ \A i \in 1 .. 15 : G!auxv[2 * i - 1] = AuxTypes[i] /\ G!auxv[2 * i] = <<"value", AuxTypes[i]>>
           /\ G!auxv[31] = "AT_NULL"
<1>1. Len(AuxTypes) = 15 /\ DOMAIN AuxTypes = 1 .. 15
  BY Words DEF IsWords, G!StackAssumption, G!AUXC
<1>2. G!auxv = [i \in 1 .. 32 |->
                   IF i % 2 = 1 THEN G!Entry((i + 1) \div 2) ELSE <<"value", G!Entry(i \div 2)>>]
  BY <1>1 DEF G!auxv
<1>3. IsWords(G!auxv, 32)
  BY <1>2 DEF IsWords
<1>4. \A i \in 1 .. 15 : G!auxv[2 * i - 1] = AuxTypes[i] /\ G!auxv[2 * i] = <<"value", AuxTypes[i]>>
  <2> TAKE i \in 1 .. 15
  <2>1. (2 * i - 1) % 2 = 1 /\ ((2 * i - 1) + 1) \div 2 = i /\ (2 * i) % 2 # 1 /\ (2 * i) \div 2 = i
    OBVIOUS
  <2>2. 2 * i - 1 \in 1 .. 32 /\ 2 * i \in 1 .. 32
    OBVIOUS
  <2>3. G!Entry(i) = AuxTypes[i]
    BY <1>1 DEF G!Entry
  <2> DEFINE o == 2 * i - 1
             e == 2 * i
  <2>4. G!auxv[o] = G!Entry(i) /\ G!auxv[e] = <<"value", G!Entry(i)>>
    <3>1. o \in 1 .. 32 /\ o % 2 = 1 /\ (o + 1) \div 2 = i /\ e \in 1 .. 32 /\ e % 2 # 1 /\ e \div 2 = i
      BY <2>1, <2>2
    <3> HIDE DEF o, e
    <3>. QED
      BY <1>2, <3>1
  <2>. QED
    BY <2>3, <2>4
<1>5. G!auxv[31] = "AT_NULL"
  <2>1. 31 \in 1 .. 32 /\ 31 % 2 = 1 /\ (31 + 1) \div 2 = 16
    OBVIOUS
  <2>2. G!Entry(16) = "AT_NULL"
    BY <1>1 DEF G!Entry
  <2>. QED
    BY <1>2, <2>1, <2>2
<1>6. 2 * G!AUXC = 32 /\ Pairs = 32
  BY DEF Pairs, G!AUXC
<1>7. Len(G!auxv) = 32
  BY <1>3, Words
<1>. QED
  BY <1>1, <1>3, <1>4, <1>5, <1>6, <1>7

-----------------------------------------------------------------------------
(* What is on the stack at each stage. *)

Padding == [i \in 1 .. G!stackOffset |-> "padding"]
WithAuxv == Onto(G!auxv, Padding)
WithEnvp == Onto(EnvpList, WithAuxv)
WithArgv == Onto(ArgvList, WithEnvp)
Complete == Onto(Single(argc), WithArgv)

StackInv ==
    /\ argc \in Nat /\ envc \in Nat /\ top \in Int /\ top % 2 = 0
    /\ stage \in {"auxv", "envp", "argv", "argc", "done"}
    /\ stack = CASE stage = "auxv" -> Padding
                 [] stage = "envp" -> WithAuxv
                 [] stage = "argv" -> WithEnvp
                 [] stage = "argc" -> WithArgv
                 [] stage = "done" -> Complete
    /\ stackPos = top - Len(stack)

\* How long the parts are; together they are of even length.
LEMMA Lengths ==
    ASSUME G!StackAssumption, argc \in Nat, envc \in Nat
    PROVE  /\ G!stackOffset \in 0 .. 1
           /\ IsWords(Padding, G!stackOffset)
           /\ IsWords(WithAuxv, 32 + G!stackOffset)
           /\ IsWords(WithEnvp, envc + 33 + G!stackOffset)
           /\ IsWords(WithArgv, argc + envc + 34 + G!stackOffset)
           /\ IsWords(Complete, argc + envc + 35 + G!stackOffset)
           /\ (argc + envc + 35 + G!stackOffset) % 2 = 0
<1> DEFINE o == G!stackOffset
<1>1. o \in 0 .. 1 /\ (argc + envc + 35 + o) % 2 = 0
  <2> DEFINE n == argc + envc + 35
  <2>1. G!totalStackSize = n /\ n \in Nat
    BY DEF G!totalStackSize, G!AUXC
  <2> HIDE DEF n
  <2>2. o = (2 - (n % 2)) % 2
    BY <2>1 DEF G!stackOffset
  <2> HIDE DEF o
  <2>3. o \in 0 .. 1 /\ (n + o) % 2 = 0
    BY <2>1, <2>2
  <2>. QED
    BY <2>3 DEF n, o
<1> HIDE DEF o
<1>2. IsWords(Padding, o)
  BY DEF IsWords, Padding, o
<1>3. IsWords(WithAuxv, 32 + o)
  BY <1>1, <1>2, AuxvWords, Pushed DEF WithAuxv, Pairs, G!AUXC
<1>4. IsWords(WithEnvp, (envc + 1) + (32 + o))
  BY <1>1, <1>3, Lists, Pushed DEF WithEnvp
<1>5. IsWords(WithArgv, (argc + 1) + (envc + 33 + o))
  BY <1>1, <1>4, Lists, Pushed DEF WithArgv
<1>6. IsWords(Complete, 1 + (argc + envc + 34 + o))
  BY <1>1, <1>5, OneWordPushed, Pushed DEF Complete
<1>. QED
  BY <1>1, <1>2, <1>3, <1>4, <1>5, <1>6 DEF o

LEMMA StackInvInit ==
    ASSUME G!StackAssumption, G!Init
    PROVE  StackInv
<1>1. argc \in Nat /\ envc \in Nat /\ top \in Int /\ top % 2 = 0
  BY DEF G!Init, G!StackAssumption
<1>2. stack = Padding /\ stage = "auxv" /\ stackPos = top - G!stackOffset
  BY DEF G!Init, Padding
<1>3. Len(stack) = G!stackOffset
  <2>1. IsWords(Padding, G!stackOffset) /\ G!stackOffset \in Nat
    BY <1>1, Lengths
  <2>. QED
    BY <1>2, <2>1, Words
<1>. QED
  BY <1>1, <1>2, <1>3 DEF StackInv

LEMMA PushLength ==
    ASSUME NEW words, NEW n \in Nat, IsWords(words, n), NEW m \in Nat, IsWords(stack, m),
           stackPos = top - Len(stack), top \in Int, G!Push(words)
    PROVE  stackPos' = top - Len(stack')
<1>1. Len(stack) = m /\ Len(words) = n /\ Len(stack') = n + m
  <2>1. stack' = Onto(words, stack)
    BY DEF G!Push, Onto
  <2>2. IsWords(stack', n + m) /\ n + m \in Nat
    BY <2>1, Pushed
  <2>. QED
    BY <2>2, Words
<1>. QED
  BY <1>1 DEF G!Push

LEMMA StackInvNext ==
    ASSUME G!StackAssumption, StackInv, [G!Next]_G!vars
    PROVE  StackInv'
<1>1. argc \in Nat /\ envc \in Nat /\ top \in Int /\ top % 2 = 0 /\ stackPos = top - Len(stack)
  BY DEF StackInv
<1>2. G!stackOffset \in Nat
  BY <1>1, Lengths
<1>3. CASE G!PushAuxv
  <2>1. stage' = "envp" /\ G!Push(G!auxv) /\ stage = "auxv" /\ UNCHANGED <<argc, envc, top>>
    BY <1>3, AuxvWords DEF G!PushAuxv
  <2>2. stack = Padding
    BY <2>1 DEF StackInv
  <2>3. stackPos' = top - Len(stack')
    <3>1. IsWords(G!auxv, 32)
      BY AuxvWords DEF Pairs, G!AUXC
    <3>2. IsWords(stack, G!stackOffset)
      BY <1>1, <2>2, Lengths
    <3>. QED
      BY <1>1, <1>2, <2>1, <3>1, <3>2, PushLength
  <2>4. WithAuxv' = WithAuxv
    BY <2>1 DEF WithAuxv, Padding, G!stackOffset, G!totalStackSize
  <2>5. stack' = WithAuxv
    BY <2>1, <2>2 DEF G!Push, WithAuxv, Onto, Single
  <2>. QED
    BY <1>1, <2>1, <2>3, <2>4, <2>5 DEF StackInv
<1>4. CASE G!PushEnvp
  <2>1. stage' = "argv" /\ G!Push(EnvpList) /\ stage = "envp" /\ UNCHANGED <<argc, envc, top>>
    BY <1>4 DEF G!PushEnvp, EnvpList, List, Onto, Single
  <2>2. stack = WithAuxv
    BY <2>1 DEF StackInv
  <2>3. stackPos' = top - Len(stack')
    BY <1>1, <1>2, <2>1, <2>2, Lengths, Lists, PushLength
  <2>4. WithEnvp' = WithEnvp
    BY <2>1 DEF WithEnvp, ArgvList, EnvpList, List, WithAuxv, Padding, G!stackOffset, G!totalStackSize
  <2>5. stack' = WithEnvp
    BY <2>1, <2>2 DEF G!Push, WithEnvp, Onto, Single
  <2>. QED
    BY <1>1, <2>1, <2>3, <2>4, <2>5 DEF StackInv
<1>5. CASE G!PushArgv
  <2>1. stage' = "argc" /\ G!Push(ArgvList) /\ stage = "argv" /\ UNCHANGED <<argc, envc, top>>
    BY <1>5 DEF G!PushArgv, G!argvWords, ArgvList, List, Onto, Single
  <2>2. stack = WithEnvp
    BY <2>1 DEF StackInv
  <2>3. stackPos' = top - Len(stack')
    BY <1>1, <1>2, <2>1, <2>2, Lengths, Lists, PushLength
  <2>4. WithArgv' = WithArgv
    BY <2>1 DEF WithArgv, WithEnvp, ArgvList, EnvpList, List, WithAuxv, Padding, G!stackOffset, G!totalStackSize
  <2>5. stack' = WithArgv
    BY <2>1, <2>2 DEF G!Push, WithArgv, Onto, Single
  <2>. QED
    BY <1>1, <2>1, <2>3, <2>4, <2>5 DEF StackInv
<1>6. CASE G!PushArgc
  <2>1. stage' = "done" /\ G!Push(Single(argc)) /\ stage = "argc" /\ UNCHANGED <<argc, envc, top>>
    BY <1>6 DEF G!PushArgc, Single
  <2>2. stack = WithArgv
    BY <2>1 DEF StackInv
  <2>3. stackPos' = top - Len(stack')
    BY <1>1, <1>2, <2>1, <2>2, Lengths, OneWordPushed, PushLength
  <2>4. Complete' = Complete
    BY <2>1 DEF Complete, WithArgv, WithEnvp, ArgvList, EnvpList, List, WithAuxv, Padding, G!stackOffset, G!totalStackSize
  <2>5. stack' = Complete
    BY <2>1, <2>2 DEF G!Push, Complete, Onto, Single
  <2>. QED
    BY <1>1, <2>1, <2>3, <2>4, <2>5 DEF StackInv
<1>7. CASE UNCHANGED G!vars
  BY <1>7 DEF G!vars, StackInv, Complete, WithArgv, WithEnvp, ArgvList, EnvpList, List, WithAuxv, Padding,
              G!stackOffset, G!totalStackSize
<1>. QED
  BY <1>3, <1>4, <1>5, <1>6, <1>7 DEF G!Next

-----------------------------------------------------------------------------
(* What _start finds. *)

\* Where the words of the complete stack are.
LEMMA Found ==
    ASSUME G!StackAssumption, StackInv, stage = "done"
    PROVE  /\ Len(stack) \in Nat /\ Len(stack) >= argc + envc + 35
           /\ stack[1] = argc
           /\ \A i \in 1 .. argc : stack[1 + i] = <<"argv", i>> /\ stack[1 + i] # G!NULL
           /\ stack[argc + 2] = G!NULL
           /\ \A i \in 1 .. envc : stack[argc + 2 + i] = <<"envp", i>> /\ stack[argc + 2 + i] # G!NULL
           /\ stack[argc + envc + 3] = G!NULL
           /\ \A i \in 1 .. 32 : stack[argc + envc + 3 + i] = G!auxv[i]
           /\ Len(stack) % 2 = 0
           /\ IsWords(stack, Len(stack))
<1> DEFINE o == G!stackOffset
<1>1. argc \in Nat /\ envc \in Nat /\ stack = Complete
  BY DEF StackInv
<1>2. /\ o \in 0 .. 1 /\ IsWords(Padding, o) /\ IsWords(WithAuxv, 32 + o)
      /\ IsWords(WithEnvp, envc + 33 + o) /\ IsWords(WithArgv, argc + envc + 34 + o)
      /\ IsWords(Complete, argc + envc + 35 + o) /\ (argc + envc + 35 + o) % 2 = 0
  BY <1>1, Lengths
<1> HIDE DEF o
<1>3. Len(stack) = argc + envc + 35 + o
  <2>1. argc + envc + 35 + o \in Nat /\ IsWords(stack, argc + envc + 35 + o)
    BY <1>1, <1>2
  <2>. QED
    BY <2>1, Words
<1>4. Complete[1] = argc /\ \A i \in 1 .. argc + envc + 34 + o : Complete[1 + i] = WithArgv[i]
  <2>1. IsWords(Single(argc), 1) /\ Single(argc)[1] = argc /\ argc + envc + 34 + o \in Nat
    BY <1>1, <1>2, OneWordPushed
  <2>2. /\ \A i \in 1 .. 1 : Complete[i] = Single(argc)[i]
        /\ \A i \in 1 .. argc + envc + 34 + o : Complete[1 + i] = WithArgv[i]
    BY <1>2, <2>1, Pushed DEF Complete
  <2>. QED
    BY <2>1, <2>2
<1>5. /\ \A i \in 1 .. argc + 1 : WithArgv[i] = ArgvList[i]
      /\ \A i \in 1 .. envc + 33 + o : WithArgv[argc + 1 + i] = WithEnvp[i]
  <2> DEFINE n == argc + 1
             k == envc + 33 + o
  <2>1. n \in Nat /\ k \in Nat /\ IsWords(ArgvList, n) /\ IsWords(WithEnvp, k)
    BY <1>1, <1>2, Lists
  <2> HIDE DEF n, k
  <2>2. \A i \in 1 .. n : WithArgv[i] = ArgvList[i]
    BY <2>1, Pushed DEF WithArgv
  <2>3. \A i \in 1 .. k : WithArgv[n + i] = WithEnvp[i]
    BY <2>1, Pushed DEF WithArgv
  <2>. QED
    BY <1>1, <1>2, <2>2, <2>3 DEF n, k
<1>6. /\ \A i \in 1 .. envc + 1 : WithEnvp[i] = EnvpList[i]
      /\ \A i \in 1 .. 32 + o : WithEnvp[envc + 1 + i] = WithAuxv[i]
  <2> DEFINE n == envc + 1
             k == 32 + o
  <2>1. n \in Nat /\ k \in Nat /\ IsWords(EnvpList, n) /\ IsWords(WithAuxv, k)
    BY <1>1, <1>2, Lists
  <2> HIDE DEF n, k
  <2>2. \A i \in 1 .. n : WithEnvp[i] = EnvpList[i]
    BY <2>1, Pushed DEF WithEnvp
  <2>3. \A i \in 1 .. k : WithEnvp[n + i] = WithAuxv[i]
    BY <2>1, Pushed DEF WithEnvp
  <2>. QED
    BY <1>1, <1>2, <2>2, <2>3 DEF n, k
<1>7. \A i \in 1 .. 32 : WithAuxv[i] = G!auxv[i]
  <2>1. IsWords(G!auxv, 32) /\ o \in Nat
    BY <1>2, AuxvWords DEF Pairs, G!AUXC
  <2> DEFINE n == 32
  <2>2. n \in Nat /\ IsWords(G!auxv, n)
    BY <2>1
  <2> HIDE DEF n
  <2>3. \A i \in 1 .. n : WithAuxv[i] = G!auxv[i]
    BY <1>2, <2>1, <2>2, Pushed DEF WithAuxv
  <2>. QED
    BY <2>3 DEF n
<1>8. /\ \A i \in 1 .. argc : ArgvList[i] = <<"argv", i>> /\ ArgvList[i] # G!NULL
      /\ ArgvList[argc + 1] = G!NULL
      /\ \A i \in 1 .. envc : EnvpList[i] = <<"envp", i>> /\ EnvpList[i] # G!NULL
      /\ EnvpList[envc + 1] = G!NULL
  BY <1>1, Lists
<1>9. \A i \in 1 .. argc + 1 : Complete[1 + i] = ArgvList[i]
  <2> TAKE i \in 1 .. argc + 1
  <2>1. i \in 1 .. argc + envc + 34 + o
    BY <1>1, <1>2
  <2>. QED
    BY <2>1, <1>4, <1>5
<1>10. \A j \in 1 .. envc + 33 + o : Complete[argc + 2 + j] = WithEnvp[j]
  <2> TAKE j \in 1 .. envc + 33 + o
  <2>1. argc + 1 + j \in 1 .. argc + envc + 34 + o /\ argc + 2 + j = 1 + (argc + 1 + j)
    BY <1>1, <1>2
  <2>. QED
    BY <2>1, <1>4, <1>5
<1>11. \A j \in 1 .. envc + 1 : Complete[argc + 2 + j] = EnvpList[j]
  <2> TAKE j \in 1 .. envc + 1
  <2>1. j \in 1 .. envc + 33 + o
    BY <1>1, <1>2
  <2>. QED
    BY <2>1, <1>6, <1>10
<1>12. \A i \in 1 .. 32 : Complete[argc + envc + 3 + i] = G!auxv[i]
  <2> TAKE i \in 1 .. 32
  <2>1. /\ envc + 1 + i \in 1 .. envc + 33 + o /\ i \in 1 .. 32 + o
        /\ argc + envc + 3 + i = argc + 2 + (envc + 1 + i)
    BY <1>1, <1>2
  <2>. QED
    BY <2>1, <1>6, <1>7, <1>10
<1>13. Complete[argc + 2] = G!NULL /\ Complete[argc + envc + 3] = G!NULL
  <2>1. argc + 1 \in 1 .. argc + 1 /\ envc + 1 \in 1 .. envc + 1
        /\ argc + 2 = 1 + (argc + 1) /\ argc + envc + 3 = argc + 2 + (envc + 1)
    BY <1>1
  <2>. QED
    BY <2>1, <1>8, <1>9, <1>11
<1>14. \A i \in 1 .. argc : Complete[1 + i] = <<"argv", i>> /\ Complete[1 + i] # G!NULL
  BY <1>1, <1>8, <1>9
<1>15. \A i \in 1 .. envc : Complete[argc + 2 + i] = <<"envp", i>> /\ Complete[argc + 2 + i] # G!NULL
  BY <1>1, <1>8, <1>11
<1>. QED
  <2>1. /\ Len(stack) \in Nat /\ Len(stack) >= argc + envc + 35 /\ Len(stack) % 2 = 0
        /\ IsWords(stack, Len(stack))
    BY <1>1, <1>2, <1>3
  <2>. QED
    BY <1>1, <1>4, <1>12, <1>13, <1>14, <1>15, <2>1

\* A list is searched from k; its terminator is n words on.
LEMMA Ends ==
    ASSUME NEW k \in Nat, NEW n \in Nat, Len(stack) \in Nat, k + n <= Len(stack),
           stack[k + n] = G!NULL, \A i \in 0 .. n - 1 : stack[k + i] # G!NULL
    PROVE  G!EndOf(k) = k + n
<1> DEFINE P(e) == stack[e] = G!NULL /\ \A j \in k .. e - 1 : stack[j] # G!NULL
<1>1. k + n \in k .. Len(stack)
  OBVIOUS
<1>2. \A j \in k .. (k + n) - 1 : stack[j] # G!NULL
  <2> TAKE j \in k .. (k + n) - 1
  <2>1. j - k \in 0 .. n - 1 /\ k + (j - k) = j
    OBVIOUS
  <2>. QED
    BY <2>1
<1>3. P(k + n)
  BY <1>2
<1>4. \A e \in k .. Len(stack) : P(e) => e = k + n
  <2> SUFFICES ASSUME NEW e \in k .. Len(stack), P(e) PROVE e = k + n
    OBVIOUS
  <2>1. CASE e < k + n
    BY <1>2, <2>1
  <2>2. CASE e > k + n
    BY <2>2
  <2>. QED
    BY <2>1, <2>2
<1>5. G!EndOf(k) = CHOOSE e \in k .. Len(stack) : P(e)
  BY DEF G!EndOf
<1> HIDE DEF P
<1>. QED
  BY <1>1, <1>3, <1>4, <1>5

LEMMA StackInvEnds ==
    ASSUME G!StackAssumption, StackInv
    PROVE  G!StackBuilt
<1>1. stage # "failed"
  BY DEF StackInv
<1>2. ASSUME stage = "done" PROVE stackPos % 2 = 0
  <2>1. Len(stack) \in Nat /\ Len(stack) % 2 = 0
    BY <1>2, Found
  <2>2. top \in Int /\ top % 2 = 0 /\ stackPos = top - Len(stack)
    BY DEF StackInv
  <2>. QED
    BY <2>1, <2>2
<1>3. ASSUME stage = "done" PROVE G!StartFinds
  <2> DEFINE L == Len(stack)
  <2>1. argc \in Nat /\ envc \in Nat
    BY DEF StackInv
  <2>2. /\ L \in Nat /\ L >= argc + envc + 35
        /\ stack[1] = argc
        /\ \A i \in 1 .. argc : stack[1 + i] = <<"argv", i>> /\ stack[1 + i] # G!NULL
        /\ stack[argc + 2] = G!NULL
        /\ \A i \in 1 .. envc : stack[argc + 2 + i] = <<"envp", i>> /\ stack[argc + 2 + i] # G!NULL
        /\ stack[argc + envc + 3] = G!NULL
        /\ \A i \in 1 .. 32 : stack[argc + envc + 3 + i] = G!auxv[i]
        /\ IsWords(stack, L)
    BY <1>3, Found
  <2> HIDE DEF L
  <2>3. G!EndOf(2) = argc + 2
    <3>1. \A i \in 0 .. argc - 1 : stack[2 + i] # G!NULL
      <4> TAKE i \in 0 .. argc - 1
      <4>1. i + 1 \in 1 .. argc /\ 2 + i = 1 + (i + 1)
        BY <2>1
      <4>. QED
        BY <2>2, <4>1
    <3>2. stack[2 + argc] = G!NULL /\ 2 + argc <= Len(stack) /\ Len(stack) \in Nat
      BY <2>1, <2>2 DEF L
    <3>. QED
      BY <2>1, <3>1, <3>2, Ends
  <2>4. G!EnvpAt = argc + 3
    BY <2>2 DEF G!EnvpAt
  <2>5. G!EndOf(argc + 3) = argc + 3 + envc
    <3>1. \A i \in 0 .. envc - 1 : stack[(argc + 3) + i] # G!NULL
      <4> TAKE i \in 0 .. envc - 1
      <4>1. i + 1 \in 1 .. envc /\ (argc + 3) + i = argc + 2 + (i + 1)
        BY <2>1
      <4>. QED
        BY <2>2, <4>1
    <3>2. stack[(argc + 3) + envc] = G!NULL /\ (argc + 3) + envc <= Len(stack) /\ Len(stack) \in Nat
      <4> DEFINE e == (argc + 3) + envc
      <4>1. e = argc + envc + 3
        BY <2>1
      <4> HIDE DEF e
      <4>2. stack[e] = G!NULL
        BY <2>2, <4>1
      <4>3. e <= Len(stack) /\ Len(stack) \in Nat
        BY <2>1, <2>2, <4>1 DEF L
      <4>. QED
        BY <4>2, <4>3 DEF e
    <3>3. argc + 3 \in Nat
      BY <2>1
    <3>. QED
      BY <2>1, <3>1, <3>2, <3>3, Ends
  <2>6. SubSeq(stack, 2, argc + 1) = G!Pointers("argv", argc)
    <3>1. SubSeq(stack, 2, argc + 1) = [i \in 1 .. (argc + 1) - 2 + 1 |-> stack[2 + i - 1]]
      BY <2>1
    <3>2. \A i \in 1 .. argc : stack[2 + i - 1] = <<"argv", i>>
      <4> TAKE i \in 1 .. argc
      <4>1. 2 + i - 1 = 1 + i
        BY <2>1
      <4>. QED
        BY <2>2, <4>1
    <3>3. (argc + 1) - 2 + 1 = argc
      BY <2>1
    <3>. QED
      BY <3>1, <3>2, <3>3 DEF G!Pointers
  <2>7. SubSeq(stack, argc + 3, argc + 3 + envc - 1) = G!Pointers("envp", envc)
    <3> DEFINE b == argc + 3
    <3>1. b \in Nat
      BY <2>1
    <3>2. \A i \in 1 .. envc : stack[b + i - 1] = <<"envp", i>>
      <4> TAKE i \in 1 .. envc
      <4>1. b + i - 1 = argc + 2 + i
        BY <2>1
      <4>. QED
        BY <2>2, <4>1
    <3> HIDE DEF b
    <3>3. SubSeq(stack, b, b + envc - 1) = [i \in 1 .. (b + envc - 1) - b + 1 |-> stack[b + i - 1]]
      BY <2>1, <3>1
    <3>4. (b + envc - 1) - b + 1 = envc
      BY <2>1, <3>1
    <3>5. SubSeq(stack, b, b + envc - 1) = G!Pointers("envp", envc)
      BY <3>2, <3>3, <3>4 DEF G!Pointers
    <3>. QED
      BY <3>5 DEF b
  <2>8. G!AuxvAt = argc + envc + 4
    BY <2>1, <2>4, <2>5 DEF G!AuxvAt
  <2>9. \A i \in DOMAIN AuxTypes : /\ stack[G!AuxvAt + 2 * (i - 1)] = AuxTypes[i]
                                   /\ stack[G!AuxvAt + 2 * i - 1] = <<"value", AuxTypes[i]>>
    <3>1. DOMAIN AuxTypes = 1 .. 15
      BY AuxvWords
    <3> TAKE i \in DOMAIN AuxTypes
    <3>2. /\ 2 * i - 1 \in 1 .. 32 /\ 2 * i \in 1 .. 32 /\ i \in 1 .. 15
          /\ (argc + envc + 4) + 2 * (i - 1) = argc + envc + 3 + (2 * i - 1)
          /\ (argc + envc + 4) + 2 * i - 1 = argc + envc + 3 + 2 * i
      BY <2>1, <3>1
    <3>3. G!auxv[2 * i - 1] = AuxTypes[i] /\ G!auxv[2 * i] = <<"value", AuxTypes[i]>>
      BY <3>2, AuxvWords
    <3>4. /\ stack[argc + envc + 3 + (2 * i - 1)] = G!auxv[2 * i - 1]
          /\ stack[argc + envc + 3 + 2 * i] = G!auxv[2 * i]
      BY <2>2, <3>2
    <3>. QED
      BY <2>8, <3>2, <3>3, <3>4
  <2>10. stack[G!AuxvAt + 2 * Len(AuxTypes)] = "AT_NULL"
    <3>1. Len(AuxTypes) = 15 /\ G!auxv[31] = "AT_NULL"
      BY AuxvWords
    <3>2. (argc + envc + 4) + 2 * 15 = argc + envc + 3 + 31 /\ 31 \in 1 .. 32
      BY <2>1
    <3>. QED
      BY <2>2, <2>8, <3>1, <3>2
  <2>11. stack[1] = argc
    BY <2>2
  <2>. QED
    BY <2>3, <2>4, <2>5, <2>6, <2>7, <2>9, <2>10, <2>11 DEF G!StartFinds
<1>. QED
  BY <1>1, <1>2, <1>3 DEF G!StackBuilt, G!StackAligned, G!StartFinds

\* For any number of arguments and variables, _start finds them, both lists
\* terminated, and the auxiliary vector behind them, at a 16 byte aligned stack
\* pointer; copyArgsToStack reckons with as many entries as it pushes.
THEOREM StackBuiltHolds ==
    ASSUME G!StackAssumption
    PROVE  G!Spec => []G!StackBuilt
<1>1. G!Init => StackInv
  BY StackInvInit
<1>2. StackInv /\ [G!Next]_G!vars => StackInv'
  BY StackInvNext
<1>3. StackInv => G!StackBuilt
  BY StackInvEnds
<1>. QED
  BY <1>1, <1>2, <1>3, PTL DEF G!Spec
=============================================================================
