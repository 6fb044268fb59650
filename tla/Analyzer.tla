------------------------------ MODULE Analyzer ------------------------------
(***************************************************************************)
(* The statistics of --analyze (src/util/tools/analyze.c): one pass over   *)
(* the executable segment counts mnemonics, registers and pairs of         *)
(* instructions the second of which uses the result of the first; a report *)
(* ranks them.  A pair is filed under its two mnemonics, then under six    *)
(* bits that say which of its registers are equal, then in a list of the   *)
(* immediates it occurred with, whose nodes come from pages of their own.  *)
(***************************************************************************)
EXTENDS Integers, SequencesExt, FiniteSetsExt, TLC

CONSTANTS
    Code,              \* the parsed instructions the segment may hold
    MaxLength,         \* bound: instructions in the segment
    NodesPerPage,      \* list nodes on a page, 170 in the code
    LastCombination    \* index of the last pair of mnemonics that is printed, 200 in the code

VARIABLES
    segment,           \* what has been read
    prev, cur,         \* the last two instructions
    mnem_count, reg_count,
    array,             \* <<mnemonic, mnemonic>> -> flags -> list of nodes
    pages,             \* pages allocated for nodes
    nextFree,          \* nodes used on the last one; NoPage when it is full
    report             \* what has been printed, NoReport before

vars == <<segment, prev, cur, mnem_count, reg_count, array, pages, nextFree, report>>
-----------------------------------------------------------------------------
INVALID_REG == 33
Nothing == [mnem |-> "INVALID_MNEM", rd |-> 0, rs1 |-> 0, rs2 |-> 0, imm |-> 0]
NoPage == -1
NoReport == <<>>
Flags == 0 .. 63
Mnems == {i.mnem : i \in Code} \cup {"INVALID_MNEM"}
Regs == 0 .. INVALID_REG

\* array[m1].followingMnem[m2] is NULL where no such pair was seen.
NoLists == [f \in {} |-> <<>>]
ListsOf(a, pair) == IF pair \in DOMAIN a THEN a[pair] ELSE NoLists
ListOf(lists, f) == IF f \in DOMAIN lists THEN lists[f] ELSE <<>>

Uses(p, c) == p.rd = c.rs1 \/ p.rd = c.rs2

Bit(b, n) == IF b THEN n ELSE 0
FlagsOf(p, c) ==
    Bit(p.rd = p.rs1, 1) + Bit(p.rd = p.rs2, 2) + Bit(p.rs1 = p.rs2, 4)
      + Bit(p.rd = c.rs1, 8)
      + Bit(c.rd = IF p.rd = c.rs1 THEN c.rs1 ELSE c.rs2, 16)
      + Bit(c.rs1 = c.rs2, 32)

\* getOrAllocateNode(): the node and what the allocator is left with.
Allocate ==
    LET page == IF nextFree = NoPage THEN pages + 1 ELSE pages
        used == IF nextFree = NoPage THEN 0 ELSE nextFree
    IN [node |-> <<page, used>>, pages |-> page,
        next |-> IF used + 1 >= NodesPerPage THEN NoPage ELSE used + 1]

\* The node of these immediates.
PlaceOf(list, i1, i2) == {k \in DOMAIN list : list[k].imm1 = i1 /\ list[k].imm2 = i2}

NewNode(i1, i2) == [imm1 |-> i1, imm2 |-> i2, count |-> 1, node |-> Allocate.node]

Counted(list, i1, i2) ==
    IF PlaceOf(list, i1, i2) = {} THEN Append(list, NewNode(i1, i2))
    ELSE [list EXCEPT ![Min(PlaceOf(list, i1, i2))].count = @ + 1]

Put(m, k, v) == [x \in DOMAIN m \cup {k} |-> IF x = k THEN v ELSE m[x]]

File(p, c) ==
    LET pair == <<p.mnem, c.mnem>>  lists == ListsOf(array, pair)  f == FlagsOf(p, c)
    IN Put(array, pair, Put(lists, f, Counted(ListOf(lists, f), p.imm, c.imm)))

Mentions(i, r) == Bit(i.rs1 = r, 1) + Bit(i.rs2 = r, 1) + Bit(i.rd = r, 1)

Init ==
    /\ segment = <<>> /\ prev = Nothing /\ cur = Nothing
    /\ mnem_count = [m \in Mnems |-> 0] /\ reg_count = [r \in Regs |-> 0]
    /\ array = [p \in {} |-> NoLists]
    /\ pages = 0 /\ nextFree = NoPage
    /\ report = NoReport

add_instruction(i) ==
    /\ segment' = Append(segment, i)
    /\ prev' = cur
    /\ cur' = i
    /\ mnem_count' = [mnem_count EXCEPT ![i.mnem] = @ + 1]
    /\ reg_count' = [r \in Regs |-> reg_count[r] + Mentions(i, r)]
    /\ IF ~Uses(cur, i) THEN UNCHANGED <<array, pages, nextFree>>
       ELSE LET old == ListOf(ListsOf(array, <<cur.mnem, i.mnem>>), FlagsOf(cur, i))
            IN /\ array' = File(cur, i)
               /\ IF PlaceOf(old, cur.imm, i.imm) = {}
                  THEN pages' = Allocate.pages /\ nextFree' = Allocate.next
                  ELSE UNCHANGED <<pages, nextFree>>
    /\ UNCHANGED report
-----------------------------------------------------------------------------
PairsIn(list) == FoldLeft(LAMBDA n, e : n + e.count, 0, list)

\* The insertion sort of mnemonics and registers: a key moves before those
\* that are used less.
Ranked(keys, count) ==
    LET place(sorted, key) == SelectSeq(sorted, LAMBDA o : count[o] >= count[key]) \o <<key>>
                                \o SelectSeq(sorted, LAMBDA o : count[o] < count[key])
    IN FoldLeft(place, <<>>, keys)

\* It is printed up to the first that is not used at all.
RankingOf(keys, count) ==
    LET r == Ranked(keys, count)
        unused == {k \in DOMAIN r : count[r[k]] = 0}
    IN IF unused = {} THEN r ELSE SubSeq(r, 1, Min(unused) - 1)

\* sortedInsert(): before the first node that is not used more often.
sortedInsert(list, e) ==
    LET after == {k \in DOMAIN list : \A j \in 1 .. k : list[j].count > e.count}
        n == Cardinality(after)
    IN SubSeq(list, 1, n) \o <<e>> \o SubSeq(list, n + 1, Len(list))

insertionSort(list) == FoldLeft(sortedInsert, <<>>, list)

\* The loop over lvl3, from index 1 on: sort the list of an entry, then move
\* the entry before those with fewer pairs; a NULL is an empty list.
SortedFrom(k, lists) == IF k = 0 THEN ListOf(lists, k) ELSE insertionSort(ListOf(lists, k))

\* Mutant: the entry with the fewest pairs comes first.
MoveBackward(a, k, x) ==
    LET kept == {l \in 0 .. k - 1 : a[l] # <<>> /\ PairsIn(a[l]) <= PairsIn(x)}
        at == IF kept = {} THEN 0 ELSE Max(kept) + 1
    IN IF x = <<>> THEN a
       ELSE [l \in Flags |-> IF l = at THEN x ELSE IF l \in at + 1 .. k THEN a[l - 1] ELSE a[l]]

Move(a, k, x) ==
    LET kept == {l \in 0 .. k - 1 : a[l] # <<>> /\ PairsIn(a[l]) >= PairsIn(x)}
        at == IF kept = {} THEN 0 ELSE Max(kept) + 1
    IN IF x = <<>> THEN a
       ELSE [l \in Flags |-> IF l = at THEN x ELSE IF l \in at + 1 .. k THEN a[l - 1] ELSE a[l]]

SortEntries(lists) ==
    FoldLeft(LAMBDA a, k : Move(a, k, SortedFrom(k, lists)),
             [f \in Flags |-> ListOf(lists, f)], [k \in 1 .. 63 |-> k])

\* What is printed of a pair: its entries up to the first NULL.
Printed(a) ==
    LET n == Min({f \in Flags : a[f] = <<>>}) IN [k \in 1 .. n |-> a[k - 1]]

\* lvl2->count: all that was counted under two mnemonics.
Total(lists) == FoldFunction(+, 0, [f \in DOMAIN lists |-> PairsIn(lists[f])])

\* The pairs of mnemonics, sorted by the same insertion; the loop that prints
\* them stops behind index LastCombination.
Combinations ==
    LET sorted == Ranked(SetToSeq(DOMAIN array), [p \in DOMAIN array |-> Total(array[p])])
    IN [k \in 1 .. Min({Len(sorted), LastCombination + 1}) |->
          [mnems |-> sorted[k], count |-> Total(array[sorted[k]]),
           entries |-> Printed(SortEntries(array[sorted[k]]))]]

Report ==
    /\ report = NoReport /\ segment # <<>>
    /\ report' = [mnems |-> RankingOf(SetToSeq(Mnems), mnem_count),
                  regs |-> RankingOf([k \in 1 .. 34 |-> k - 1], reg_count),
                  pairs |-> Combinations]
    /\ UNCHANGED <<segment, prev, cur, mnem_count, reg_count, array, pages, nextFree>>

Read ==
    /\ report = NoReport /\ Len(segment) < MaxLength
    /\ \E i \in Code : add_instruction(i)

Next == Read \/ Report

Spec == Init /\ [][Next]_vars
-----------------------------------------------------------------------------
Lists == UNION {{array[p][f] : f \in DOMAIN array[p]} : p \in DOMAIN array}
Nodes == UNION {{list[k] : k \in DOMAIN list} : list \in Lists}

TypeOK ==
    /\ segment \in Seq(Code)
    /\ \A m \in Mnems : mnem_count[m] \in Nat
    /\ \A p \in DOMAIN array : p \in Mnems \X Mnems /\ DOMAIN array[p] \subseteq Flags
    /\ pages \in Nat
    /\ nextFree \in {NoPage} \cup 0 .. NodesPerPage - 1

\* What was counted of a pair of mnemonics is how often the segment has it
\* with a register in common, whatever the flags and the immediates are.
PairsCounted ==
    \A p \in Mnems \X Mnems :
      Total(ListsOf(array, p)) =
        Cardinality({k \in DOMAIN segment :
          LET before == IF k = 1 THEN Nothing ELSE segment[k - 1]
          IN <<before.mnem, segment[k].mnem>> = p /\ Uses(before, segment[k])})

\* How often the segment has a pair with the flags f and a node's immediates.
Occurrences(p, f, n) ==
    Cardinality({k \in DOMAIN segment :
      LET before == IF k = 1 THEN Nothing ELSE segment[k - 1]
      IN /\ <<before.mnem, segment[k].mnem>> = p /\ FlagsOf(before, segment[k]) = f
         /\ Uses(before, segment[k])
         /\ before.imm = n.imm1 /\ segment[k].imm = n.imm2})

\* Two nodes never share their memory and lie within a page: a node counts
\* one combination of immediates, all of it and nothing else.
NodesApart ==
    /\ \A n \in Nodes : n.node[1] \in 1 .. pages /\ n.node[2] < NodesPerPage
    /\ \A n, o \in Nodes : n.node = o.node => n = o
    /\ \A p \in DOMAIN array : \A f \in DOMAIN array[p] : \A k \in DOMAIN array[p][f] :
         array[p][f][k].count = Occurrences(p, f, array[p][f][k])

ListsAll(list, used, count) ==
    /\ ToSet(list) = used /\ Len(list) = Cardinality(used)
    /\ \A k \in 2 .. Len(list) : count[list[k - 1]] >= count[list[k]]

\* Every mnemonic and every register that occurs is listed once, the most
\* used first: the lists end at the first unused one, so a wrong order
\* would also hide used ones.
RankingsComplete ==
    report # NoReport =>
      /\ ListsAll(report.mnems, {i.mnem : i \in ToSet(segment)}, mnem_count)
      /\ ListsAll(report.regs, UNION {{i.rs1, i.rs2, i.rd} : i \in ToSet(segment)}, reg_count)

\* The report lists the most frequent pairs of mnemonics, each of them once: what
\* it leaves out is no more frequent than what it lists.
CombinationsRanked ==
    report # NoReport =>
      LET listed == report.pairs
          all == DOMAIN array
      IN /\ Len(listed) = Min({Cardinality(all), LastCombination + 1})
         /\ \A k \in DOMAIN listed : listed[k].mnems \in all
         /\ \A j, k \in DOMAIN listed : j < k =>
              listed[j].mnems # listed[k].mnems /\ listed[j].count >= listed[k].count
         /\ \A p \in all \ {listed[k].mnems : k \in DOMAIN listed} :
              \A k \in DOMAIN listed : Total(array[p]) <= listed[k].count

\* It lists every entry of such a pair, the frequent ones first.
EntriesRanked ==
    report # NoReport => \A k \in DOMAIN report.pairs :
      LET printed == report.pairs[k].entries
      IN /\ Len(printed) = Cardinality(DOMAIN array[report.pairs[k].mnems])
         /\ \A e \in 2 .. Len(printed) : PairsIn(printed[e - 1]) >= PairsIn(printed[e])

\* "The most used immediate values were: ": the report prints the first
\* eight nodes of each list.
MostUsedFirst ==
    report # NoReport =>
      \A p \in DOMAIN report.pairs : \A e \in DOMAIN report.pairs[p].entries :
        LET list == report.pairs[p].entries[e]
        IN \A k \in 2 .. Len(list) : list[k - 1].count >= list[k].count

=============================================================================
