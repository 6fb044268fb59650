----------------------------- MODULE CodeCache -----------------------------
(***************************************************************************)
(* The code cache of the translator (src/src/cache/cache.c): an open       *)
(* addressing hash table with linear probing that doubles when it is half  *)
(* full, and a direct mapped TLB in front of it.                           *)
(*                                                                         *)
(* lookup_cache_entry and set_cache_entry are modelled one probe, one      *)
(* moved entry and one store at a time.  A call is named by `op`, and      *)
(* `pc` says where it is:                                                  *)
(*   idle      no call is running                                          *)
(*   probe     find_lin_slot of the call's address                         *)
(*   rehash    the for loop that moves old_table[i] to the new table       *)
(*   reprobe   find_lin_slot inside the recursive set_cache_entry          *)
(*   final     find_lin_slot of the call's address in the new table        *)
(*   panic     mmap failed and the process is gone                         *)
(***************************************************************************)
EXTENDS Naturals, FiniteSets

CONSTANTS Addrs,          \* guest block addresses
          Locs,           \* host code locations; TRANSLATION_STARTED is 1
          INITIAL_SIZE,   \* slots of the first table (a power of two)
          SMALLTLB        \* slots of the TLB (a power of two)

ASSUME AddrsAssumption == Addrs \subseteq Nat
ASSUME LocsAssumption  == Locs \subseteq Nat \ {0}
ASSUME SizesAssumption == INITIAL_SIZE \in Nat \ {0} /\ SMALLTLB \in Nat \ {0}

VARIABLES cache_table,    \* slot -> entry
          table_size,     \* slots of cache_table
          count_entries,  \* inserted entries, as the code counts them
          tlb,            \* slot -> entry
          pc,             \* where the running call is
          op,             \* the running call: its kind, address and location
          index,          \* the slot find_lin_slot looks at
          old_table,      \* the table being moved
          i,              \* the slot of old_table to move next
          ret             \* the last answer of lookup_cache_entry

table == <<cache_table, table_size, count_entries, tlb>>
call  == <<pc, op, index, old_table, i, ret>>
vars  == <<cache_table, table_size, count_entries, tlb,
           pc, op, index, old_table, i, ret>>

UNSEEN_CODE == 0

Entries == [risc_addr : Addrs \cup {0}, cache_loc : Locs \cup {UNSEEN_CODE}]

\* What MAP_ANONYMOUS memory holds.
ZeroEntry == [risc_addr |-> 0, cache_loc |-> UNSEEN_CODE]

Zeroed(n) == [s \in 0..(n - 1) |-> ZeroEntry]

NoOp == [kind |-> "none", addr |-> 0, loc |-> UNSEEN_CODE]

Ops == {NoOp} \cup [kind : {"lookup"}, addr : Addrs, loc : {UNSEEN_CODE}]
              \cup [kind : {"set"}, addr : Addrs, loc : Locs]

(***************************************************************************)
(* The two hashes.  The code masks with size - 1; the sizes are powers of  *)
(* two, for which that is the remainder.                                   *)
(***************************************************************************)
hash(a) == (a \div 4) % table_size

smallhash(a) == (a \div 8) % SMALLTLB

Occupied(e) == e.cache_loc # UNSEEN_CODE

\* The address find_lin_slot looks for.
Key == IF pc = "reprobe" THEN old_table[i].risc_addr ELSE op.addr

Probing == pc \in {"probe", "reprobe", "final"}

\* The condition that ends the while loop of find_lin_slot.
SlotFound == \/ ~Occupied(cache_table[index])
             \/ cache_table[index].risc_addr = Key

NextSlot(s) == IF s + 1 = table_size THEN 0 ELSE s + 1

\* Mutant: the table only grows when it is full.
NeedsResizeLate == count_entries >= table_size

NeedsResize == count_entries >= table_size \div 2

TlbHit(a) == tlb[smallhash(a)].risc_addr = a

set_tlb(a, l) ==
    tlb' = [tlb EXCEPT ![smallhash(a)] = [risc_addr |-> a, cache_loc |-> l]]

-----------------------------------------------------------------------------

Init == /\ table_size = INITIAL_SIZE
        /\ cache_table = Zeroed(INITIAL_SIZE)
        /\ count_entries = 0
        /\ tlb = Zeroed(SMALLTLB)
        /\ pc = "idle"
        /\ op = NoOp
        /\ index = 0
        /\ old_table = Zeroed(0)
        /\ i = 0
        /\ ret = [addr |-> 0, loc |-> UNSEEN_CODE]

\* lookup_cache_entry answered by the TLB.
LookupTlb(a) == /\ pc = "idle"
                /\ TlbHit(a)
                /\ ret' = [addr |-> a, loc |-> tlb[smallhash(a)].cache_loc]
                /\ UNCHANGED <<table, pc, op, index, old_table, i>>

\* lookup_cache_entry past the TLB: find_lin_slot starts.
LookupCall(a) == /\ pc = "idle"
                 /\ ~TlbHit(a)
                 /\ op' = [kind |-> "lookup", addr |-> a, loc |-> UNSEEN_CODE]
                 /\ pc' = "probe"
                 /\ index' = hash(a)
                 /\ UNCHANGED <<table, old_table, i, ret>>

\* set_cache_entry: find_lin_slot starts.
SetCall(a, l) == /\ pc = "idle"
                 /\ op' = [kind |-> "set", addr |-> a, loc |-> l]
                 /\ pc' = "probe"
                 /\ index' = hash(a)
                 /\ UNCHANGED <<table, old_table, i, ret>>

\* One turn of the while loop of find_lin_slot.
ProbeStep == /\ Probing
             /\ ~SlotFound
             /\ index' = NextSlot(index)
             /\ UNCHANGED <<table, pc, op, old_table, i, ret>>

Return == /\ pc' = "idle"
          /\ op' = NoOp
          /\ index' = 0

LookupHit == /\ pc = "probe" /\ op.kind = "lookup"
             /\ SlotFound /\ Occupied(cache_table[index])
             /\ set_tlb(op.addr, cache_table[index].cache_loc)
             /\ ret' = [addr |-> op.addr, loc |-> cache_table[index].cache_loc]
             /\ Return
             /\ UNCHANGED <<cache_table, table_size, count_entries, old_table, i>>

LookupMiss == /\ pc = "probe" /\ op.kind = "lookup"
              /\ ~Occupied(cache_table[index])
              /\ ret' = [addr |-> op.addr, loc |-> UNSEEN_CODE]
              /\ Return
              /\ UNCHANGED <<table, old_table, i>>

\* Mutant: the count is kept.
ResizeKeepsCount == /\ pc = "probe" /\ op.kind = "set"
                    /\ SlotFound /\ NeedsResize
                    /\ table_size' = 2 * table_size
                    /\ cache_table' = Zeroed(2 * table_size)
                    /\ old_table' = cache_table
                    /\ i' = 0
                    /\ pc' = "rehash"
                    /\ UNCHANGED <<count_entries, tlb, op, index, ret>>

\* Half of the table is used: a zeroed table of twice the size takes its place.
Resize == /\ pc = "probe" /\ op.kind = "set"
          /\ SlotFound /\ NeedsResize
          /\ table_size' = 2 * table_size
          /\ cache_table' = Zeroed(2 * table_size)
          /\ count_entries' = 0
          /\ old_table' = cache_table
          /\ i' = 0
          /\ pc' = "rehash"
          /\ UNCHANGED <<tlb, op, index, ret>>

\* mmap fails: table_size is already doubled, and panic ends the process.
ResizeFails == /\ pc = "probe" /\ op.kind = "set"
               /\ SlotFound /\ NeedsResize
               /\ pc' = "panic"
               /\ UNCHANGED <<table, op, index, old_table, i, ret>>

\* Mutant: an entry with address 0 is taken for a free slot.
RehashSkipZero == /\ pc = "rehash"
                  /\ i < table_size \div 2
                  /\ old_table[i].risc_addr = 0
                  /\ i' = i + 1
                  /\ UNCHANGED <<table, pc, op, index, old_table, ret>>

RehashSkip == /\ pc = "rehash"
              /\ i < table_size \div 2
              /\ ~Occupied(old_table[i])
              /\ i' = i + 1
              /\ UNCHANGED <<table, pc, op, index, old_table, ret>>

\* The recursive set_cache_entry: find_lin_slot of the entry to move.
RehashMove == /\ pc = "rehash"
              /\ i < table_size \div 2
              /\ Occupied(old_table[i])
              /\ index' = hash(old_table[i].risc_addr)
              /\ pc' = "reprobe"
              /\ UNCHANGED <<table, op, old_table, i, ret>>

\* Mutant: the TLB is not told.
StoreEntryWithoutTlb(a, l) ==
    /\ cache_table' = [cache_table EXCEPT
                         ![index] = [risc_addr |-> a, cache_loc |-> l]]
    /\ count_entries' = IF Occupied(cache_table[index])
                        THEN count_entries ELSE count_entries + 1
    /\ UNCHANGED <<table_size, tlb>>

\* The end of set_cache_entry: update or insert, then the TLB.
StoreEntry(a, l) ==
    /\ cache_table' = [cache_table EXCEPT
                         ![index] = [risc_addr |-> a, cache_loc |-> l]]
    /\ count_entries' = IF Occupied(cache_table[index])
                        THEN count_entries ELSE count_entries + 1
    /\ set_tlb(a, l)
    /\ UNCHANGED table_size

\* ... of the recursive call.  Its own test for a resize comes first: the
\* guard leaves the nested resize out, and RehashFits says it never comes.
Reinsert == /\ pc = "reprobe"
            /\ SlotFound /\ ~NeedsResize
            /\ StoreEntry(old_table[i].risc_addr, old_table[i].cache_loc)
            /\ pc' = "rehash"
            /\ i' = i + 1
            /\ UNCHANGED <<op, index, old_table, ret>>

\* Mutant: the last slot of the old table is forgotten.
RehashDoneEarly == /\ pc = "rehash"
                   /\ i = (table_size \div 2) - 1
                   /\ old_table' = Zeroed(0)
                   /\ i' = 0
                   /\ index' = hash(op.addr)
                   /\ pc' = "final"
                   /\ UNCHANGED <<table, op, ret>>

\* Mutant: the slot found in the old table is used in the new one.
RehashDoneOldIndex == /\ pc = "rehash"
                      /\ i = table_size \div 2
                      /\ old_table' = Zeroed(0)
                      /\ i' = 0
                      /\ pc' = "final"
                      /\ UNCHANGED <<table, op, index, ret>>

\* munmap(old_table), and find_lin_slot starts again for the call's address.
RehashDone == /\ pc = "rehash"
              /\ i = table_size \div 2
              /\ old_table' = Zeroed(0)
              /\ i' = 0
              /\ index' = hash(op.addr)
              /\ pc' = "final"
              /\ UNCHANGED <<table, op, ret>>

Store == /\ \/ pc = "probe" /\ op.kind = "set" /\ ~NeedsResize
            \/ pc = "final"
         /\ SlotFound
         /\ StoreEntry(op.addr, op.loc)
         /\ Return
         /\ UNCHANGED <<old_table, i, ret>>

\* After panic nothing happens any more.
Halted == pc = "panic" /\ UNCHANGED vars

\* The steps of a running call.
Work == \/ ProbeStep \/ LookupHit \/ LookupMiss
        \/ Resize \/ ResizeFails
        \/ RehashSkip \/ RehashMove \/ Reinsert \/ RehashDone
        \/ Store

Next == \/ \E a \in Addrs : \/ LookupTlb(a)
                            \/ LookupCall(a)
                            \/ \E l \in Locs : SetCall(a, l)
        \/ Work
        \/ Halted

Spec == Init /\ [][Next]_vars

\* A call that runs goes on: the cache has no lock to wait for and no callback.
FairSpec == Spec /\ WF_vars(Work)

-----------------------------------------------------------------------------

TypeOK ==
    /\ table_size \in Nat \ {0}
    /\ cache_table \in [0..(table_size - 1) -> Entries]
    /\ count_entries \in Nat
    /\ tlb \in [0..(SMALLTLB - 1) -> Entries]
    /\ pc \in {"idle", "probe", "rehash", "reprobe", "final", "panic"}
    /\ op \in Ops
    /\ (pc = "idle") <=> (op = NoOp)
    /\ pc \in {"rehash", "reprobe", "final", "panic"} => op.kind = "set"
    /\ index \in 0..(table_size - 1)
    /\ i \in Nat
    /\ IF pc \in {"rehash", "reprobe"}
       THEN /\ table_size = 2 * (table_size \div 2)
            /\ old_table \in [0..((table_size \div 2) - 1) -> Entries]
            /\ i <= table_size \div 2
            /\ pc = "reprobe" => i < table_size \div 2 /\ Occupied(old_table[i])
       ELSE old_table = Zeroed(0) /\ i = 0
    /\ ret \in [addr : Addrs \cup {0}, loc : Locs \cup {UNSEEN_CODE}]

(***************************************************************************)
(* The map the two tables stand for.  While entries move, the old table    *)
(* still holds all of it.                                                  *)
(***************************************************************************)
Contents(t) == {t[s] : s \in {s \in DOMAIN t : Occupied(t[s])}}

Rehashing == pc \in {"rehash", "reprobe"}

Live == Contents(IF Rehashing THEN old_table ELSE cache_table)

Stored(entries, a) ==
    IF \E e \in entries : e.risc_addr = a
    THEN (CHOOSE e \in entries : e.risc_addr = a).cache_loc
    ELSE UNSEEN_CODE

BlockMapOf == [a \in Addrs |-> Stored(Live, a)]

\* The number of slots a probe that starts at slot h has passed at slot s.
Dist(h, s) == IF s >= h THEN s - h ELSE s + table_size - h

\* Every slot a probe for address a passes before slot s holds another block.
Passed(a, s) == \A r \in 0..(table_size - 1) :
    Dist(hash(a), r) < Dist(hash(a), s) =>
        Occupied(cache_table[r]) /\ cache_table[r].risc_addr # a

StoredPassed == \A s \in 0..(table_size - 1) :
    Occupied(cache_table[s]) => Passed(cache_table[s].risc_addr, s)

(***************************************************************************)
(* Linear probing finds what was stored: no slot before a block's own, on  *)
(* the cyclic way from its hash, is free or holds the same address again.  *)
(* find_lin_slot would otherwise stop early, lookup_cache_entry would call *)
(* a translated block unseen, and set_cache_entry would store it twice.    *)
(* It must survive each doubling, with entries in between the two tables.  *)
(***************************************************************************)
ProbePaths ==
    /\ StoredPassed
    /\ Probing => Passed(Key, index)

(***************************************************************************)
(* A TLB hit answers what the table would answer, at every step of every   *)
(* call: after an update of TRANSLATION_STARTED to the block, while the    *)
(* recursive calls of a resize refill the TLB, and for guest address 0,    *)
(* which hits the zeroed TLB.                                              *)
(***************************************************************************)
TlbCoherent == \A a \in Addrs :
    TlbHit(a) => tlb[smallhash(a)].cache_loc = BlockMapOf[a]

(***************************************************************************)
(* The move of a resize loses and invents nothing: the new table holds     *)
(* exactly the entries of the old one that the loop has passed.            *)
(***************************************************************************)
RehashKeepsAll == Rehashing =>
    Contents(cache_table) = {old_table[s] : s \in {s \in 0..(i - 1) : Occupied(old_table[s])}}

(***************************************************************************)
(* The recursive set_cache_entry of a resize never resizes again (it would *)
(* replace the table under the outer loop), and no insertion leaves more   *)
(* than half of the table in use, so that find_lin_slot always has a free  *)
(* slot to stop at.  Both rest on count_entries, which the recursion       *)
(* rebuilds from 0.                                                        *)
(***************************************************************************)
RehashFits ==
    /\ pc = "reprobe" => ~NeedsResize
    /\ count_entries = Cardinality({s \in DOMAIN cache_table : Occupied(cache_table[s])})
    /\ count_entries <= table_size \div 2

(***************************************************************************)
(* The hash table with its TLB implements the map that cache.h promises.   *)
(***************************************************************************)
Map == INSTANCE BlockMap WITH map <- BlockMapOf, ret <- ret

ImplementsBlockMap == Map!Spec

(***************************************************************************)
(* Every call returns (or the process panics): probing is over after at    *)
(* most one turn round the table, and the move of a resize ends.           *)
(***************************************************************************)
CallsReturn == (pc # "idle") ~> (pc \in {"idle", "panic"})
=============================================================================
