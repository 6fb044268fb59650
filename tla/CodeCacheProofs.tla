-------------------------- MODULE CodeCacheProofs --------------------------
(***************************************************************************)
(* Proofs about CodeCache for every set of addresses and locations and     *)
(* every size of the two tables: that the probe paths are complete, that   *)
(* a resize moves exactly the entries of the old table, that the TLB       *)
(* agrees with the table, and that the code cache implements BlockMap.     *)
(***************************************************************************)
EXTENDS CodeCache, FiniteSetTheorems, TLAPS

-----------------------------------------------------------------------------
(* The two hashes stay inside their tables. *)

LEMMA HashRange ==
    ASSUME NEW a \in Nat, TypeOK
    PROVE  hash(a) \in 0..(table_size - 1)
<1>1. table_size \in Nat /\ table_size > 0
  BY DEF TypeOK
<1>2. a \div 4 \in Nat
  OBVIOUS
<1>. QED
  BY <1>1, <1>2 DEF hash

LEMMA SmallhashRange ==
    ASSUME NEW a \in Nat
    PROVE  smallhash(a) \in 0..(SMALLTLB - 1)
<1>1. SMALLTLB \in Nat /\ SMALLTLB > 0
  BY SizesAssumption
<1>2. a \div 8 \in Nat
  OBVIOUS
<1>. QED
  BY <1>1, <1>2 DEF smallhash

-----------------------------------------------------------------------------
(* Type correctness. *)

LEMMA EntryAddr ==
    ASSUME NEW e \in Entries
    PROVE  e.risc_addr \in Addrs \cup {0} /\ e.risc_addr \in Nat
<1>1. e.risc_addr \in Addrs \cup {0}
  BY DEF Entries
<1>2. \A x \in Addrs \cup {0} : x \in Nat
  BY AddrsAssumption DEF AddrsAssumption
<1>. QED
  BY <1>1, <1>2

LEMMA KeyType ==
    ASSUME TypeOK, Probing
    PROVE  Key \in Nat /\ Key \in Addrs \cup {0}
<1>1. CASE pc = "reprobe"
  <2>1. i \in 0..((table_size \div 2) - 1)
    BY <1>1 DEF TypeOK
  <2>2. old_table[i] \in Entries
    BY <1>1, <2>1 DEF TypeOK
  <2>. QED
    BY <1>1, <2>2, EntryAddr DEF Key
<1>2. CASE pc # "reprobe"
  <2>1. op # NoOp /\ op \in Ops
    BY <1>2 DEF TypeOK, Probing
  <2>2. op.addr \in Addrs
    BY <2>1 DEF Ops
  <2>. QED
    BY <1>2, <2>2, AddrsAssumption DEF Key
<1>. QED
  BY <1>1, <1>2

LEMMA InitTypeOK == Init => TypeOK
BY SizesAssumption, AddrsAssumption
   DEF Init, TypeOK, Zeroed, ZeroEntry, Entries, Ops, NoOp, UNSEEN_CODE

LEMMA NextTypeOK ==
    ASSUME TypeOK, [Next]_vars
    PROVE  TypeOK'
<1>. USE DEF UNSEEN_CODE
<1>1. ASSUME NEW a \in Addrs, LookupTlb(a)
      PROVE  TypeOK'
  <2>1. a \in Nat
    BY AddrsAssumption
  <2>2. tlb[smallhash(a)] \in Entries
    BY <2>1, SmallhashRange DEF TypeOK
  <2>. QED
    BY <1>1, <2>2 DEF LookupTlb, TypeOK, table, Entries
<1>2. ASSUME NEW a \in Addrs, LookupCall(a)
      PROVE  TypeOK'
  <2>1. hash(a) \in 0..(table_size - 1)
    BY HashRange, AddrsAssumption
  <2>. QED
    BY <1>2, <2>1 DEF LookupCall, TypeOK, table, Ops, NoOp
<1>3. ASSUME NEW a \in Addrs, NEW l \in Locs, SetCall(a, l)
      PROVE  TypeOK'
  <2>1. hash(a) \in 0..(table_size - 1)
    BY HashRange, AddrsAssumption
  <2>. QED
    BY <1>3, <2>1 DEF SetCall, TypeOK, table, Ops, NoOp
<1>4. ASSUME ProbeStep
      PROVE  TypeOK'
  <2>1. NextSlot(index) \in 0..(table_size - 1)
    BY DEF NextSlot, TypeOK
  <2>. QED
    BY <1>4, <2>1 DEF ProbeStep, TypeOK, table
<1>5. ASSUME LookupHit
      PROVE  TypeOK'
  <2>1. op.addr \in Addrs
    BY <1>5 DEF LookupHit, TypeOK, Ops, NoOp
  <2>2. cache_table[index] \in Entries
    BY DEF TypeOK
  <2>3. tlb' \in [0..(SMALLTLB - 1) -> Entries]
    BY <1>5, <2>1, <2>2 DEF LookupHit, set_tlb, TypeOK, Entries
  <2>. QED
    BY <1>5, <2>1, <2>2, <2>3 DEF LookupHit, Return, TypeOK, Entries, Ops
<1>6. ASSUME LookupMiss
      PROVE  TypeOK'
  <2>1. op.addr \in Addrs
    BY <1>6 DEF LookupMiss, TypeOK, Ops, NoOp
  <2>. QED
    BY <1>6, <2>1 DEF LookupMiss, Return, table, TypeOK, Ops
<1>7. ASSUME Resize
      PROVE  TypeOK'
  <2>1. Zeroed(2 * table_size) \in [0..((2 * table_size) - 1) -> Entries]
    BY DEF Zeroed, ZeroEntry, Entries
  <2>2. 2 * table_size \in Nat \ {0} /\ (2 * table_size) \div 2 = table_size
    BY DEF TypeOK
  <2>3. index \in 0..((2 * table_size) - 1)
    BY DEF TypeOK
  <2>. QED
    BY <1>7, <2>1, <2>2, <2>3 DEF Resize, TypeOK
<1>8. ASSUME ResizeFails
      PROVE  TypeOK'
  BY <1>8 DEF ResizeFails, TypeOK, table, NoOp
<1>9. ASSUME RehashSkip
      PROVE  TypeOK'
  BY <1>9 DEF RehashSkip, TypeOK, table
<1>10. ASSUME RehashMove
       PROVE  TypeOK'
  <2>1. old_table[i] \in Entries
    BY <1>10 DEF RehashMove, TypeOK
  <2>2. old_table[i].risc_addr \in Nat
    BY <2>1, EntryAddr
  <2>3. hash(old_table[i].risc_addr) \in 0..(table_size - 1)
    BY <2>2, HashRange
  <2>. QED
    BY <1>10, <2>3 DEF RehashMove, TypeOK, table
<1>11. ASSUME Reinsert
       PROVE  TypeOK'
  <2>1. old_table[i] \in Entries /\ Occupied(old_table[i])
    BY <1>11 DEF Reinsert, TypeOK
  <2>2. cache_table' \in [0..(table_size - 1) -> Entries]
    BY <1>11, <2>1 DEF Reinsert, StoreEntry, TypeOK, Entries
  <2>3. tlb' \in [0..(SMALLTLB - 1) -> Entries]
    BY <1>11, <2>1 DEF Reinsert, StoreEntry, set_tlb, TypeOK, Entries
  <2>. QED
    BY <1>11, <2>2, <2>3 DEF Reinsert, StoreEntry, TypeOK
<1>12. ASSUME RehashDone
       PROVE  TypeOK'
  <2>1. op.addr \in Addrs
    BY <1>12 DEF RehashDone, TypeOK, Ops, NoOp
  <2>2. hash(op.addr) \in 0..(table_size - 1)
    BY <2>1, HashRange, AddrsAssumption
  <2>. QED
    BY <1>12, <2>2 DEF RehashDone, TypeOK, table
<1>13. ASSUME Store
       PROVE  TypeOK'
  <2>1. op.kind = "set" /\ op.addr \in Addrs /\ op.loc \in Locs
    BY <1>13 DEF Store, TypeOK, Ops, NoOp
  <2>2. cache_table' \in [0..(table_size - 1) -> Entries]
    BY <1>13, <2>1 DEF Store, StoreEntry, TypeOK, Entries
  <2>3. tlb' \in [0..(SMALLTLB - 1) -> Entries]
    BY <1>13, <2>1 DEF Store, StoreEntry, set_tlb, TypeOK, Entries
  <2>. QED
    BY <1>13, <2>2, <2>3 DEF Store, StoreEntry, Return, TypeOK, Ops
<1>14. CASE UNCHANGED vars
  BY <1>14 DEF vars, TypeOK
<1>. QED
  BY <1>1, <1>2, <1>3, <1>4, <1>5, <1>6, <1>7, <1>8, <1>9, <1>10, <1>11,
     <1>12, <1>13, <1>14 DEF Next, Work, Halted

\* The types of all variables, for every size of the instance.
THEOREM TypeCorrect == Spec => []TypeOK
<1>. QED
  BY InitTypeOK, NextTypeOK, PTL DEF Spec

-----------------------------------------------------------------------------
(* Probe paths. *)

LEMMA PassedAtHash ==
    ASSUME TypeOK, NEW a \in Nat
    PROVE  Passed(a, hash(a))
<1>1. hash(a) \in 0..(table_size - 1)
  BY HashRange
<1>2. table_size \in Nat
  BY DEF TypeOK
<1>. QED
  BY <1>1, <1>2 DEF Passed, Dist

\* The way from h to the slot after s is the way to s, and s.
LEMMA DistNext ==
    ASSUME NEW h \in 0..(table_size - 1), NEW s \in 0..(table_size - 1),
           NEW r \in 0..(table_size - 1), table_size \in Nat,
           Dist(h, r) < Dist(h, NextSlot(s))
    PROVE  r = s \/ Dist(h, r) < Dist(h, s)
BY DEF Dist, NextSlot

LEMMA PassedNext ==
    ASSUME TypeOK, NEW a \in Nat, NEW s \in 0..(table_size - 1),
           Passed(a, s), Occupied(cache_table[s]), cache_table[s].risc_addr # a
    PROVE  Passed(a, NextSlot(s))
<1>1. hash(a) \in 0..(table_size - 1) /\ table_size \in Nat
  BY HashRange DEF TypeOK
<1>2. ASSUME NEW r \in 0..(table_size - 1),
             Dist(hash(a), r) < Dist(hash(a), NextSlot(s))
      PROVE  Occupied(cache_table[r]) /\ cache_table[r].risc_addr # a
  <2>1. r = s \/ Dist(hash(a), r) < Dist(hash(a), s)
    BY <1>1, <1>2, DistNext
  <2>. QED
    BY <2>1 DEF Passed
<1>. QED
  BY <1>2 DEF Passed

LEMMA PassedUnchanged ==
    ASSUME NEW a, NEW s, Passed(a, s), UNCHANGED <<cache_table, table_size>>
    PROVE  Passed(a, s)'
BY DEF Passed, Dist, hash, Occupied, UNSEEN_CODE

LEMMA StoredPassedUnchanged ==
    ASSUME StoredPassed, UNCHANGED <<cache_table, table_size>>
    PROVE  StoredPassed'
<1>1. ASSUME NEW s \in 0..(table_size - 1), Occupied(cache_table[s])
      PROVE  Passed(cache_table[s].risc_addr, s)'
  <2>1. Passed(cache_table[s].risc_addr, s)
    BY <1>1 DEF StoredPassed
  <2>. QED
    BY <2>1 DEF Passed, Dist, hash, Occupied, UNSEEN_CODE
<1>. QED
  BY <1>1 DEF StoredPassed, Occupied, UNSEEN_CODE

\* Storing where the probe of the same address has ended keeps every path.
LEMMA StoreKeepsPaths ==
    ASSUME TypeOK, StoredPassed, NEW a \in Nat, NEW l, l # UNSEEN_CODE,
           Passed(a, index),
           \/ ~Occupied(cache_table[index])
           \/ cache_table[index].risc_addr = a,
           StoreEntry(a, l)
    PROVE  StoredPassed'
<1>1. table_size' = table_size /\ index \in 0..(table_size - 1)
  BY DEF StoreEntry, TypeOK
<1>2. \A x, y : Dist(x, y)' = Dist(x, y)
  BY <1>1 DEF Dist
<1>3. \A x : hash(x)' = hash(x)
  BY <1>1 DEF hash
<1>4. cache_table'[index] = [risc_addr |-> a, cache_loc |-> l]
  BY <1>1 DEF StoreEntry, TypeOK
<1>5. \A r \in 0..(table_size - 1) : r # index => cache_table'[r] = cache_table[r]
  BY <1>1 DEF StoreEntry, TypeOK
<1>6. Occupied(cache_table'[index]) /\ cache_table'[index].risc_addr = a
  BY <1>4 DEF Occupied
<1>7. hash(a) \in 0..(table_size - 1) /\ table_size \in Nat
  BY HashRange DEF TypeOK
<1>8. ~(Dist(hash(a), index) < Dist(hash(a), index))
  BY <1>1, <1>7 DEF Dist
<1>9. ASSUME NEW s \in 0..(table_size - 1), Occupied(cache_table'[s]),
             NEW r \in 0..(table_size - 1),
             Dist(hash(cache_table'[s].risc_addr), r)
                < Dist(hash(cache_table'[s].risc_addr), s)
      PROVE  /\ Occupied(cache_table'[r])
             /\ cache_table'[r].risc_addr # cache_table'[s].risc_addr
  <2>1. CASE s = index
    <3>1. r # index
      BY <1>6, <1>8, <1>9, <2>1
    <3>. QED
      BY <1>1, <1>5, <1>6, <1>9, <2>1, <3>1 DEF Passed
  <2>2. CASE s # index
    <3>1. cache_table'[s] = cache_table[s]
      BY <1>5, <2>2
    <3>2. Occupied(cache_table[r]) /\ cache_table[r].risc_addr # cache_table[s].risc_addr
      BY <1>9, <3>1 DEF StoredPassed, Passed
    <3>3. CASE r = index
      BY <1>6, <3>1, <3>2, <3>3
    <3>4. CASE r # index
      BY <1>5, <3>1, <3>2, <3>4
    <3>. QED
      BY <3>3, <3>4
  <2>. QED
    BY <2>1, <2>2
<1>10. \A e : Occupied(e)' <=> Occupied(e)
  BY DEF Occupied, UNSEEN_CODE
<1>. QED
  BY <1>1, <1>2, <1>3, <1>9, <1>10 DEF StoredPassed, Passed, Occupied, UNSEEN_CODE

LEMMA InitProbePaths == Init => ProbePaths
BY DEF Init, ProbePaths, StoredPassed, Probing, Zeroed, ZeroEntry, Occupied

LEMMA NextProbePaths ==
    ASSUME TypeOK, TypeOK', ProbePaths, [Next]_vars
    PROVE  ProbePaths'
<1>. USE DEF ProbePaths
<1>1. ASSUME NEW a \in Addrs, LookupTlb(a)
      PROVE  ProbePaths'
  <2>1. ~Probing'
    BY <1>1 DEF LookupTlb, Probing
  <2>. QED
    BY <1>1, <2>1, StoredPassedUnchanged DEF LookupTlb, table
<1>2. ASSUME NEW a \in Addrs,
             pc' = "probe", op'.addr = a, index' = hash(a),
             UNCHANGED <<cache_table, table_size>>
      PROVE  ProbePaths'
  <2>1. StoredPassed'
    BY <1>2, StoredPassedUnchanged
  <2>2. Passed(a, hash(a))
    BY PassedAtHash, AddrsAssumption
  <2>3. Passed(a, index)'
    BY <1>2, <2>2 DEF Passed, Dist, hash, Occupied, UNSEEN_CODE
  <2>4. Key' = a
    BY <1>2 DEF Key
  <2>. QED
    BY <2>1, <2>3, <2>4
<1>3. ASSUME NEW a \in Addrs, LookupCall(a)
      PROVE  ProbePaths'
  BY <1>2, <1>3 DEF LookupCall, table
<1>4. ASSUME NEW a \in Addrs, NEW l \in Locs, SetCall(a, l)
      PROVE  ProbePaths'
  BY <1>2, <1>4 DEF SetCall, table
<1>5. ASSUME ProbeStep
      PROVE  ProbePaths'
  <2>1. StoredPassed'
    BY <1>5, StoredPassedUnchanged DEF ProbeStep, table
  <2>2. Passed(Key, NextSlot(index))
    BY <1>5, KeyType, PassedNext DEF ProbeStep, SlotFound, TypeOK
  <2>3. Key' = Key
    BY <1>5 DEF ProbeStep, Key
  <2>4. Passed(Key, index)'
    BY <1>5, <2>2, <2>3 DEF ProbeStep, table, Passed, Dist, hash, Occupied, UNSEEN_CODE
  <2>. QED
    BY <2>1, <2>3, <2>4
<1>6. ASSUME LookupHit \/ LookupMiss \/ ResizeFails \/ RehashSkip
      PROVE  ProbePaths'
  <2>1. ~Probing'
    BY <1>6 DEF LookupHit, LookupMiss, ResizeFails, RehashSkip, Return, Probing
  <2>2. UNCHANGED <<cache_table, table_size>>
    BY <1>6 DEF LookupHit, LookupMiss, ResizeFails, RehashSkip, table
  <2>. QED
    BY <2>1, <2>2, StoredPassedUnchanged
<1>7. ASSUME Resize
      PROVE  ProbePaths'
  <2>1. ~Probing'
    BY <1>7 DEF Resize, Probing
  <2>2. \A s \in 0..(table_size' - 1) : ~Occupied(cache_table'[s])
    BY <1>7 DEF Resize, Zeroed, ZeroEntry, Occupied
  <2>3. StoredPassed'
    BY <2>2 DEF StoredPassed, Occupied, UNSEEN_CODE
  <2>. QED
    BY <2>1, <2>3
<1>8. ASSUME RehashMove
      PROVE  ProbePaths'
  <2>1. StoredPassed'
    BY <1>8, StoredPassedUnchanged DEF RehashMove, table
  <2> DEFINE k == old_table[i].risc_addr
  <2>2. old_table[i] \in Entries
    BY <1>8 DEF RehashMove, TypeOK
  <2>3. k \in Nat
    BY <2>2, EntryAddr
  <2>4. Passed(k, hash(k))
    BY <2>3, PassedAtHash
  <2>5. Key' = k
    BY <1>8 DEF RehashMove, Key
  <2>6. Passed(k, index)'
    BY <1>8, <2>4 DEF RehashMove, table, Passed, Dist, hash, Occupied, UNSEEN_CODE
  <2>7. k' = k
    BY <1>8 DEF RehashMove
  <2>. QED
    BY <2>1, <2>5, <2>6, <2>7
<1>9. ASSUME Reinsert
      PROVE  ProbePaths'
  <2>1. ~Probing'
    BY <1>9 DEF Reinsert, Probing
  <2>2. old_table[i].cache_loc # UNSEEN_CODE
    BY <1>9 DEF Reinsert, TypeOK, Occupied
  <2>3. Key = old_table[i].risc_addr /\ Probing
    BY <1>9 DEF Reinsert, Key, Probing
  <2>4. Key \in Nat /\ Passed(Key, index)
    BY <2>3, KeyType
  <2>5. StoredPassed'
    BY <1>9, <2>2, <2>3, <2>4, StoreKeepsPaths DEF Reinsert, SlotFound
  <2>. QED
    BY <2>1, <2>5
<1>10. ASSUME RehashDone
       PROVE  ProbePaths'
  <2>1. StoredPassed'
    BY <1>10, StoredPassedUnchanged DEF RehashDone, table
  <2>2. op.addr \in Addrs
    BY <1>10 DEF RehashDone, TypeOK, Ops, NoOp
  <2>3. Passed(op.addr, hash(op.addr))
    BY <2>2, PassedAtHash, AddrsAssumption
  <2>4. Key' = op.addr
    BY <1>10 DEF RehashDone, Key
  <2>5. Passed(op.addr, index)'
    BY <1>10, <2>3 DEF RehashDone, table, Passed, Dist, hash, Occupied, UNSEEN_CODE
  <2>6. op' = op
    BY <1>10 DEF RehashDone
  <2>. QED
    BY <2>1, <2>4, <2>5, <2>6
<1>11. ASSUME Store
       PROVE  ProbePaths'
  <2>1. ~Probing'
    BY <1>11 DEF Store, Return, Probing
  <2>2. op.loc # UNSEEN_CODE
    BY <1>11, LocsAssumption DEF Store, TypeOK, Ops, NoOp, UNSEEN_CODE, LocsAssumption
  <2>3. Key = op.addr /\ Probing
    BY <1>11 DEF Store, Key, Probing
  <2>4. Key \in Nat /\ Passed(Key, index)
    BY <2>3, KeyType
  <2>5. StoredPassed'
    BY <1>11, <2>2, <2>3, <2>4, StoreKeepsPaths DEF Store, SlotFound
  <2>. QED
    BY <2>1, <2>5
<1>12. CASE UNCHANGED vars
  BY <1>12 DEF vars, StoredPassed, Passed, Dist, hash, Occupied, UNSEEN_CODE,
               Probing, Key
<1>. QED
  BY <1>1, <1>3, <1>4, <1>5, <1>6, <1>7, <1>8, <1>9, <1>10, <1>11, <1>12
  DEF Next, Work, Halted

\* find_lin_slot never stops before the slot of the address it looks for,
\* and never finds an address twice, whatever the addresses and the sizes.
THEOREM ProbePathsHold == Spec => []ProbePaths
<1>1. Init => TypeOK /\ ProbePaths
  BY InitTypeOK, InitProbePaths
<1>2. TypeOK /\ ProbePaths /\ [Next]_vars => (TypeOK /\ ProbePaths)'
  BY NextTypeOK, NextProbePaths
<1>. QED
  BY <1>1, <1>2, PTL DEF Spec

-----------------------------------------------------------------------------
(* The table as a map. *)

\* No address is stored twice in table t.
Unique(t) == \A s, r \in DOMAIN t :
    Occupied(t[s]) /\ Occupied(t[r]) /\ t[s].risc_addr = t[r].risc_addr => s = r

\* While entries move, the old table is what StoredPassed left behind.
OldUnique == Rehashing => Unique(old_table)

-----------------------------------------------------------------------------
(* Looking up a table by its contents. *)

\* Linear probing without gaps and without repetition stores an address once.
LEMMA PassedUnique ==
    ASSUME TypeOK, StoredPassed
    PROVE  Unique(cache_table)
<1>1. table_size \in Nat /\ DOMAIN cache_table = 0..(table_size - 1)
  BY DEF TypeOK
<1>2. SUFFICES ASSUME NEW s \in 0..(table_size - 1), NEW r \in 0..(table_size - 1),
                      Occupied(cache_table[s]), Occupied(cache_table[r]),
                      cache_table[s].risc_addr = cache_table[r].risc_addr
               PROVE  s = r
  BY <1>1 DEF Unique
<1> DEFINE h == hash(cache_table[s].risc_addr)
<1>3. cache_table[s].risc_addr \in Nat
  BY EntryAddr DEF TypeOK
<1>4. h \in 0..(table_size - 1)
  BY <1>3, HashRange
<1>5. ~(Dist(h, r) < Dist(h, s))
  BY <1>2 DEF StoredPassed, Passed
<1>6. ~(Dist(h, s) < Dist(h, r))
  BY <1>2 DEF StoredPassed, Passed
<1>. QED
  BY <1>1, <1>4, <1>5, <1>6 DEF Dist

LEMMA StoredFound ==
    ASSUME NEW t, NEW s \in DOMAIN t, Unique(t), Occupied(t[s])
    PROVE  Stored(Contents(t), t[s].risc_addr) = t[s].cache_loc
<1> DEFINE a == t[s].risc_addr
           e == CHOOSE e \in Contents(t) : e.risc_addr = a
<1>1. t[s] \in Contents(t)
  BY DEF Contents
<1>2. e \in Contents(t) /\ e.risc_addr = a
  BY <1>1
<1>3. PICK r \in DOMAIN t : Occupied(t[r]) /\ e = t[r]
  BY <1>2 DEF Contents
<1>4. r = s
  BY <1>2, <1>3 DEF Unique
<1>. QED
  BY <1>1, <1>3, <1>4 DEF Stored

LEMMA StoredMissing ==
    ASSUME NEW t, NEW a, \A s \in DOMAIN t : Occupied(t[s]) => t[s].risc_addr # a
    PROVE  Stored(Contents(t), a) = UNSEEN_CODE
BY DEF Stored, Contents

\* Two tables with the same entries for an address answer the same.
LEMMA StoredSame ==
    ASSUME NEW t, NEW u, NEW a, Unique(t), Unique(u), DOMAIN t = DOMAIN u,
           \A s \in DOMAIN t :
              \/ t[s] = u[s]
              \/ /\ Occupied(t[s]) => t[s].risc_addr # a
                 /\ Occupied(u[s]) => u[s].risc_addr # a
    PROVE  Stored(Contents(t), a) = Stored(Contents(u), a)
<1>1. CASE \E s \in DOMAIN t : Occupied(t[s]) /\ t[s].risc_addr = a
  <2>1. PICK s \in DOMAIN t : Occupied(t[s]) /\ t[s].risc_addr = a
    BY <1>1
  <2>2. t[s] = u[s]
    BY <2>1
  <2>. QED
    BY <2>1, <2>2, StoredFound
<1>2. CASE \A s \in DOMAIN t : Occupied(t[s]) => t[s].risc_addr # a
  <2>1. \A s \in DOMAIN u : Occupied(u[s]) => u[s].risc_addr # a
    BY <1>2
  <2>. QED
    BY <1>2, <2>1, StoredMissing
<1>. QED
  BY <1>1, <1>2

-----------------------------------------------------------------------------
(* The move of a resize. *)

\* What the move has put into the new table so far, and where it came from.
MoveInv == OldUnique /\ RehashKeepsAll

\* The slot that the move stores to is free: its address would otherwise have
\* been moved before, from an earlier slot of the old table.
LEMMA ReinsertFree ==
    ASSUME TypeOK, MoveInv, Reinsert
    PROVE  ~Occupied(cache_table[index])
<1>1. Rehashing /\ i \in DOMAIN old_table /\ Occupied(old_table[i])
  BY DEF Reinsert, Rehashing, TypeOK
<1>2. SUFFICES ASSUME Occupied(cache_table[index])
               PROVE  FALSE
  OBVIOUS
<1>3. cache_table[index].risc_addr = old_table[i].risc_addr
  BY <1>2 DEF Reinsert, SlotFound, Key
<1>4. cache_table[index] \in Contents(cache_table)
  BY <1>2 DEF Contents, TypeOK
<1>5. PICK s \in 0..(i - 1) : Occupied(old_table[s]) /\ cache_table[index] = old_table[s]
  BY <1>1, <1>4 DEF MoveInv, RehashKeepsAll
<1>6. s \in DOMAIN old_table /\ s # i
  BY <1>1, <1>5 DEF TypeOK, Rehashing
<1>. QED
  BY <1>1, <1>3, <1>5, <1>6 DEF MoveInv, OldUnique, Unique

LEMMA InitMoveInv == Init => MoveInv
BY DEF Init, MoveInv, OldUnique, RehashKeepsAll, Rehashing

LEMMA NextMoveInv ==
    ASSUME TypeOK, ProbePaths, MoveInv, [Next]_vars
    PROVE  MoveInv'
<1>. USE DEF MoveInv
<1>1. ASSUME ~Rehashing'
      PROVE  MoveInv'
  BY <1>1 DEF OldUnique, RehashKeepsAll
<1>2. ASSUME Rehashing, Rehashing', UNCHANGED <<cache_table, old_table, i>>
      PROVE  MoveInv'
  BY <1>2 DEF OldUnique, RehashKeepsAll, Unique, Contents, Occupied, UNSEEN_CODE
<1>3. ASSUME Resize
      PROVE  MoveInv'
  <2>1. Unique(cache_table)
    BY PassedUnique DEF ProbePaths
  <2>2. OldUnique'
    BY <1>3, <2>1 DEF Resize, OldUnique, Unique, Occupied, UNSEEN_CODE
  <2>3. Contents(cache_table') = {}
    BY <1>3 DEF Resize, Contents, Zeroed, ZeroEntry, Occupied
  <2>4. Contents(cache_table)' = {}
    BY <2>3 DEF Contents, Occupied, UNSEEN_CODE
  <2>5. i' = 0
    BY <1>3 DEF Resize
  <2>. QED
    BY <2>2, <2>4, <2>5 DEF RehashKeepsAll
<1>4. ASSUME RehashSkip
      PROVE  MoveInv'
  <2>1. Rehashing /\ i \in Nat /\ ~Occupied(old_table[i])
    BY <1>4 DEF RehashSkip, Rehashing, TypeOK
  <2>2. 0..((i + 1) - 1) = (0..(i - 1)) \cup {i}
    BY <2>1
  <2>3. {old_table[s] : s \in {s \in 0..((i + 1) - 1) : Occupied(old_table[s])}}
          = {old_table[s] : s \in {s \in 0..(i - 1) : Occupied(old_table[s])}}
    BY <2>1, <2>2
  <2>4. Contents(cache_table) =
          {old_table[s] : s \in {s \in 0..((i + 1) - 1) : Occupied(old_table[s])}}
    BY <2>1, <2>3 DEF RehashKeepsAll
  <2>5. RehashKeepsAll'
    BY <1>4, <2>4 DEF RehashSkip, table, RehashKeepsAll, Contents, Occupied, UNSEEN_CODE
  <2>6. OldUnique'
    BY <1>4, <2>1 DEF RehashSkip, OldUnique, Unique, Occupied, UNSEEN_CODE
  <2>. QED
    BY <2>5, <2>6
<1>5. ASSUME Reinsert
      PROVE  MoveInv'
  <2>1. Rehashing /\ i \in Nat /\ old_table[i] \in Entries /\ Occupied(old_table[i])
    BY <1>5 DEF Reinsert, Rehashing, TypeOK
  <2>2. ~Occupied(cache_table[index]) /\ index \in DOMAIN cache_table
    BY <1>5, ReinsertFree DEF TypeOK
  <2>3. [risc_addr |-> old_table[i].risc_addr, cache_loc |-> old_table[i].cache_loc]
          = old_table[i]
    BY <2>1 DEF Entries
  <2>4. cache_table' = [cache_table EXCEPT ![index] = old_table[i]]
    BY <1>5, <2>3 DEF Reinsert, StoreEntry
  <2>5. Contents(cache_table') = Contents(cache_table) \cup {old_table[i]}
    BY <2>1, <2>2, <2>4 DEF Contents
  <2>6. 0..((i + 1) - 1) = (0..(i - 1)) \cup {i}
    BY <2>1
  <2>7. Contents(cache_table') =
          {old_table[s] : s \in {s \in 0..((i + 1) - 1) : Occupied(old_table[s])}}
    BY <2>1, <2>5, <2>6 DEF RehashKeepsAll
  <2>8. RehashKeepsAll'
    BY <1>5, <2>7 DEF Reinsert, RehashKeepsAll, Contents, Occupied, UNSEEN_CODE
  <2>9. OldUnique'
    BY <1>5, <2>1 DEF Reinsert, OldUnique, Unique, Occupied, UNSEEN_CODE
  <2>. QED
    BY <2>8, <2>9
<1>6. ASSUME RehashMove
      PROVE  MoveInv'
  BY <1>2, <1>6 DEF RehashMove, Rehashing, table
<1>7. ASSUME ProbeStep
      PROVE  MoveInv'
  BY <1>1, <1>2, <1>7 DEF ProbeStep, Rehashing, table
<1>8. ASSUME LookupHit \/ LookupMiss \/ ResizeFails \/ RehashDone \/ Store
      PROVE  MoveInv'
  BY <1>1, <1>8 DEF LookupHit, LookupMiss, ResizeFails, RehashDone, Store, Return, Rehashing
<1>9. ASSUME NEW a \in Addrs, LookupTlb(a) \/ LookupCall(a) \/ \E l \in Locs : SetCall(a, l)
      PROVE  MoveInv'
  BY <1>1, <1>9 DEF LookupTlb, LookupCall, SetCall, Rehashing
<1>10. CASE UNCHANGED vars
  BY <1>1, <1>2, <1>10 DEF vars, Rehashing
<1>. QED
  BY <1>3, <1>4, <1>5, <1>6, <1>7, <1>8, <1>9, <1>10 DEF Next, Work, Halted

\* The move of a resize loses and invents nothing, whatever the sizes.
THEOREM RehashKeeps == Spec => []RehashKeepsAll
<1> DEFINE Inv == TypeOK /\ ProbePaths /\ MoveInv
<1>1. Init => Inv
  BY InitTypeOK, InitProbePaths, InitMoveInv
<1>2. Inv /\ [Next]_vars => Inv'
  BY NextTypeOK, NextProbePaths, NextMoveInv
<1>3. Inv => RehashKeepsAll
  BY DEF MoveInv
<1>. QED
  BY <1>1, <1>2, <1>3, PTL DEF Spec

-----------------------------------------------------------------------------
(* The count of entries. *)

Used(t) == {s \in DOMAIN t : Occupied(t[s])}

(***************************************************************************)
(* A resize starts with at most half of the old table in use, a quarter of *)
(* the new one; the count is rebuilt from the slots that the loop passed.  *)
(***************************************************************************)
CountInv ==
    /\ count_entries = Cardinality(Used(cache_table))
    /\ count_entries <= table_size \div 2
    /\ Rehashing =>
          /\ count_entries = Cardinality({s \in 0..(i - 1) : Occupied(old_table[s])})
          /\ Cardinality(Used(old_table)) <= (table_size \div 2) \div 2
    /\ pc = "final" => ~NeedsResize

LEMMA UsedFinite ==
    ASSUME NEW n \in Nat, NEW t, DOMAIN t = 0..(n - 1)
    PROVE  IsFiniteSet(Used(t)) /\ Cardinality(Used(t)) \in Nat
<1>1. IsFiniteSet(0..(n - 1))
  BY FS_Interval
<1>2. Used(t) \subseteq 0..(n - 1)
  BY DEF Used
<1>. QED
  BY <1>1, <1>2, FS_Subset, FS_CardinalityType

\* One more slot is used when a free one is written, and no more otherwise.
LEMMA StoreCounts ==
    ASSUME TypeOK, CountInv, NEW a, NEW l, l # UNSEEN_CODE, StoreEntry(a, l)
    PROVE  (count_entries = Cardinality(Used(cache_table)))'
<1> DEFINE new == {s \in DOMAIN cache_table' : cache_table'[s].cache_loc # UNSEEN_CODE}
<1>1. index \in DOMAIN cache_table /\ DOMAIN cache_table' = DOMAIN cache_table
  BY DEF StoreEntry, TypeOK
<1>2. new = Used(cache_table) \cup {index}
  BY <1>1 DEF StoreEntry, Used, Occupied
<1>3. IsFiniteSet(Used(cache_table)) /\ Cardinality(Used(cache_table)) \in Nat
  BY UsedFinite DEF TypeOK
<1>4. count_entries' = Cardinality(new)
  <2>1. CASE Occupied(cache_table[index])
    <3>1. new = Used(cache_table)
      BY <1>1, <1>2, <2>1 DEF Used
    <3>. QED
      BY <2>1, <3>1 DEF StoreEntry, CountInv
  <2>2. CASE ~Occupied(cache_table[index])
    <3>1. index \notin Used(cache_table)
      BY <2>2 DEF Used
    <3>2. Cardinality(new) = Cardinality(Used(cache_table)) + 1
      BY <1>2, <1>3, <3>1, FS_AddElement
    <3>. QED
      BY <2>2, <3>2 DEF StoreEntry, CountInv
  <2>. QED
    BY <2>1, <2>2
<1>5. Used(cache_table)' = new
  BY DEF Used, Occupied, UNSEEN_CODE
<1>. QED
  BY <1>4, <1>5

LEMMA InitCountInv == Init => CountInv
<1>1. ASSUME Init
      PROVE  CountInv
  <2>1. Used(cache_table) = {}
    BY <1>1 DEF Init, Used, Zeroed, ZeroEntry, Occupied
  <2>2. Cardinality(Used(cache_table)) = 0
    BY <2>1, FS_EmptySet
  <2>. QED
    BY <1>1, <2>2, SizesAssumption DEF Init, CountInv, Rehashing
<1>. QED
  BY <1>1

\* What the loop has moved is part of the old table, so it fits.
LEMMA MovedFits ==
    ASSUME TypeOK, CountInv, Rehashing
    PROVE  count_entries < table_size \div 2
<1> DEFINE moved == {s \in 0..(i - 1) : Occupied(old_table[s])}
           half == table_size \div 2
<1>1. half \in Nat /\ half > 0 /\ DOMAIN old_table = 0..(half - 1) /\ i \in 0..half
  BY DEF TypeOK, Rehashing
<1>2. moved \subseteq Used(old_table)
  BY <1>1 DEF Used
<1>3. IsFiniteSet(Used(old_table)) /\ Cardinality(Used(old_table)) \in Nat
  BY <1>1, UsedFinite
<1>4. Cardinality(moved) <= Cardinality(Used(old_table)) /\ Cardinality(moved) \in Nat
  BY <1>2, <1>3, FS_Subset, FS_CardinalityType
<1>5. count_entries = Cardinality(moved) /\ Cardinality(Used(old_table)) <= half \div 2
  BY DEF CountInv
<1>6. half \div 2 < half /\ half \div 2 \in Nat
  BY <1>1
<1> HIDE DEF moved, half
<1>7. count_entries < half
  BY <1>1, <1>3, <1>4, <1>5, <1>6
<1>. QED
  BY <1>7 DEF half

LEMMA NextCountInv ==
    ASSUME TypeOK, TypeOK', ProbePaths, MoveInv, CountInv, [Next]_vars
    PROVE  CountInv'
<1>1. ASSUME ~Rehashing', pc' # "final",
             UNCHANGED <<cache_table, table_size, count_entries>>
      PROVE  CountInv'
  BY <1>1 DEF CountInv, Used, Occupied, UNSEEN_CODE
<1>2. ASSUME Rehashing, Rehashing',
             UNCHANGED <<cache_table, table_size, count_entries, old_table, i>>
      PROVE  CountInv'
  BY <1>2 DEF CountInv, Used, Occupied, Rehashing, UNSEEN_CODE
<1>3. ASSUME ProbeStep
      PROVE  CountInv'
  BY <1>3 DEF ProbeStep, table, CountInv, Used, Occupied, Rehashing, NeedsResize, UNSEEN_CODE
<1>4. ASSUME Resize
      PROVE  CountInv'
  <2>1. table_size \in Nat \ {0} /\ (2 * table_size) \div 2 = table_size
    BY DEF TypeOK
  <2>2. {s \in DOMAIN cache_table' : cache_table'[s].cache_loc # UNSEEN_CODE} = {}
    BY <1>4 DEF Resize, Zeroed, ZeroEntry
  <2>3. Used(cache_table)' = {}
    BY <2>2 DEF Used, Occupied, UNSEEN_CODE
  <2>4. (count_entries = Cardinality(Used(cache_table)))'
    BY <1>4, <2>3, FS_EmptySet DEF Resize
  <2>5. {s \in 0..(0 - 1) : Occupied(cache_table[s])} = {}
    OBVIOUS
  <2>6. ({s \in 0..(i - 1) : Occupied(old_table[s])} = {})'
    BY <1>4, <2>5 DEF Resize
  <2>7. Used(old_table)' = Used(cache_table)
    BY <1>4 DEF Resize, Used, Occupied, UNSEEN_CODE
  <2>8. Cardinality(Used(cache_table)) <= table_size \div 2
    BY DEF CountInv
  <2>9. Cardinality(Used(old_table))' <= (table_size' \div 2) \div 2
    BY <1>4, <2>1, <2>7, <2>8 DEF Resize
  <2>10. count_entries' = 0 /\ table_size' = 2 * table_size /\ pc' = "rehash"
    BY <1>4 DEF Resize
  <2>11. (count_entries = Cardinality({s \in 0..(i - 1) : Occupied(old_table[s])}))'
    BY <2>6, <2>10, FS_EmptySet
  <2>12. count_entries' <= table_size' \div 2
    BY <2>1, <2>10
  <2>. QED
    BY <2>4, <2>9, <2>10, <2>11, <2>12 DEF CountInv
<1>5. ASSUME RehashSkip
      PROVE  CountInv'
  <2>1. Rehashing /\ i \in Nat /\ ~Occupied(old_table[i])
    BY <1>5 DEF RehashSkip, Rehashing, TypeOK
  <2>2. 0..((i + 1) - 1) = (0..(i - 1)) \cup {i}
    BY <2>1
  <2>3. {s \in 0..((i + 1) - 1) : Occupied(old_table[s])}
          = {s \in 0..(i - 1) : Occupied(old_table[s])}
    BY <2>1, <2>2
  <2>. QED
    BY <1>5, <2>1, <2>3
    DEF RehashSkip, table, CountInv, Used, Occupied, Rehashing, UNSEEN_CODE
<1>6. ASSUME Reinsert
      PROVE  CountInv'
  <2> DEFINE old == {s \in 0..(i - 1) : Occupied(old_table[s])}
             new == {s \in 0..((i + 1) - 1) : Occupied(old_table[s])}
  <2>1. Rehashing /\ i \in Nat /\ Occupied(old_table[i])
    BY <1>6 DEF Reinsert, Rehashing, TypeOK
  <2>2. ~Occupied(cache_table[index])
    BY <1>6, ReinsertFree
  <2>3. count_entries' = count_entries + 1
    BY <1>6, <2>2 DEF Reinsert, StoreEntry
  <2>4. (count_entries = Cardinality(Used(cache_table)))'
    BY <1>6, <2>1, StoreCounts DEF Reinsert, Occupied
  <2>5. 0..((i + 1) - 1) = (0..(i - 1)) \cup {i}
    BY <2>1
  <2>6. new = old \cup {i} /\ i \notin old
    BY <2>1, <2>5
  <2>7. IsFiniteSet(0..(i - 1))
    BY <2>1, FS_Interval
  <2>8. IsFiniteSet(old)
    BY <2>7, FS_Subset
  <2>9. Cardinality(new) = Cardinality(old) + 1
    BY <2>6, <2>8, FS_AddElement
  <2>10. count_entries' = Cardinality(new)
    BY <2>1, <2>3, <2>9 DEF CountInv
  <2>11. count_entries < table_size \div 2
    BY <2>1, MovedFits
  <2>12. count_entries' <= table_size' \div 2
    BY <1>6, <2>3, <2>11 DEF Reinsert, StoreEntry, TypeOK
  <2>13. Cardinality(Used(old_table))' <= (table_size' \div 2) \div 2
    BY <1>6, <2>1 DEF Reinsert, StoreEntry, CountInv, Used, Occupied, UNSEEN_CODE
  <2>14. (count_entries = Cardinality({s \in 0..(i - 1) : Occupied(old_table[s])}))'
    BY <1>6, <2>10 DEF Reinsert, Occupied, UNSEEN_CODE
  <2>. QED
    BY <1>6, <2>4, <2>12, <2>13, <2>14 DEF CountInv, Reinsert
<1>7. ASSUME RehashDone
      PROVE  CountInv'
  <2>1. Rehashing
    BY <1>7 DEF RehashDone, Rehashing
  <2>2. ~NeedsResize
    BY <2>1, MovedFits DEF NeedsResize, TypeOK
  <2>. QED
    BY <1>7, <2>2
    DEF RehashDone, table, CountInv, NeedsResize, Rehashing, Used, Occupied, UNSEEN_CODE
<1>8. ASSUME Store
      PROVE  CountInv'
  <2>1. op.loc # UNSEEN_CODE
    BY <1>8, LocsAssumption DEF Store, TypeOK, Ops, NoOp, UNSEEN_CODE, LocsAssumption
  <2>2. StoreEntry(op.addr, op.loc)
    BY <1>8 DEF Store
  <2>3. (count_entries = Cardinality(Used(cache_table)))'
    BY <2>1, <2>2, StoreCounts
  <2>4. count_entries < table_size \div 2
    BY <1>8 DEF Store, CountInv, NeedsResize, TypeOK
  <2>5. count_entries' <= table_size' \div 2
    BY <2>2, <2>4 DEF StoreEntry, TypeOK
  <2>6. pc' = "idle"
    BY <1>8 DEF Store, Return
  <2>. QED
    BY <2>3, <2>5, <2>6 DEF CountInv, Rehashing
<1>9. ASSUME RehashMove
      PROVE  CountInv'
  BY <1>2, <1>9 DEF RehashMove, Rehashing, table
<1>10. ASSUME LookupHit \/ LookupMiss \/ ResizeFails
       PROVE  CountInv'
  BY <1>1, <1>10 DEF LookupHit, LookupMiss, ResizeFails, Return, Rehashing, table
<1>11. ASSUME NEW a \in Addrs, LookupTlb(a) \/ LookupCall(a) \/ \E l \in Locs : SetCall(a, l)
       PROVE  CountInv'
  BY <1>1, <1>11 DEF LookupTlb, LookupCall, SetCall, Rehashing, table
<1>12. CASE UNCHANGED vars
  BY <1>12 DEF vars, CountInv, Used, Occupied, Rehashing, NeedsResize, UNSEEN_CODE
<1>. QED
  BY <1>3, <1>4, <1>5, <1>6, <1>7, <1>8, <1>9, <1>10, <1>11, <1>12 DEF Next, Work, Halted

\* The recursive set_cache_entry never resizes again, and no more than half of
\* the table is ever in use, so that find_lin_slot has a free slot to stop at.
THEOREM RehashFitsHolds == Spec => []RehashFits
<1> DEFINE Inv == TypeOK /\ ProbePaths /\ MoveInv /\ CountInv
<1>1. Init => Inv
  BY InitTypeOK, InitProbePaths, InitMoveInv, InitCountInv
<1>2. Inv /\ [Next]_vars => Inv'
  BY NextTypeOK, NextProbePaths, NextMoveInv, NextCountInv
<1>3. Inv => RehashFits
  <2>1. ASSUME Inv, pc = "reprobe"
        PROVE  ~NeedsResize
    BY <2>1, MovedFits DEF NeedsResize, Rehashing, TypeOK
  <2>. QED
    BY <2>1 DEF RehashFits, CountInv, Used
<1>. QED
  BY <1>1, <1>2, <1>3, PTL DEF Spec

-----------------------------------------------------------------------------
(* The map the tables stand for, and the TLB. *)

LEMMA KeepLive ==
    ASSUME Live' = Live
    PROVE  BlockMapOf' = BlockMapOf
BY DEF BlockMapOf, Stored, UNSEEN_CODE

\* Every step but the last of a set keeps the map.
LEMMA LiveKept ==
    ASSUME TypeOK, MoveInv, [Next]_vars, ~Store
    PROVE  Live' = Live
<1>. USE DEF Live, Contents, Occupied, UNSEEN_CODE
<1>1. ASSUME Resize
      PROVE  Live' = Live
  BY <1>1 DEF Resize, Rehashing
<1>2. ASSUME RehashDone
      PROVE  Live' = Live
  <2>1. Rehashing /\ i = table_size \div 2 /\ DOMAIN old_table = 0..(i - 1)
    BY <1>2 DEF RehashDone, Rehashing, TypeOK
  <2>2. Contents(cache_table) = Contents(old_table)
    BY <2>1 DEF MoveInv, RehashKeepsAll
  <2>3. ~Rehashing' /\ cache_table' = cache_table
    BY <1>2 DEF RehashDone, Rehashing, table
  <2>. QED
    BY <2>1, <2>2, <2>3
<1>3. ASSUME Reinsert \/ RehashSkip \/ RehashMove
      PROVE  Live' = Live
  BY <1>3 DEF Reinsert, RehashSkip, RehashMove, table, Rehashing
<1>4. ASSUME ProbeStep \/ LookupHit \/ LookupMiss \/ ResizeFails
      PROVE  Live' = Live
  BY <1>4 DEF ProbeStep, LookupHit, LookupMiss, ResizeFails, Return, table, Rehashing
<1>5. ASSUME NEW a \in Addrs, LookupTlb(a) \/ LookupCall(a) \/ \E l \in Locs : SetCall(a, l)
      PROVE  Live' = Live
  BY <1>5 DEF LookupTlb, LookupCall, SetCall, table, Rehashing
<1>6. CASE UNCHANGED vars
  BY <1>6 DEF vars, Rehashing
<1>. QED
  BY <1>1, <1>2, <1>3, <1>4, <1>5, <1>6 DEF Next, Work, Halted

\* The last step of set_cache_entry sets the map at the call's address.
LEMMA LiveStore ==
    ASSUME TypeOK, TypeOK', ProbePaths, ProbePaths', Store
    PROVE  /\ op.addr \in Addrs
           /\ BlockMapOf' = [BlockMapOf EXCEPT ![op.addr] = op.loc]
<1>1. op.addr \in Addrs /\ op.loc # UNSEEN_CODE
  BY LocsAssumption DEF Store, TypeOK, Ops, NoOp, UNSEEN_CODE, LocsAssumption
<1> DEFINE u == [cache_table EXCEPT ![index] = [risc_addr |-> op.addr, cache_loc |-> op.loc]]
<1>2. ~Rehashing /\ ~Rehashing' /\ cache_table' = u
  BY DEF Store, Return, StoreEntry, Rehashing
<1>3. index \in DOMAIN cache_table /\ DOMAIN u = DOMAIN cache_table
  BY DEF TypeOK
<1>4. Unique(cache_table)
  BY PassedUnique DEF ProbePaths
<1>5. Occupied(cache_table[index]) => cache_table[index].risc_addr = op.addr
  BY DEF Store, SlotFound, Key
<1>6. u[index] = [risc_addr |-> op.addr, cache_loc |-> op.loc] /\ Occupied(u[index])
  BY <1>1, <1>3 DEF Occupied
<1>7. \A s \in DOMAIN u : s # index => u[s] = cache_table[s]
  BY <1>3
<1>8. ASSUME NEW s \in DOMAIN u, Occupied(u[s]), u[s].risc_addr = op.addr
      PROVE  s = index
  <2>1. SUFFICES ASSUME s # index
                 PROVE  FALSE
    OBVIOUS
  <2>2. Occupied(cache_table[s]) /\ cache_table[s].risc_addr = op.addr
    BY <1>7, <1>8, <2>1
  <2>3. Passed(op.addr, index)
    BY DEF Store, ProbePaths, Probing, Key
  <2>4. Passed(op.addr, s)
    BY <1>3, <2>2 DEF ProbePaths, StoredPassed, TypeOK
  <2>5. s \in 0..(table_size - 1) /\ index \in 0..(table_size - 1) /\ table_size \in Nat
    BY <1>3 DEF TypeOK
  <2>6. hash(op.addr) \in 0..(table_size - 1)
    BY <1>1, HashRange, AddrsAssumption
  <2>7. ~(Dist(hash(op.addr), s) < Dist(hash(op.addr), index))
    BY <2>2, <2>3, <2>5 DEF Passed
  <2>8. Dist(hash(op.addr), index) < Dist(hash(op.addr), s)
    BY <2>1, <2>5, <2>6, <2>7 DEF Dist
  <2>9. Occupied(cache_table[index]) /\ cache_table[index].risc_addr # op.addr
    BY <2>4, <2>5, <2>8 DEF Passed
  <2>. QED
    BY <1>5, <2>9
<1>9. Unique(u)
  <2>1. ASSUME NEW s \in DOMAIN u, NEW r \in DOMAIN u, Occupied(u[s]), Occupied(u[r]),
               u[s].risc_addr = u[r].risc_addr
        PROVE  s = r
    <3>1. CASE s = index
      BY <1>6, <1>8, <2>1, <3>1
    <3>2. CASE r = index
      BY <1>6, <1>8, <2>1, <3>2
    <3>3. CASE s # index /\ r # index
      BY <1>3, <1>4, <1>7, <2>1, <3>3 DEF Unique
    <3>. QED
      BY <3>1, <3>2, <3>3
  <2>. QED
    BY <2>1 DEF Unique
<1>10. Stored(Contents(u), op.addr) = op.loc
  BY <1>3, <1>6, <1>9, StoredFound
<1>11. ASSUME NEW a \in Addrs, a # op.addr
       PROVE  Stored(Contents(u), a) = Stored(Contents(cache_table), a)
  <2>1. \A s \in DOMAIN u :
              \/ u[s] = cache_table[s]
              \/ /\ Occupied(u[s]) => u[s].risc_addr # a
                 /\ Occupied(cache_table[s]) => cache_table[s].risc_addr # a
    BY <1>5, <1>6, <1>7, <1>11
  <2>. QED
    BY <1>3, <1>4, <1>9, <2>1, StoredSame
<1>12. Live' = Contents(u) /\ Live = Contents(cache_table)
  BY <1>2 DEF Live, Contents, Occupied, UNSEEN_CODE
<1>13. BlockMapOf' = [a \in Addrs |-> Stored(Contents(u), a)]
  BY <1>12 DEF BlockMapOf, Stored, UNSEEN_CODE
<1>14. BlockMapOf = [a \in Addrs |-> Stored(Contents(cache_table), a)]
  BY <1>12 DEF BlockMapOf
<1>. QED
  BY <1>1, <1>10, <1>11, <1>13, <1>14

\* Writing the slot of address b replaces what any address that shares it hit.
LEMMA TlbWrite ==
    ASSUME TypeOK, TlbCoherent, NEW b \in Nat, NEW l, set_tlb(b, l),
           \A a \in Addrs : a # b => BlockMapOf'[a] = BlockMapOf[a],
           b \in Addrs => BlockMapOf'[b] = l
    PROVE  TlbCoherent'
<1>1. \A a \in Addrs : a \in Nat
  BY AddrsAssumption DEF AddrsAssumption
<1>2. tlb \in [0..(SMALLTLB - 1) -> Entries] /\ smallhash(b) \in 0..(SMALLTLB - 1)
  BY SmallhashRange DEF TypeOK
<1>3. \A a : smallhash(a)' = smallhash(a)
  BY DEF smallhash
<1>4. ASSUME NEW a \in Addrs, tlb'[smallhash(a)].risc_addr = a
      PROVE  tlb'[smallhash(a)].cache_loc = BlockMapOf'[a]
  <2>1. smallhash(a) \in 0..(SMALLTLB - 1)
    BY <1>1, SmallhashRange
  <2>2. CASE smallhash(a) = smallhash(b)
    <3>1. tlb'[smallhash(a)] = [risc_addr |-> b, cache_loc |-> l]
      BY <1>2, <2>2 DEF set_tlb
    <3>. QED
      BY <1>4, <3>1
  <2>3. CASE smallhash(a) # smallhash(b)
    <3>1. tlb'[smallhash(a)] = tlb[smallhash(a)]
      BY <1>2, <2>1, <2>3 DEF set_tlb
    <3>2. a # b
      BY <2>3
    <3>. QED
      BY <1>4, <3>1, <3>2 DEF TlbCoherent, TlbHit
  <2>. QED
    BY <2>2, <2>3
<1>. QED
  BY <1>4 DEF TlbCoherent, TlbHit, smallhash

LEMMA InitTlb == Init => TlbCoherent
<1>1. ASSUME Init, NEW a \in Addrs
      PROVE  tlb[smallhash(a)].cache_loc = UNSEEN_CODE
  <2>1. a \in Nat
    BY AddrsAssumption DEF AddrsAssumption
  <2>2. smallhash(a) \in 0..(SMALLTLB - 1)
    BY <2>1, SmallhashRange
  <2>. QED
    BY <1>1, <2>2 DEF Init, Zeroed, ZeroEntry
<1>2. ASSUME Init, NEW a \in Addrs
      PROVE  BlockMapOf[a] = UNSEEN_CODE
  <2>1. Live = {}
    BY <1>2 DEF Init, Live, Rehashing, Contents, Zeroed, ZeroEntry, Occupied
  <2>. QED
    BY <2>1 DEF BlockMapOf, Stored
<1>. QED
  BY <1>1, <1>2 DEF TlbCoherent

LEMMA NextTlb ==
    ASSUME TypeOK, TypeOK', ProbePaths, ProbePaths', MoveInv, TlbCoherent, [Next]_vars
    PROVE  TlbCoherent'
<1>1. ASSUME BlockMapOf' = BlockMapOf, tlb' = tlb
      PROVE  TlbCoherent'
  BY <1>1 DEF TlbCoherent, TlbHit, smallhash
<1>2. ASSUME ~Store
      PROVE  BlockMapOf' = BlockMapOf
  BY <1>2, LiveKept, KeepLive
<1>3. ASSUME LookupHit
      PROVE  TlbCoherent'
  <2>1. op.addr \in Addrs
    BY <1>3 DEF LookupHit, TypeOK, Ops, NoOp
  <2>2. index \in DOMAIN cache_table /\ Unique(cache_table)
    BY PassedUnique DEF TypeOK, ProbePaths
  <2>3. Occupied(cache_table[index]) /\ cache_table[index].risc_addr = op.addr
    BY <1>3 DEF LookupHit, SlotFound, Key
  <2>4. Stored(Contents(cache_table), op.addr) = cache_table[index].cache_loc
    BY <2>2, <2>3, StoredFound
  <2>5. BlockMapOf[op.addr] = cache_table[index].cache_loc
    BY <1>3, <2>1, <2>4 DEF LookupHit, BlockMapOf, Live, Rehashing
  <2>6. ~Store
    BY <1>3 DEF LookupHit, Store
  <2>. QED
    BY <1>2, <1>3, <2>1, <2>5, <2>6, TlbWrite, AddrsAssumption DEF LookupHit
<1>4. ASSUME Reinsert
      PROVE  TlbCoherent'
  <2> DEFINE b == old_table[i].risc_addr
  <2>1. Rehashing /\ i \in DOMAIN old_table /\ Occupied(old_table[i])
    BY <1>4 DEF Reinsert, Rehashing, TypeOK
  <2>2. b \in Nat
    BY <1>4, EntryAddr DEF Reinsert, TypeOK
  <2>3. Stored(Contents(old_table), b) = old_table[i].cache_loc
    BY <2>1, StoredFound DEF MoveInv, OldUnique
  <2>4. b \in Addrs => BlockMapOf[b] = old_table[i].cache_loc
    BY <2>1, <2>3 DEF BlockMapOf, Live
  <2>5. ~Store
    BY <1>4 DEF Reinsert, Store
  <2>6. set_tlb(b, old_table[i].cache_loc)
    BY <1>4 DEF Reinsert, StoreEntry
  <2>. QED
    BY <1>2, <2>2, <2>4, <2>5, <2>6, TlbWrite
<1>5. ASSUME Store
      PROVE  TlbCoherent'
  <2>1. op.addr \in Addrs /\ BlockMapOf' = [BlockMapOf EXCEPT ![op.addr] = op.loc]
    BY <1>5, LiveStore
  <2>2. DOMAIN BlockMapOf = Addrs
    BY DEF BlockMapOf
  <2>3. BlockMapOf'[op.addr] = op.loc
    BY <2>1, <2>2
  <2>4. \A a \in Addrs : a # op.addr => BlockMapOf'[a] = BlockMapOf[a]
    BY <2>1, <2>2
  <2>5. set_tlb(op.addr, op.loc)
    BY <1>5 DEF Store, StoreEntry
  <2>. QED
    BY <2>1, <2>3, <2>4, <2>5, TlbWrite, AddrsAssumption
<1>6. ASSUME ~LookupHit, ~Reinsert, ~Store
      PROVE  tlb' = tlb
  <2>1. ASSUME Work
        PROVE  tlb' = tlb
    BY <1>6, <2>1 DEF Work, ProbeStep, LookupMiss, Resize, ResizeFails, RehashSkip,
                      RehashMove, RehashDone, table
  <2>2. ASSUME NEW a \in Addrs, LookupTlb(a) \/ LookupCall(a) \/ \E l \in Locs : SetCall(a, l)
        PROVE  tlb' = tlb
    BY <2>2 DEF LookupTlb, LookupCall, SetCall, table
  <2>. QED
    BY <2>1, <2>2 DEF Next, Halted, vars
<1>. QED
  BY <1>1, <1>2, <1>3, <1>4, <1>5, <1>6

\* The inductive invariant of the code cache.
CacheInv == TypeOK /\ ProbePaths /\ MoveInv /\ TlbCoherent

LEMMA CacheInvHolds == Spec => []CacheInv
<1>1. Init => CacheInv
  BY InitTypeOK, InitProbePaths, InitMoveInv, InitTlb DEF CacheInv
<1>2. CacheInv /\ [Next]_vars => CacheInv'
  BY NextTypeOK, NextProbePaths, NextMoveInv, NextTlb DEF CacheInv
<1>. QED
  BY <1>1, <1>2, PTL DEF Spec

\* A TLB hit answers what the table would, for every address and at every step.
THEOREM TlbCoherentHolds == Spec => []TlbCoherent
<1>1. CacheInv => TlbCoherent
  BY DEF CacheInv
<1>. QED
  BY <1>1, CacheInvHolds, PTL

-----------------------------------------------------------------------------
(* The refinement. *)

LEMMA InitRefines == Init => Map!Init
<1>1. ASSUME Init
      PROVE  Live = {}
  BY <1>1 DEF Init, Live, Rehashing, Contents, Zeroed, ZeroEntry, Occupied
<1>2. Init => BlockMapOf = [a \in Addrs |-> UNSEEN_CODE]
  BY <1>1 DEF BlockMapOf, Stored
<1>3. Init => ret = [addr |-> UNSEEN_CODE, loc |-> UNSEEN_CODE]
  BY DEF Init, UNSEEN_CODE
<1>. QED
  BY <1>2, <1>3 DEF Map!Init, Map!NoAnswer, Map!UNSEEN_CODE, UNSEEN_CODE

\* A step is the abstract Lookup when it answers, the abstract Set when it
\* stores, and stutters otherwise.
LEMMA NextRefines ==
    ASSUME CacheInv, CacheInv', [Next]_vars
    PROVE  [Map!Next]_(Map!vars)
<1>. USE DEF CacheInv
<1>1. ASSUME ~Store
      PROVE  BlockMapOf' = BlockMapOf
  BY <1>1, LiveKept, KeepLive
<1>2. ASSUME NEW a \in Addrs, LookupTlb(a)
      PROVE  [Map!Next]_(Map!vars)
  <2>1. tlb[smallhash(a)].cache_loc = BlockMapOf[a]
    BY <1>2 DEF TlbCoherent, LookupTlb
  <2>2. ~Store
    BY <1>2 DEF LookupTlb, Store
  <2>3. Map!Lookup(a)
    BY <1>1, <1>2, <2>1, <2>2 DEF LookupTlb, Map!Lookup
  <2>. QED
    BY <2>3 DEF Map!Next
<1>3. ASSUME LookupHit
      PROVE  [Map!Next]_(Map!vars)
  <2>1. op.addr \in Addrs
    BY <1>3 DEF LookupHit, TypeOK, Ops, NoOp
  <2>2. index \in DOMAIN cache_table /\ Unique(cache_table)
    BY PassedUnique DEF TypeOK, ProbePaths
  <2>3. Occupied(cache_table[index]) /\ cache_table[index].risc_addr = op.addr
    BY <1>3 DEF LookupHit, SlotFound, Key
  <2>4. Stored(Contents(cache_table), op.addr) = cache_table[index].cache_loc
    BY <2>2, <2>3, StoredFound
  <2>5. BlockMapOf[op.addr] = cache_table[index].cache_loc
    BY <1>3, <2>1, <2>4 DEF LookupHit, BlockMapOf, Live, Rehashing
  <2>6. ~Store
    BY <1>3 DEF LookupHit, Store
  <2>7. Map!Lookup(op.addr)
    BY <1>1, <1>3, <2>5, <2>6 DEF LookupHit, Map!Lookup
  <2>. QED
    BY <2>1, <2>7 DEF Map!Next
<1>4. ASSUME LookupMiss
      PROVE  [Map!Next]_(Map!vars)
  <2>1. op.addr \in Addrs
    BY <1>4 DEF LookupMiss, TypeOK, Ops, NoOp
  <2>2. Passed(op.addr, index) /\ ~Occupied(cache_table[index])
    BY <1>4 DEF LookupMiss, ProbePaths, Probing, Key
  <2>3. index \in 0..(table_size - 1) /\ table_size \in Nat
    BY DEF TypeOK
  <2>4. hash(op.addr) \in 0..(table_size - 1)
    BY <2>1, HashRange, AddrsAssumption
  <2>5. ASSUME NEW s \in DOMAIN cache_table, Occupied(cache_table[s])
        PROVE  cache_table[s].risc_addr # op.addr
    <3>1. SUFFICES ASSUME cache_table[s].risc_addr = op.addr
                   PROVE  FALSE
      OBVIOUS
    <3>2. s \in 0..(table_size - 1) /\ s # index
      BY <2>2, <2>5 DEF TypeOK
    <3>3. ~(Dist(hash(op.addr), s) < Dist(hash(op.addr), index))
      BY <2>2, <3>1, <3>2 DEF Passed
    <3>4. Dist(hash(op.addr), index) < Dist(hash(op.addr), s)
      BY <2>3, <2>4, <3>2, <3>3 DEF Dist
    <3>5. Passed(op.addr, s)
      BY <2>5, <3>1, <3>2 DEF ProbePaths, StoredPassed
    <3>. QED
      BY <2>2, <2>3, <3>4, <3>5 DEF Passed
  <2>6. Stored(Contents(cache_table), op.addr) = UNSEEN_CODE
    BY <2>5, StoredMissing
  <2>7. BlockMapOf[op.addr] = UNSEEN_CODE
    BY <1>4, <2>1, <2>6 DEF LookupMiss, BlockMapOf, Live, Rehashing
  <2>8. ~Store
    BY <1>4 DEF LookupMiss, Store
  <2>9. Map!Lookup(op.addr)
    BY <1>1, <1>4, <2>7, <2>8 DEF LookupMiss, Map!Lookup
  <2>. QED
    BY <2>1, <2>9 DEF Map!Next
<1>5. ASSUME Store
      PROVE  [Map!Next]_(Map!vars)
  <2>1. op.loc \in Locs /\ ret' = ret
    BY <1>5 DEF Store, TypeOK, Ops, NoOp
  <2>2. op.addr \in Addrs /\ Map!Set(op.addr, op.loc)
    BY <1>5, <2>1, LiveStore DEF Map!Set
  <2>. QED
    BY <2>1, <2>2 DEF Map!Next
<1>6. ASSUME ~LookupHit, ~LookupMiss, ~Store, Work
      PROVE  [Map!Next]_(Map!vars)
  <2>1. ret' = ret
    BY <1>6 DEF Work, ProbeStep, Resize, ResizeFails, RehashSkip, RehashMove, Reinsert, RehashDone
  <2>. QED
    BY <1>1, <1>6, <2>1 DEF Map!vars
<1>7. ASSUME NEW a \in Addrs, LookupCall(a) \/ \E l \in Locs : SetCall(a, l)
      PROVE  [Map!Next]_(Map!vars)
  <2>1. ret' = ret /\ ~Store
    BY <1>7 DEF LookupCall, SetCall, Store
  <2>. QED
    BY <1>1, <2>1 DEF Map!vars
<1>8. CASE UNCHANGED vars
  <2>1. ret' = ret /\ Live' = Live
    BY <1>8 DEF vars, Live, Contents, Occupied, Rehashing, UNSEEN_CODE
  <2>. QED
    BY <2>1, KeepLive DEF Map!vars
<1>. QED
  BY <1>2, <1>3, <1>4, <1>5, <1>6, <1>7, <1>8 DEF Next, Halted

\* The hash table with its TLB implements the map, for every instance.
THEOREM Refinement == Spec => ImplementsBlockMap
<1>1. Init => Map!Init
  BY InitRefines
<1>2. CacheInv /\ CacheInv' /\ [Next]_vars => [Map!Next]_(Map!vars)
  BY NextRefines
<1>. QED
  BY <1>1, <1>2, CacheInvHolds, PTL DEF Spec, ImplementsBlockMap, Map!Spec
=============================================================================
