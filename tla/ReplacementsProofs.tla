------------------------ MODULE ReplacementsProofs ------------------------
(***************************************************************************)
(* Proofs about Replacements for every set of guest registers, every       *)
(* static mapping and every set of instructions: no value is ever lost,    *)
(* whatever the three replacement registers are asked to hold.             *)
(***************************************************************************)
EXTENDS Replacements, TLAPS

Alloc == [content : [Replace -> Regs \cup {INVALID_REG}],
          recency : [Replace -> Nat],
          now     : Nat \ {0},
          host    : [Hosts -> Regs \cup {Stale}],
          file    : [Regs -> Regs \cup {Stale}]]

-----------------------------------------------------------------------------
(* The invariant, of an allocation s within an instruction whose           *)
(* destination d has been given a register but not its value yet.          *)

Marked(s) ==
    /\ \A h \in Replace : /\ (s.recency[h] = 0) <=> (s.content[h] = INVALID_REG)
                          /\ s.recency[h] <= s.now
    /\ \A h, g \in Replace : h # g /\ s.recency[h] # 0 => s.recency[h] # s.recency[g]

\* An unmapped register is in one replacement register at most.
Unique(s) == \A r \in Regs \ gp_mapped : \A h, g \in Replace :
    s.content[h] = r /\ s.content[g] = r => h = g

\* Where the values are.
Kept(s, d) ==
    /\ \A r \in gp_mapped \ {d} : s.host[gp_map[r]] = r
    /\ \A r \in Regs \ (gp_mapped \cup {x0, d}) :
          /\ \A h \in Replace : s.content[h] = r => s.host[h] = r
          /\ (\A h \in Replace : s.content[h] # r) => s.file[r] = r

Good(s, d) == s \in Alloc /\ Marked(s) /\ Unique(s) /\ Kept(s, d)

LEMMA Mapped ==
    /\ \A r \in gp_mapped : gp_map[r] \in Hosts /\ gp_map[r] \notin Replace /\ r \in Regs
    /\ \A r, q \in gp_mapped : gp_map[r] = gp_map[q] => r = q
    /\ x0 \in Regs /\ x0 \notin gp_mapped
    /\ Replace \subseteq Hosts
    /\ INVALID_REG \notin Regs /\ Stale \notin Regs
BY RegsAssumption, MapAssumption, TokensAssumption DEF Hosts

\* What holds of the values but those of x0 holds of them but those of x0 and d.
LEMMA Weaken ==
    ASSUME NEW s, NEW d, Good(s, x0)
    PROVE  Good(s, d)
BY Mapped DEF Good, Kept

-----------------------------------------------------------------------------
(* The emitted moves and the marks, field by field. *)

LEMMA TickFields ==
    ASSUME NEW s \in Alloc
    PROVE  LET t == Tick(s) IN
           /\ t \in Alloc /\ t.now = s.now + 1 /\ t.content = s.content
           /\ t.recency = s.recency /\ t.host = s.host /\ t.file = s.file
BY DEF Tick, Alloc

LEMMA NoteFields ==
    ASSUME NEW s \in Alloc, NEW h \in Replace, NEW r \in Regs
    PROVE  LET t == Note(s, h, r) IN
           /\ t \in Alloc /\ t.content = [s.content EXCEPT ![h] = r]
           /\ t.recency = [s.recency EXCEPT ![h] = s.now]
           /\ t.now = s.now /\ t.host = s.host /\ t.file = s.file
<1> DEFINE c == [s.content EXCEPT ![h] = r]
           k == [s.recency EXCEPT ![h] = s.now]
           t == [s EXCEPT !.content = c, !.recency = k]
<1>1. Note(s, h, r) = t
  BY DEF Note
<1>2. c \in [Replace -> Regs \cup {INVALID_REG}] /\ k \in [Replace -> Nat]
  BY DEF Alloc
<1> HIDE DEF c, k
<1>3. /\ t \in Alloc /\ t.content = c /\ t.recency = k
      /\ t.now = s.now /\ t.host = s.host /\ t.file = s.file
  BY <1>2 DEF Alloc
<1> HIDE DEF t
<1>. QED
  BY <1>1, <1>3 DEF c, k

LEMMA WriteBackFields ==
    ASSUME NEW s \in Alloc, NEW h \in Hosts, NEW r \in Regs
    PROVE  LET t == WriteBack(s, h, r) IN
           /\ t \in Alloc /\ t.file = [s.file EXCEPT ![r] = s.host[h]]
           /\ t.content = s.content /\ t.recency = s.recency /\ t.now = s.now /\ t.host = s.host
BY DEF WriteBack, Alloc

LEMMA FillFields ==
    ASSUME NEW s \in Alloc, NEW h \in Hosts, NEW r \in Regs
    PROVE  LET t == Fill(s, h, r) IN
           /\ t \in Alloc /\ t.host = [s.host EXCEPT ![h] = IF r = x0 THEN x0 ELSE s.file[r]]
           /\ t.content = s.content /\ t.recency = s.recency /\ t.now = s.now /\ t.file = s.file
<1> DEFINE x == IF r = x0 THEN x0 ELSE s.file[r]
<1>1. x \in Regs \cup {Stale}
  BY Mapped DEF Alloc
<1>2. Fill(s, h, r) = [s EXCEPT !.host[h] = x]
  BY DEF Fill
<1> HIDE DEF x
<1>. QED
  BY <1>1, <1>2 DEF Alloc, x

LEMMA MovFields ==
    ASSUME NEW s \in Alloc, NEW h \in Hosts, NEW g \in Hosts
    PROVE  LET t == Mov(s, h, g) IN
           /\ t \in Alloc /\ t.host = [s.host EXCEPT ![h] = s.host[g]]
           /\ t.content = s.content /\ t.recency = s.recency /\ t.now = s.now /\ t.file = s.file
BY DEF Mov, Alloc

LEMMA XchgFields ==
    ASSUME NEW s \in Alloc, NEW h \in Hosts, NEW g \in Hosts
    PROVE  LET t == Xchg(s, h, g) IN
           /\ t \in Alloc /\ t.host = [s.host EXCEPT ![h] = s.host[g], ![g] = s.host[h]]
           /\ t.content = s.content /\ t.recency = s.recency /\ t.now = s.now /\ t.file = s.file
<1> DEFINE x == [s.host EXCEPT ![h] = s.host[g], ![g] = s.host[h]]
<1>1. x \in [Hosts -> Regs \cup {Stale}]
  BY DEF Alloc
<1>2. Xchg(s, h, g) = [s EXCEPT !.host = x]
  BY DEF Xchg
<1> HIDE DEF x
<1>. QED
  BY <1>1, <1>2 DEF Alloc, x

LEMMA ScratchFields ==
    ASSUME NEW s \in Alloc, NEW hs
    PROVE  LET t == Scratch(s, hs) IN
           /\ t \in Alloc
           /\ t.host = [h \in Hosts |-> IF h \in hs THEN Stale ELSE s.host[h]]
           /\ t.content = s.content /\ t.recency = s.recency /\ t.now = s.now /\ t.file = s.file
<1> DEFINE x == [h \in Hosts |-> IF h \in hs THEN Stale ELSE s.host[h]]
<1>1. x \in [Hosts -> Regs \cup {Stale}]
  BY DEF Alloc
<1>2. Scratch(s, hs) = [s EXCEPT !.host = x]
  BY DEF Scratch
<1> HIDE DEF x
<1>. QED
  BY <1>1, <1>2 DEF Alloc, x

-----------------------------------------------------------------------------
(* Giving a register back. *)

LEMMA InvalidateFields ==
    ASSUME NEW s \in Alloc, NEW h \in Replace
    PROVE  LET t == invalidateReplacement(s, h) IN
           /\ t \in Alloc
           /\ t.content = [s.content EXCEPT ![h] = INVALID_REG]
           /\ t.recency = [s.recency EXCEPT ![h] = 0]
           /\ t.now = s.now /\ t.host = s.host
           /\ t.file = IF s.content[h] \in {x0, INVALID_REG} THEN s.file
                       ELSE [s.file EXCEPT ![s.content[h]] = s.host[h]]
<1>1. CASE s.content[h] \in {x0, INVALID_REG}
  BY <1>1, Mapped DEF invalidateReplacement, Alloc
<1>2. CASE s.content[h] \notin {x0, INVALID_REG}
  <2>1. s.content[h] \in Regs /\ s.host[h] \in Regs \cup {Stale}
    BY <1>2, Mapped DEF Alloc
  <2> DEFINE w == WriteBack(s, h, s.content[h])
  <2>2. /\ w \in Alloc /\ w.content = s.content /\ w.recency = s.recency /\ w.now = s.now
        /\ w.host = s.host /\ w.file = [s.file EXCEPT ![s.content[h]] = s.host[h]]
    BY <2>1 DEF WriteBack, Alloc
  <2>3. invalidateReplacement(s, h) = [w EXCEPT !.content[h] = INVALID_REG, !.recency[h] = 0]
    BY <1>2 DEF invalidateReplacement
  <2> HIDE DEF w
  <2> DEFINE c == [w.content EXCEPT ![h] = INVALID_REG]
             k == [w.recency EXCEPT ![h] = 0]
  <2>4. invalidateReplacement(s, h) = [w EXCEPT !.content = c, !.recency = k]
    BY <2>3
  <2>5. c \in [Replace -> Regs \cup {INVALID_REG}] /\ k \in [Replace -> Nat]
    BY <2>2 DEF Alloc
  <2>6. c = [s.content EXCEPT ![h] = INVALID_REG] /\ k = [s.recency EXCEPT ![h] = 0]
    BY <2>2
  <2> HIDE DEF c, k
  <2> DEFINE t == [w EXCEPT !.content = c, !.recency = k]
  <2>7. /\ t \in Alloc /\ t.content = c /\ t.recency = k
        /\ t.now = w.now /\ t.host = w.host /\ t.file = w.file
    BY <2>2, <2>5 DEF Alloc
  <2> HIDE DEF t
  <2>8. invalidateReplacement(s, h) = t
    BY <2>4 DEF t
  <2>. QED
    BY <1>2, <2>2, <2>6, <2>7, <2>8
<1>. QED
  BY <1>1, <1>2

LEMMA InvalidateGood ==
    ASSUME NEW s, NEW d, NEW h \in Replace, Good(s, d)
    PROVE  LET t == invalidateReplacement(s, h) IN
           /\ Good(t, d)
           /\ t.content[h] = INVALID_REG
           /\ \A g \in Replace \ {h} : t.content[g] = s.content[g]
<1> DEFINE t == invalidateReplacement(s, h)
<1>1. /\ t \in Alloc
      /\ t.content = [s.content EXCEPT ![h] = INVALID_REG]
      /\ t.recency = [s.recency EXCEPT ![h] = 0]
      /\ t.now = s.now /\ t.host = s.host
      /\ t.file = IF s.content[h] \in {x0, INVALID_REG} THEN s.file
                  ELSE [s.file EXCEPT ![s.content[h]] = s.host[h]]
  BY InvalidateFields DEF Good
<1>2. s \in Alloc
  BY DEF Good
<1> HIDE DEF t
<1>3. Marked(t)
  BY <1>1, <1>2 DEF Marked, Good, Alloc
<1>4. Unique(t)
  BY <1>1, <1>2, Mapped DEF Unique, Good, Alloc
<1>5. Kept(t, d)
  BY <1>1, <1>2, Mapped DEF Kept, Good, Alloc, Unique
<1>. QED
  BY <1>1, <1>2, <1>3, <1>4, <1>5 DEF Good, Alloc, t

-----------------------------------------------------------------------------
(* Choosing a register. *)

LEMMA OldestIs ==
    ASSUME NEW s \in Alloc
    PROVE  /\ OldestReg(s) \in Replace
           /\ \A g \in Replace : s.recency[OldestReg(s)] <= s.recency[g]
<1> DEFINE least(h) == \A g \in Replace :
             \/ s.recency[h] < s.recency[g]
             \/ s.recency[h] = s.recency[g] /\ getIndexForReg(h) <= getIndexForReg(g)
<1>1. s.recency["AX"] \in Nat /\ s.recency["DX"] \in Nat /\ s.recency["CX"] \in Nat
  BY DEF Alloc, Replace
<1>2. getIndexForReg("AX") = 0 /\ getIndexForReg("DX") = 1 /\ getIndexForReg("CX") = 2
  BY DEF getIndexForReg, FIRST_REG, SECOND_REG, THIRD_REG
<1>3. \E h \in Replace : least(h)
  BY <1>1, <1>2 DEF Replace
<1>4. OldestReg(s) = CHOOSE h \in Replace : least(h)
  BY DEF OldestReg
<1>5. OldestReg(s) \in Replace /\ least(OldestReg(s))
  BY <1>3, <1>4
<1>. QED
  BY <1>1, <1>5 DEF Alloc

LEMMA PresentIs ==
    ASSUME NEW s \in Alloc, NEW r, Holding(s, r) # {}
    PROVE  PresentIn(s, r) \in Replace /\ s.content[PresentIn(s, r)] = r
<1> DEFINE H == Holding(s, r)
           first(h) == \A g \in H : getIndexForReg(h) <= getIndexForReg(g)
<1>1. getIndexForReg("AX") = 0 /\ getIndexForReg("DX") = 1 /\ getIndexForReg("CX") = 2
  BY DEF getIndexForReg, FIRST_REG, SECOND_REG, THIRD_REG
<1>2. H \subseteq {"AX", "DX", "CX"} /\ H # {} /\ H = {h \in Replace : s.content[h] = r}
  BY DEF Holding, Replace
<1>3. PresentIn(s, r) = CHOOSE h \in H : first(h)
  BY DEF PresentIn
<1> HIDE DEF H
<1>4. \E h \in H : first(h)
  BY <1>1, <1>2
<1>5. PresentIn(s, r) \in H
  BY <1>3, <1>4
<1>. QED
  BY <1>2, <1>5

-----------------------------------------------------------------------------
(* Taking a register. *)

\* h has been noted for r, after all others.
Taken(s, t, h, r) == /\ t.content = [s.content EXCEPT ![h] = r]
                     /\ t.recency = [s.recency EXCEPT ![h] = s.now + 1]
                     /\ t.now = s.now + 1

LEMMA TakenMarked ==
    ASSUME NEW s \in Alloc, NEW t \in Alloc, NEW h \in Replace, NEW r \in Regs,
           Marked(s), Taken(s, t, h, r)
    PROVE  Marked(t) /\ \A g \in Replace \ {h} : t.recency[g] < t.recency[h]
BY Mapped DEF Marked, Taken, Alloc

\* The register is there already; only x0 is zeroed again.
LEMMA PresentGood ==
    ASSUME NEW s, NEW d, NEW r \in Regs, Good(s, d), NEW h \in Replace, s.content[h] = r
    PROVE  LET t == ZeroIfX0(Note(Tick(s), h, r), h, r) IN
           Good(t, d) /\ Taken(s, t, h, r)
<1> DEFINE t1 == Tick(s)
           t2 == Note(t1, h, r)
           t == ZeroIfX0(t2, h, r)
<1>1. s \in Alloc /\ h \in Hosts
  BY Mapped DEF Good
<1>2. /\ t1 \in Alloc /\ t1.now = s.now + 1 /\ t1.content = s.content
      /\ t1.recency = s.recency /\ t1.host = s.host /\ t1.file = s.file
  BY <1>1, TickFields
<1> HIDE DEF t1
<1>3. /\ t2 \in Alloc /\ Taken(s, t2, h, r) /\ t2.host = s.host /\ t2.file = s.file
  BY <1>2, NoteFields DEF Taken
<1> HIDE DEF t2
<1>4. /\ t \in Alloc /\ Taken(s, t, h, r) /\ t.file = s.file
      /\ t.host = IF r = x0 THEN [s.host EXCEPT ![h] = x0] ELSE s.host
  BY <1>1, <1>3, FillFields, Mapped DEF ZeroIfX0, Taken
<1> HIDE DEF t
<1>5. t.content = s.content
  BY <1>1, <1>4 DEF Taken, Alloc
<1>6. Marked(t)
  BY <1>1, <1>4, TakenMarked DEF Good
<1>7. Unique(t)
  BY <1>5 DEF Good, Unique
<1>8. Kept(t, d)
  BY <1>1, <1>4, <1>5, Mapped DEF Good, Kept, Alloc
<1>. QED
  BY <1>4, <1>6, <1>7, <1>8 DEF Good, t, t1, t2

\* The register is not there: what h holds goes back to the register file.
LEMMA EvictGood ==
    ASSUME NEW s, NEW d, NEW r \in Regs \ gp_mapped, NEW v \in BOOLEAN, Good(s, d),
           NEW h \in Replace, v \/ r \in {d, x0},
           \A g \in Replace : s.content[g] # r,
           NEW t \in Alloc, Taken(s, t, h, r),
           IF s.content[h] = INVALID_REG THEN t.file = s.file
           ELSE \/ t.file = [s.file EXCEPT ![s.content[h]] = s.host[h]]
                \/ s.content[h] = x0 /\ t.file = s.file,
           t.host = IF v THEN [s.host EXCEPT ![h] = IF r = x0 THEN x0 ELSE t.file[r]] ELSE s.host
    PROVE  Good(t, d)
<1>1. s \in Alloc /\ h \in Hosts
  BY Mapped DEF Good
<1>4. Marked(t)
  BY <1>1, TakenMarked DEF Good
<1>5. t.content = [s.content EXCEPT ![h] = r]
  BY DEF Taken
<1>6. Unique(t)
  BY <1>1, <1>5, Mapped DEF Good, Unique, Alloc
<1>7. ASSUME NEW q \in gp_mapped \ {d}
      PROVE  t.host[gp_map[q]] = q
  <2>1. s.host[gp_map[q]] = q /\ gp_map[q] # h /\ gp_map[q] \in Hosts
    BY Mapped DEF Good, Kept
  <2>. QED
    BY <1>1, <2>1 DEF Alloc
<1>8. ASSUME NEW q \in Regs \ (gp_mapped \cup {x0, d})
      PROVE  /\ \A g \in Replace : t.content[g] = q => t.host[g] = q
             /\ (\A g \in Replace : t.content[g] # q) => t.file[q] = q
  <2>1. /\ \A g \in Replace : s.content[g] = q => s.host[g] = q
        /\ (\A g \in Replace : s.content[g] # q) => s.file[q] = q
        /\ \A g, k \in Replace : s.content[g] = q /\ s.content[k] = q => g = k
    BY Mapped DEF Good, Kept, Unique
  <2>2. q # INVALID_REG /\ q # x0 /\ q # d
    BY Mapped
  <2>3. CASE q = r
    <3>1. s.file[q] = q /\ t.file[q] = q /\ v
      BY <1>1, <2>1, <2>2, <2>3 DEF Alloc
    <3>. QED
      BY <1>1, <1>5, <2>2, <2>3, <3>1, Mapped DEF Alloc
  <2>4. CASE q # r
    <3>1. CASE s.content[h] = q
      <4>1. t.file[q] = q
        BY <1>1, <2>1, <2>2, <3>1 DEF Alloc
      <4>. QED
        BY <1>1, <1>5, <2>1, <2>4, <3>1, <4>1 DEF Alloc
    <3>2. CASE s.content[h] # q
      <4>1. t.file[q] = s.file[q]
        BY <1>1, <2>2, <3>2 DEF Alloc
      <4>. QED
        BY <1>1, <1>5, <2>1, <2>4, <3>2, <4>1, Mapped DEF Alloc
    <3>. QED
      BY <3>1, <3>2
  <2>. QED
    BY <2>3, <2>4
<1>9. Kept(t, d)
  BY <1>7, <1>8 DEF Kept
<1>. QED
  BY <1>4, <1>6, <1>9 DEF Good

\* The register is in g: h and g change places.
LEMMA ShuffleFields ==
    ASSUME NEW s \in Alloc, NEW h \in Replace, NEW g \in Replace, h # g, NEW v \in BOOLEAN
    PROVE  LET t == Shuffle(s, h, g, v) IN
           /\ t \in Alloc
           /\ t.content = [s.content EXCEPT ![h] = s.content[g], ![g] = s.content[h]]
           /\ t.recency = [s.recency EXCEPT ![h] = s.now, ![g] = s.recency[h]]
           /\ t.now = s.now /\ t.file = s.file
           /\ \A k \in Hosts \ {h, g} : t.host[k] = s.host[k]
           /\ v => t.host[h] = s.host[g]
           /\ t.host[g] = IF s.recency[h] # 0 THEN s.host[h] ELSE s.host[g]
<1> DEFINE c == [s.content EXCEPT ![h] = s.content[g], ![g] = s.content[h]]
           k == [s.recency EXCEPT ![h] = s.now, ![g] = s.recency[h]]
           m == CASE s.recency[h] # 0 /\ v  -> Xchg(s, h, g)
                  [] s.recency[h] # 0 /\ ~v -> Mov(s, g, h)
                  [] s.recency[h] = 0 /\ v  -> Mov(s, h, g)
                  [] s.recency[h] = 0 /\ ~v -> s
           t == [m EXCEPT !.content = c, !.recency = k]
<1>1. h \in Hosts /\ g \in Hosts
  BY Mapped
<1>2. /\ m \in Alloc /\ m.content = s.content /\ m.recency = s.recency
      /\ m.now = s.now /\ m.file = s.file
      /\ \A x \in Hosts \ {h, g} : m.host[x] = s.host[x]
      /\ v => m.host[h] = s.host[g]
      /\ m.host[g] = IF s.recency[h] # 0 THEN s.host[h] ELSE s.host[g]
  <2>1. CASE s.recency[h] # 0 /\ v
    <3>1. m = Xchg(s, h, g)
      BY <2>1
    <3> HIDE DEF m
    <3>2. m.host = [s.host EXCEPT ![h] = s.host[g], ![g] = s.host[h]] /\ s \in Alloc
      BY <1>1, <3>1, XchgFields
    <3>3. /\ \A x \in Hosts \ {h, g} : m.host[x] = s.host[x]
          /\ m.host[h] = s.host[g] /\ m.host[g] = s.host[h]
      BY <1>1, <3>2 DEF Alloc
    <3>. QED
      BY <1>1, <2>1, <3>1, <3>3, XchgFields
  <2>2. CASE s.recency[h] # 0 /\ ~v
    <3>1. m = Mov(s, g, h)
      BY <2>2
    <3> HIDE DEF m
    <3>2. m.host = [s.host EXCEPT ![g] = s.host[h]] /\ s \in Alloc
      BY <1>1, <3>1, MovFields
    <3>3. (\A x \in Hosts \ {h, g} : m.host[x] = s.host[x]) /\ m.host[g] = s.host[h]
      BY <1>1, <3>2 DEF Alloc
    <3>. QED
      BY <1>1, <2>2, <3>1, <3>3, MovFields
  <2>3. CASE s.recency[h] = 0 /\ v
    <3>1. m = Mov(s, h, g)
      BY <2>3
    <3> HIDE DEF m
    <3>2. m.host = [s.host EXCEPT ![h] = s.host[g]] /\ s \in Alloc
      BY <1>1, <3>1, MovFields
    <3>3. /\ \A x \in Hosts \ {h, g} : m.host[x] = s.host[x]
          /\ m.host[h] = s.host[g] /\ m.host[g] = s.host[g]
      BY <1>1, <3>2 DEF Alloc
    <3>. QED
      BY <1>1, <2>3, <3>1, <3>3, MovFields
  <2>4. CASE s.recency[h] = 0 /\ ~v
    <3>1. m = s
      BY <2>4
    <3>. QED
      BY <2>4, <3>1
  <2>. QED
    BY <2>1, <2>2, <2>3, <2>4
<1> HIDE DEF m
<1>3. c \in [Replace -> Regs \cup {INVALID_REG}] /\ k \in [Replace -> Nat]
  BY DEF Alloc
<1>4. Shuffle(s, h, g, v) = t
  BY <1>2 DEF Shuffle, m
<1> HIDE DEF c, k
<1>5. /\ t \in Alloc /\ t.content = c /\ t.recency = k
      /\ t.now = m.now /\ t.host = m.host /\ t.file = m.file
  BY <1>2, <1>3 DEF Alloc
<1> HIDE DEF t
<1>. QED
  BY <1>2, <1>4, <1>5 DEF c, k

LEMMA ShuffleGood ==
    ASSUME NEW s, NEW d, NEW r \in Regs \ gp_mapped, NEW v \in BOOLEAN, Good(s, d),
           v \/ r \in {d, x0},
           NEW h \in Replace, NEW g \in Replace, h # g, s.content[g] = r
    PROVE  LET t == ZeroIfX0(Shuffle(Tick(s), h, g, v), h, r) IN
           /\ Good(t, d)
           /\ t.content = [s.content EXCEPT ![h] = r, ![g] = s.content[h]]
<1> DEFINE t1 == Tick(s)
           t2 == Shuffle(t1, h, g, v)
           t == ZeroIfX0(t2, h, r)
<1>1. s \in Alloc /\ h \in Hosts /\ g \in Hosts
  BY Mapped DEF Good
<1>2. /\ t1 \in Alloc /\ t1.now = s.now + 1 /\ t1.content = s.content
      /\ t1.recency = s.recency /\ t1.host = s.host /\ t1.file = s.file
  BY <1>1, TickFields
<1> HIDE DEF t1
<1>3. /\ t2 \in Alloc
      /\ t2.content = [s.content EXCEPT ![h] = r, ![g] = s.content[h]]
      /\ t2.recency = [s.recency EXCEPT ![h] = s.now + 1, ![g] = s.recency[h]]
      /\ t2.now = s.now + 1 /\ t2.file = s.file
      /\ \A k \in Hosts \ {h, g} : t2.host[k] = s.host[k]
      /\ v => t2.host[h] = s.host[g]
      /\ s.recency[h] # 0 => t2.host[g] = s.host[h]
  BY <1>2, ShuffleFields
<1> HIDE DEF t2
<1>4. /\ t \in Alloc /\ t.content = t2.content /\ t.recency = t2.recency
      /\ t.now = t2.now /\ t.file = s.file
      /\ t.host = IF r = x0 THEN [t2.host EXCEPT ![h] = x0] ELSE t2.host
  BY <1>1, <1>3, FillFields, Mapped DEF ZeroIfX0
<1> HIDE DEF t
<1>5. \A k \in Replace \ {h, g} : t.content[k] = s.content[k] /\ t.recency[k] = s.recency[k]
  BY <1>1, <1>3, <1>4 DEF Alloc
<1>6. /\ t.content[h] = r /\ t.content[g] = s.content[h]
      /\ t.recency[h] = s.now + 1 /\ t.recency[g] = s.recency[h]
  BY <1>1, <1>3, <1>4 DEF Alloc
<1>7. Marked(t)
  BY <1>1, <1>3, <1>4, <1>5, <1>6, Mapped DEF Good, Marked, Alloc
<1>8. Unique(t)
  BY <1>5, <1>6 DEF Good, Unique
<1>9. \A k \in Hosts \ {h, g} : t.host[k] = s.host[k]
  BY <1>1, <1>3, <1>4 DEF Alloc
<1>10. ASSUME NEW q \in gp_mapped \ {d}
       PROVE  t.host[gp_map[q]] = q
  BY <1>9, Mapped DEF Good, Kept
<1>11. ASSUME NEW q \in Regs \ (gp_mapped \cup {x0, d})
       PROVE  /\ \A k \in Replace : t.content[k] = q => t.host[k] = q
              /\ (\A k \in Replace : t.content[k] # q) => t.file[q] = q
  <2>1. /\ \A k \in Replace : s.content[k] = q => s.host[k] = q
        /\ (\A k \in Replace : s.content[k] # q) => s.file[q] = q
        /\ q # INVALID_REG /\ q # x0
    BY Mapped DEF Good, Kept
  <2>2. t.content[h] = q => t.host[h] = q
    BY <1>3, <1>4, <1>6, <2>1
  <2>3. t.content[g] = q => t.host[g] = q
    <3>1. s.content[h] = q => s.recency[h] # 0
      BY <2>1 DEF Good, Marked
    <3>2. t.host[g] = t2.host[g]
      BY <1>1, <1>3, <1>4 DEF Alloc
    <3>. QED
      BY <1>3, <1>6, <2>1, <3>1, <3>2
  <2>4. \A k \in Replace \ {h, g} : t.content[k] = q => t.host[k] = q
    BY <1>5, <1>9, <2>1, Mapped
  <2>5. (\A k \in Replace : t.content[k] # q) => t.file[q] = q
    BY <1>4, <1>5, <1>6, <2>1
  <2>. QED
    BY <2>2, <2>3, <2>4, <2>5
<1>12. Kept(t, d)
  BY <1>10, <1>11 DEF Kept
<1>. QED
  BY <1>3, <1>4, <1>7, <1>8, <1>12 DEF Good, t, t1, t2

-----------------------------------------------------------------------------
(* getRs, getRd, and the register they return. *)

LEMMA LoadGood ==
    ASSUME NEW s, NEW d, NEW r \in Regs \ gp_mapped, NEW v \in BOOLEAN, Good(s, d),
           v \/ r \in {d, x0}
    PROVE  LET t == loadIntoReplacement(s, r, v) IN
           /\ Good(t, d)
           /\ \E h \in Replace : Taken(s, t, h, r)
<1> DEFINE t1 == Tick(s)
           t == loadIntoReplacement(s, r, v)
<1>1. s \in Alloc
  BY DEF Good
<1>2. /\ t1 \in Alloc /\ t1.now = s.now + 1 /\ t1.content = s.content
      /\ t1.recency = s.recency /\ t1.host = s.host /\ t1.file = s.file
  BY <1>1, TickFields
<1>3. CASE Holding(s, r) # {}
  <2> DEFINE h == PresentIn(s, r)
  <2>1. h \in Replace /\ s.content[h] = r
    BY <1>1, <1>3, PresentIs
  <2>2. t = ZeroIfX0(Note(t1, h, r), h, r)
    BY <1>3 DEF loadIntoReplacement
  <2>. QED
    BY <2>1, <2>2, PresentGood
<1>4. CASE Holding(s, r) = {}
  <2> DEFINE h == OldestReg(s)
             w == IF s.content[h] \in {x0, INVALID_REG} THEN t1
                  ELSE WriteBack(t1, h, s.content[h])
  <2>1. h \in Replace /\ h \in Hosts
    BY <1>1, OldestIs, Mapped
  <2>2. \A g \in Replace : s.content[g] # r
    BY <1>4 DEF Holding
  <2>3. t = FillIf(Note(w, h, r), h, r, v)
    BY <1>4 DEF loadIntoReplacement
  <2>4. /\ w \in Alloc
        /\ w.content = s.content /\ w.recency = s.recency /\ w.now = s.now + 1 /\ w.host = s.host
        /\ IF s.content[h] \in {x0, INVALID_REG} THEN w.file = s.file
           ELSE w.file = [s.file EXCEPT ![s.content[h]] = s.host[h]]
    <3>1. CASE s.content[h] \in {x0, INVALID_REG}
      BY <1>2, <3>1
    <3>2. CASE s.content[h] \notin {x0, INVALID_REG}
      <4>1. s.content[h] \in Regs /\ w = WriteBack(t1, h, s.content[h])
        BY <1>1, <2>1, <3>2 DEF Alloc
      <4> HIDE DEF w, t1, h
      <4>. QED
        BY <1>2, <2>1, <3>2, <4>1, WriteBackFields
    <3>. QED
      BY <3>1, <3>2
  <2> HIDE DEF w, h, t1
  <2> DEFINE n == Note(w, h, r)
  <2>5. n \in Alloc /\ Taken(s, n, h, r) /\ n.host = s.host /\ n.file = w.file
    BY <2>1, <2>4, NoteFields DEF Taken
  <2> HIDE DEF n, t
  <2>6. /\ t \in Alloc /\ Taken(s, t, h, r) /\ t.file = w.file
        /\ t.host = IF v THEN [s.host EXCEPT ![h] = IF r = x0 THEN x0 ELSE w.file[r]] ELSE s.host
    <3>1. t = IF v THEN Fill(n, h, r) ELSE n
      BY <2>3 DEF FillIf, n
    <3>. QED
      BY <2>1, <2>5, <3>1, FillFields DEF Taken
  <2>7. Good(t, d)
    BY <2>1, <2>2, <2>4, <2>6, EvictGood, Mapped
  <2>. QED
    BY <2>1, <2>6, <2>7 DEF t
<1>. QED
  BY <1>3, <1>4

LEMMA LoadSpecificGood ==
    ASSUME NEW s, NEW d, NEW r \in Regs \ gp_mapped, NEW h \in Replace, NEW v \in BOOLEAN,
           Good(s, d), v \/ r \in {d, x0}
    PROVE  LET t == loadIntoSpecific(s, r, h, v) IN
           Good(t, d) /\ t.content[h] = r
<1> DEFINE t1 == Tick(s)
           t == loadIntoSpecific(s, r, h, v)
<1>1. s \in Alloc /\ h \in Hosts
  BY Mapped DEF Good
<1>2. /\ t1 \in Alloc /\ t1.now = s.now + 1 /\ t1.content = s.content
      /\ t1.recency = s.recency /\ t1.host = s.host /\ t1.file = s.file
  BY <1>1, TickFields
<1>3. CASE Holding(s, r) # {}
  <2> DEFINE g == PresentIn(s, r)
  <2>1. g \in Replace /\ s.content[g] = r
    BY <1>1, <1>3, PresentIs
  <2>2. t = ZeroIfX0(IF g = h THEN Note(t1, h, r) ELSE Shuffle(t1, h, g, v), h, r)
    BY <1>3 DEF loadIntoSpecific
  <2> HIDE DEF g, t
  <2>3. CASE g = h
    <3>1. t = ZeroIfX0(Note(Tick(s), h, r), h, r)
      BY <2>2, <2>3
    <3>2. Good(t, d) /\ Taken(s, t, h, r)
      BY <2>1, <2>3, <3>1, PresentGood
    <3>. QED
      BY <1>1, <3>2 DEF Taken, Alloc, t
  <2>4. CASE g # h
    <3>1. t = ZeroIfX0(Shuffle(Tick(s), h, g, v), h, r)
      BY <2>2, <2>4
    <3>2. Good(t, d) /\ t.content = [s.content EXCEPT ![h] = r, ![g] = s.content[h]]
      BY <2>1, <2>4, <3>1, ShuffleGood
    <3>3. t.content[h] = r
      BY <1>1, <2>4, <3>2 DEF Alloc
    <3>. QED
      BY <2>4, <3>2, <3>3 DEF t
  <2>. QED
    BY <2>3, <2>4
<1>4. CASE Holding(s, r) = {}
  <2> DEFINE w == Evict(t1, h)
  <2>1. \A g \in Replace : s.content[g] # r
    BY <1>4 DEF Holding
  <2>2. t = Note(IF v \/ r = x0 THEN Fill(w, h, r) ELSE w, h, r)
    BY <1>4 DEF loadIntoSpecific, FillIf
  <2>3. /\ w \in Alloc
        /\ w.content = s.content /\ w.recency = s.recency /\ w.now = s.now + 1 /\ w.host = s.host
        /\ IF s.content[h] = INVALID_REG THEN w.file = s.file
           ELSE w.file = [s.file EXCEPT ![s.content[h]] = s.host[h]]
    <3>1. CASE s.content[h] = INVALID_REG
      <4>1. s.recency[h] = 0
        BY <3>1 DEF Good, Marked
      <4>2. w = t1
        BY <1>2, <4>1 DEF Evict
      <4>. QED
        BY <1>2, <3>1, <4>2
    <3>2. CASE s.content[h] # INVALID_REG
      <4>1. s.content[h] \in Regs /\ s.recency[h] # 0
        BY <1>1, <3>2 DEF Good, Marked, Alloc
      <4>2. w = WriteBack(t1, h, s.content[h])
        BY <1>2, <4>1 DEF Evict
      <4> HIDE DEF w, t1
      <4>. QED
        BY <1>1, <1>2, <3>2, <4>1, <4>2, WriteBackFields
    <3>. QED
      BY <3>1, <3>2
  <2> HIDE DEF w, t1, t
  <2> DEFINE u == (v \/ r = x0)
             n == IF u THEN Fill(w, h, r) ELSE w
  <2>4. u \in BOOLEAN /\ (u \/ r \in {d, x0}) /\ t = Note(n, h, r)
    BY <2>2
  <2> HIDE DEF u
  <2>5. /\ n \in Alloc /\ n.content = s.content /\ n.recency = s.recency /\ n.now = s.now + 1
        /\ n.file = w.file
        /\ n.host = IF u THEN [s.host EXCEPT ![h] = IF r = x0 THEN x0 ELSE w.file[r]] ELSE s.host
    BY <1>1, <2>3, FillFields
  <2> HIDE DEF n
  <2>6. t \in Alloc /\ Taken(s, t, h, r) /\ t.file = n.file /\ t.host = n.host
    BY <2>4, <2>5, NoteFields DEF Taken
  <2>7. Good(t, d)
    BY <2>1, <2>3, <2>4, <2>5, <2>6, EvictGood
  <2>. QED
    BY <1>1, <2>6, <2>7 DEF Taken, Alloc, t
<1>. QED
  BY <1>3, <1>4

\* The host register h stands for r.
HostHolds(s, r, h) == IF r \in gp_mapped THEN h = gp_map[r]
                      ELSE h \in Replace /\ s.content[h] = r

LEMMA LoadSpecificHolds ==
    ASSUME NEW s, NEW d, NEW r \in Regs \ gp_mapped, NEW h \in Replace, NEW v \in BOOLEAN,
           Good(s, d), v \/ r \in {d, x0}
    PROVE  HostHolds(loadIntoSpecific(s, r, h, v), r, h)
<1> DEFINE t == loadIntoSpecific(s, r, h, v)
<1>1. Good(t, d) /\ t.content[h] = r
  BY LoadSpecificGood
<1> HIDE DEF t
<1>2. HostHolds(t, r, h)
  BY <1>1 DEF HostHolds
<1>. QED
  BY <1>2 DEF t

LEMMA HostOfHolds ==
    ASSUME NEW s \in Alloc, NEW r, r \notin gp_mapped => \E h \in Replace : s.content[h] = r
    PROVE  HostHolds(s, r, HostOf(s, r))
BY PresentIs DEF HostHolds, HostOf, Holding

LEMMA GetGood ==
    ASSUME NEW s, NEW d, NEW r \in Regs, NEW v \in BOOLEAN, Good(s, d),
           v \/ r \in {d, x0}
    PROVE  LET t == get(s, r, v) IN
           /\ Good(t, d) /\ HostHolds(t, r, HostOf(t, r))
           /\ \A g \in Replace : t.content[g] \in {s.content[g], r}
           /\ r \notin gp_mapped => \E h \in Replace : Taken(s, t, h, r)
<1> DEFINE t == get(s, r, v)
<1>1. CASE r \in gp_mapped
  <2>1. t = s
    BY <1>1 DEF get
  <2>. QED
    BY <1>1, <2>1 DEF HostHolds, HostOf
<1>2. CASE r \notin gp_mapped
  <2>1. t = loadIntoReplacement(s, r, v)
    BY <1>2 DEF get
  <2> HIDE DEF t
  <2>2. Good(t, d) /\ \E h \in Replace : Taken(s, t, h, r)
    BY <1>2, <2>1, LoadGood
  <2>3. PICK h \in Replace : Taken(s, t, h, r)
    BY <2>2
  <2>4. /\ t.content[h] = r
        /\ \A g \in Replace : t.content[g] \in {s.content[g], r}
    BY <2>3 DEF Taken, Good, Alloc
  <2>5. HostHolds(t, r, HostOf(t, r))
    BY <2>2, <2>4, HostOfHolds DEF Good
  <2>. QED
    BY <2>2, <2>4, <2>5 DEF t
<1>. QED
  BY <1>1, <1>2

LEMMA GetRsGood ==
    ASSUME NEW s, NEW d, NEW r \in Regs, Good(s, d)
    PROVE  Good(getRs(s, r), d)
BY GetGood DEF getRs

LEMMA GetRdGood ==
    ASSUME NEW s, NEW r \in Regs, Good(s, x0)
    PROVE  LET t == getRd(s, r) IN
           /\ Good(t, r) /\ HostHolds(t, r, HostOf(t, r))
           /\ \A g \in Replace : t.content[g] \in {s.content[g], r}
           /\ r \notin gp_mapped => \E h \in Replace : Taken(s, t, h, r)
<1>1. Good(s, r)
  BY Weaken
<1>2. FALSE \in BOOLEAN
  OBVIOUS
<1>. QED
  BY <1>1, <1>2, GetGood DEF getRd

LEMMA GetIntoGood ==
    ASSUME NEW s, NEW r \in Regs, NEW h \in Replace, Good(s, x0)
    PROVE  Good(getRsInto(s, r, h), x0)
<1>1. CASE r \notin gp_mapped
  BY <1>1, LoadSpecificGood DEF getRsInto
<1>2. CASE r \in gp_mapped
  <2> DEFINE s1 == invalidateReplacement(s, h)
             s2 == Mov(s1, h, gp_map[r])
             s3 == Tick(s2)
             t == Note(s3, h, r)
  <2>1. getRsInto(s, r, h) = t
    BY <1>2 DEF getRsInto
  <2>2. Good(s1, x0) /\ s1.content[h] = INVALID_REG
    BY InvalidateGood
  <2>3. h \in Hosts /\ gp_map[r] \in Hosts /\ s1 \in Alloc
    BY <1>2, <2>2, Mapped DEF Good
  <2> HIDE DEF s1
  <2>4. /\ s2 \in Alloc /\ s2.host = [s1.host EXCEPT ![h] = s1.host[gp_map[r]]]
        /\ s2.content = s1.content /\ s2.recency = s1.recency /\ s2.now = s1.now
        /\ s2.file = s1.file
    BY <2>3, MovFields
  <2> HIDE DEF s2
  <2>5. /\ s3 \in Alloc /\ s3.host = s2.host /\ s3.content = s1.content
        /\ s3.recency = s1.recency /\ s3.now = s1.now + 1 /\ s3.file = s1.file
    BY <2>4, TickFields
  <2> HIDE DEF s3
  <2>6. t \in Alloc /\ Taken(s1, t, h, r) /\ t.host = s2.host /\ t.file = s1.file
    BY <2>5, NoteFields DEF Taken
  <2> HIDE DEF t
  <2>7. \A g \in Replace : t.content[g] = IF g = h THEN r ELSE s1.content[g]
    BY <2>3, <2>6 DEF Taken, Alloc
  <2>8. \A g \in Hosts \ {h} : t.host[g] = s1.host[g]
    BY <2>3, <2>4, <2>6 DEF Alloc
  <2>9. Marked(t)
    BY <2>2, <2>3, <2>6, TakenMarked DEF Good
  <2>10. Unique(t)
    BY <1>2, <2>2, <2>7 DEF Good, Unique
  <2>11. Kept(t, x0)
    <3>1. \A q \in gp_mapped \ {x0} : t.host[gp_map[q]] = q
      BY <2>2, <2>8, Mapped DEF Good, Kept
    <3>2. ASSUME NEW q \in Regs \ (gp_mapped \cup {x0})
          PROVE  /\ \A g \in Replace : t.content[g] = q => t.host[g] = q
                 /\ (\A g \in Replace : t.content[g] # q) => t.file[q] = q
      <4>1. /\ \A g \in Replace : s1.content[g] = q => s1.host[g] = q
            /\ (\A g \in Replace : s1.content[g] # q) => s1.file[q] = q
            /\ q # r /\ q # INVALID_REG
        BY <1>2, <2>2, Mapped DEF Good, Kept
      <4>. QED
        BY <2>2, <2>6, <2>7, <2>8, <4>1, Mapped
    <3>. QED
      BY <3>1, <3>2 DEF Kept
  <2>. QED
    BY <2>1, <2>6, <2>9, <2>10, <2>11 DEF Good
<1>. QED
  BY <1>1, <1>2

-----------------------------------------------------------------------------
(* The result, and registers that are only worked in. *)

LEMMA AssignFields ==
    ASSUME NEW s \in Alloc, NEW rd \in Regs, NEW h
    PROVE  LET t == Assign(s, h, rd)
               old(v) == IF v = rd /\ rd # x0 THEN Stale ELSE v
               mine == IF rd # x0 THEN rd ELSE Stale IN
           /\ t \in Alloc /\ t.content = s.content /\ t.recency = s.recency /\ t.now = s.now
           /\ \A g \in Hosts : t.host[g] = IF g # h THEN old(s.host[g]) ELSE mine
           /\ \A r \in Regs : t.file[r] = old(s.file[r])
<1> DEFINE old(v) == IF v = rd /\ rd # x0 THEN Stale ELSE v
           mine == IF rd # x0 THEN rd ELSE Stale
           x == [g \in Hosts |-> IF g # h THEN old(s.host[g]) ELSE mine]
           y == [r \in Regs |-> old(s.file[r])]
           t == [s EXCEPT !.host = x, !.file = y]
<1>1. Assign(s, h, rd) = t
  <2>1. x = [g \in Hosts |-> CASE g # h -> old(s.host[g]) [] g = h /\ rd # x0 -> rd
                               [] g = h /\ rd = x0 -> Stale]
    OBVIOUS
  <2> HIDE DEF x
  <2>. QED
    BY <2>1 DEF Assign
<1>2. x \in [Hosts -> Regs \cup {Stale}] /\ y \in [Regs -> Regs \cup {Stale}]
  BY DEF Alloc
<1> HIDE DEF x, y
<1>3. /\ t \in Alloc /\ t.host = x /\ t.file = y
      /\ t.content = s.content /\ t.recency = s.recency /\ t.now = s.now
  BY <1>2 DEF Alloc
<1> HIDE DEF t
<1>4. \A g \in Hosts : t.host[g] = IF g # h THEN old(s.host[g]) ELSE mine
  BY <1>3 DEF x
<1>5. \A r \in Regs : t.file[r] = old(s.file[r])
  BY <1>3 DEF y
<1>. QED
  BY <1>1, <1>3, <1>4, <1>5

LEMMA AssignGood ==
    ASSUME NEW s, NEW rd \in Regs, NEW h, Good(s, rd), HostHolds(s, rd, h)
    PROVE  Good(Assign(s, h, rd), x0)
<1> DEFINE old(v) == IF v = rd /\ rd # x0 THEN Stale ELSE v
           mine == IF rd # x0 THEN rd ELSE Stale
           t == Assign(s, h, rd)
<1>1. /\ t \in Alloc /\ t.content = s.content /\ t.recency = s.recency /\ t.now = s.now
      /\ \A g \in Hosts : t.host[g] = IF g # h THEN old(s.host[g]) ELSE mine
      /\ \A r \in Regs : t.file[r] = old(s.file[r])
  BY AssignFields DEF Good
<1> HIDE DEF t
<1>2. Marked(t) /\ Unique(t)
  BY <1>1 DEF Good, Marked, Unique
<1>3. ASSUME NEW q \in gp_mapped \ {x0}
      PROVE  t.host[gp_map[q]] = q
  BY <1>1, <1>3, Mapped DEF Good, Kept, HostHolds
<1>4. ASSUME NEW q \in Regs \ (gp_mapped \cup {x0})
      PROVE  /\ \A g \in Replace : t.content[g] = q => t.host[g] = q
             /\ (\A g \in Replace : t.content[g] # q) => t.file[q] = q
  <2>1. CASE q = rd
    BY <1>1, <2>1, Mapped DEF Good, Unique, HostHolds
  <2>2. CASE q # rd
    <3>1. /\ \A g \in Replace : s.content[g] = q => s.host[g] = q /\ g # h
          /\ (\A g \in Replace : s.content[g] # q) => s.file[q] = q
      BY <2>2, Mapped DEF Good, Kept, HostHolds
    <3>. QED
      BY <1>1, <2>2, <3>1, Mapped
  <2>. QED
    BY <2>1, <2>2
<1>5. Kept(t, x0)
  BY <1>3, <1>4 DEF Kept
<1>. QED
  BY <1>1, <1>2, <1>5 DEF Good, t

LEMMA ScratchGood ==
    ASSUME NEW s, NEW d, NEW hs \in SUBSET Replace, Good(s, d),
           \A h \in hs : s.content[h] \in {INVALID_REG, d}
    PROVE  Good(Scratch(s, hs), d) /\ Scratch(s, hs).content = s.content
<1> DEFINE t == Scratch(s, hs)
<1>1. /\ t \in Alloc /\ t.host = [h \in Hosts |-> IF h \in hs THEN Stale ELSE s.host[h]]
      /\ t.content = s.content /\ t.recency = s.recency /\ t.now = s.now /\ t.file = s.file
  BY ScratchFields DEF Good
<1> HIDE DEF t
<1>2. \A h \in Hosts \ hs : t.host[h] = s.host[h]
  BY <1>1
<1>3. Marked(t) /\ Unique(t)
  BY <1>1 DEF Good, Marked, Unique
<1>4. Kept(t, d)
  BY <1>1, <1>2, Mapped DEF Good, Kept
<1>. QED
  BY <1>1, <1>3, <1>4 DEF Good, t

LEMMA OldestGood ==
    ASSUME NEW s, NEW d, Good(s, d)
    PROVE  LET t == invalidateOldest(s) IN
           /\ Good(t, d) /\ t.content[OldestReg(s)] = INVALID_REG
           /\ \A g \in Replace \ {OldestReg(s)} : t.content[g] = s.content[g]
<1> DEFINE h == OldestReg(s)
<1>1. h \in Replace
  BY OldestIs DEF Good
<1> HIDE DEF h
<1>2. CASE s.recency[h] # 0 /\ s.content[h] # INVALID_REG
  <2>1. invalidateOldest(s) = invalidateReplacement(s, h)
    BY <1>2 DEF invalidateOldest, h
  <2>. QED
    BY <1>1, <2>1, InvalidateGood DEF h
<1>3. CASE ~(s.recency[h] # 0 /\ s.content[h] # INVALID_REG)
  <2>1. invalidateOldest(s) = s
    BY <1>3 DEF invalidateOldest, h
  <2>2. s.content[h] = INVALID_REG
    BY <1>1, <1>3 DEF Good, Marked
  <2>. QED
    BY <2>1, <2>2 DEF h
<1>. QED
  BY <1>2, <1>3

LEMMA InvalidateTwo ==
    ASSUME NEW s, NEW d, Good(s, d), NEW h \in Replace, NEW g \in Replace, h # g
    PROVE  LET t == invalidateReplacement(invalidateReplacement(s, h), g) IN
           /\ Good(t, d) /\ t.content[h] = INVALID_REG /\ t.content[g] = INVALID_REG
           /\ \A k \in Replace \ {h, g} : t.content[k] = s.content[k]
<1> DEFINE u == invalidateReplacement(s, h)
           t == invalidateReplacement(u, g)
<1>1. /\ Good(u, d) /\ u.content[h] = INVALID_REG
      /\ \A k \in Replace \ {h} : u.content[k] = s.content[k]
  BY InvalidateGood
<1> HIDE DEF u
<1>2. /\ Good(t, d) /\ t.content[g] = INVALID_REG
      /\ \A k \in Replace \ {g} : t.content[k] = u.content[k]
  BY <1>1, InvalidateGood
<1> HIDE DEF t
<1>3. Good(t, d) /\ t.content[h] = INVALID_REG /\ t.content[g] = INVALID_REG
      /\ \A k \in Replace \ {h, g} : t.content[k] = s.content[k]
  BY <1>1, <1>2
<1>. QED
  BY <1>3 DEF t, u

LEMMA InvalidateAllGood ==
    ASSUME NEW s, NEW d, Good(s, d)
    PROVE  LET t == invalidateAllReplacements(s) IN
           Good(t, d) /\ \A h \in Replace : t.content[h] = INVALID_REG
<1> DEFINE u == invalidateReplacement(invalidateReplacement(s, FIRST_REG), SECOND_REG)
           t == invalidateReplacement(u, THIRD_REG)
<1>1. /\ FIRST_REG \in Replace /\ SECOND_REG \in Replace /\ THIRD_REG \in Replace
      /\ FIRST_REG # SECOND_REG
      /\ \A h \in Replace : h \in {FIRST_REG, SECOND_REG, THIRD_REG}
      /\ THIRD_REG \notin {FIRST_REG, SECOND_REG}
  BY DEF Replace, FIRST_REG, SECOND_REG, THIRD_REG
<1>2. Good(u, d) /\ u.content[FIRST_REG] = INVALID_REG /\ u.content[SECOND_REG] = INVALID_REG
  BY <1>1, InvalidateTwo
<1> HIDE DEF u
<1>3. /\ Good(t, d) /\ t.content[THIRD_REG] = INVALID_REG
      /\ \A k \in Replace \ {THIRD_REG} : t.content[k] = u.content[k]
  BY <1>1, <1>2, InvalidateGood
<1>4. invalidateAllReplacements(s) = t
  BY DEF invalidateAllReplacements, u
<1> HIDE DEF t
<1>. QED
  BY <1>1, <1>2, <1>3, <1>4

-----------------------------------------------------------------------------
(* The instructions. *)

GoodNow == Good(ri, x0)

LEMMA FormRegs ==
    ASSUME NEW f \in Forms
    PROVE  f.rs1 \in Regs /\ f.rs2 \in Regs /\ f.rd \in Regs
BY FormsAssumption

LEMMA ReplaceNames ==
    /\ {"AX", "DX", "CX"} = Replace /\ "AX" \in Replace /\ "DX" \in Replace /\ "CX" \in Replace
    /\ FIRST_REG = "AX" /\ SECOND_REG = "DX" /\ THIRD_REG = "CX"
BY DEF Replace, FIRST_REG, SECOND_REG, THIRD_REG

\* After the operands, the destination is taken and assigned.
LEMMA GetRdAssign ==
    ASSUME NEW s, NEW rd \in Regs, Good(s, x0)
    PROVE  Good(Assign(getRd(s, rd), HostOf(getRd(s, rd), rd), rd), x0)
<1>1. Good(getRd(s, rd), rd) /\ HostHolds(getRd(s, rd), rd, HostOf(getRd(s, rd), rd))
  BY GetRdGood
<1>. QED
  BY <1>1, AssignGood

LEMMA PlainGood ==
    ASSUME GoodNow, NEW f \in Forms,
           \/ TranslateImm(f) \/ TranslateUpper(f) \/ TranslateReg(f) \/ TranslateStore(f)
           \/ TranslateBranch(f)
    PROVE  GoodNow'
<1>. USE FormRegs DEF GoodNow
<1>1. \A s : Good(s, x0) => Good(getRs(s, f.rs1), x0) /\ Good(getRs(s, f.rs2), x0)
  BY GetRsGood
<1>2. \A s : Good(s, x0) => Good(Assign(getRd(s, f.rd), HostOf(getRd(s, f.rd), f.rd), f.rd), x0)
  BY GetRdAssign
<1>3. CASE TranslateImm(f) \/ TranslateUpper(f) \/ TranslateReg(f)
  BY <1>1, <1>2, <1>3 DEF TranslateImm, TranslateUpper, TranslateReg
<1>4. CASE TranslateStore(f)
  BY <1>1, <1>4 DEF TranslateStore
<1>5. CASE TranslateBranch(f)
  <2>1. \A s : Good(s, x0) => Good(invalidateAllReplacements(s), x0)
    BY InvalidateAllGood
  <2>. QED
    BY <1>1, <1>5, <2>1 DEF TranslateBranch
<1>. QED
  BY <1>3, <1>4, <1>5

\* rd moves out of CX, for the shift amount.
LEMMA ElsewhereGood ==
    ASSUME NEW s, NEW f \in Forms, NEW h1, f.rd \notin gp_mapped, Good(s, f.rd)
    PROVE  LET t == ShiftElsewhere(s, f, h1) IN
           Good(t, f.rd) /\ HostHolds(t, f.rd, HostOf(t, f.rd))
<1> DEFINE h == IF h1 = "AX" THEN "DX" ELSE "AX"
           u == invalidateReplacement(s, h)
           r == f.rd
           t == loadIntoSpecific(u, r, h, TRUE)
<1>1. h \in Replace /\ r \in Regs \ gp_mapped
  BY ReplaceNames, FormRegs
<1>2. ShiftElsewhere(s, f, h1) = t
  BY DEF ShiftElsewhere
<1> HIDE DEF h, r
<1>3. Good(u, r)
  BY <1>1, InvalidateGood DEF r
<1> HIDE DEF u
<1>4. Good(t, r)
  BY <1>1, <1>3, LoadSpecificGood
<1>6. HostHolds(t, r, h)
  BY <1>1, <1>3, LoadSpecificHolds
<1> HIDE DEF t
<1>5. HostHolds(t, r, HostOf(t, r))
  BY <1>1, <1>4, <1>6, HostOfHolds DEF Good, HostHolds
<1>. QED
  BY <1>2, <1>4, <1>5 DEF r

\* The destination of a shift has its register, in CX only if rs1 is there too.
LEMMA ShiftResult ==
    ASSUME NEW s3, NEW f \in Forms, NEW h1,
           Good(s3, f.rd), HostHolds(s3, f.rd, HostOf(s3, f.rd))
    PROVE  LET s4 == IF HostOf(s3, f.rd) # h1 /\ HostOf(s3, f.rd) = "CX"
                     THEN ShiftElsewhere(s3, f, h1) ELSE s3 IN
           Good(s4, f.rd) /\ HostHolds(s4, f.rd, HostOf(s4, f.rd))
<1>1. f.rd \in Regs
  BY FormRegs
<1>2. CASE HostOf(s3, f.rd) # h1 /\ HostOf(s3, f.rd) = "CX"
  <2>1. f.rd \notin gp_mapped
    BY <1>1, <1>2, ReplaceNames, Mapped DEF HostHolds
  <2>. QED
    BY <1>2, <2>1, ElsewhereGood
<1>3. CASE ~(HostOf(s3, f.rd) # h1 /\ HostOf(s3, f.rd) = "CX")
  BY <1>3
<1>. QED
  BY <1>2, <1>3

LEMMA ShiftGood ==
    ASSUME GoodNow, NEW f \in Forms, TranslateShift(f)
    PROVE  GoodNow'
<1> DEFINE s1 == getRsInto(ri, f.rs2, "CX")
           s2 == getRs(s1, f.rs1)
           s3 == getRd(s2, f.rd)
           h1 == HostOf(s2, f.rs1)
           s4 == IF HostOf(s3, f.rd) # h1 /\ HostOf(s3, f.rd) = "CX"
                 THEN ShiftElsewhere(s3, f, h1) ELSE s3
<1>1. f.rs1 \in Regs /\ f.rs2 \in Regs /\ f.rd \in Regs
  BY FormRegs
<1>2. Good(s1, x0)
  BY <1>1, GetIntoGood, ReplaceNames DEF GoodNow
<1>3. Good(s2, x0)
  BY <1>1, <1>2, GetRsGood
<1>4. Good(s3, f.rd) /\ HostHolds(s3, f.rd, HostOf(s3, f.rd))
  BY <1>1, <1>3, GetRdGood
<1>5. ri' = Assign(s4, HostOf(s4, f.rd), f.rd)
  BY DEF TranslateShift
<1> HIDE DEF s1, s2, s3
<1>6. Good(s4, f.rd) /\ HostHolds(s4, f.rd, HostOf(s4, f.rd))
  BY <1>4, ShiftResult
<1> HIDE DEF s4
<1>. QED
  BY <1>1, <1>5, <1>6, AssignGood DEF GoodNow

\* The registers in hs are worked in before the result is assigned.
LEMMA ScratchAssign ==
    ASSUME NEW s, NEW rd \in Regs, NEW h, NEW hs \in SUBSET Replace,
           Good(s, rd), HostHolds(s, rd, h),
           \A g \in hs : s.content[g] \in {INVALID_REG, rd}
    PROVE  Good(Scratch(s, hs), rd) /\ Good(Assign(Scratch(s, hs), h, rd), x0)
<1> DEFINE t == Scratch(s, hs)
<1>1. Good(t, rd) /\ t.content = s.content
  BY ScratchGood
<1> HIDE DEF t
<1>2. HostHolds(t, rd, h)
  BY <1>1 DEF HostHolds
<1>3. Good(t, rd) /\ Good(Assign(t, h, rd), x0)
  BY <1>1, <1>2, AssignGood
<1>. QED
  BY <1>3 DEF t

\* MULH and DIV: the result is in AX or DX, both of which have been freed.
LEMMA WideResult ==
    ASSUME NEW s, NEW rd \in Regs, Good(s, x0)
    PROVE  LET t == getRd(invalidateReplacement(invalidateReplacement(s, "DX"), "AX"), rd)
           IN  Good(Assign(Scratch(t, {"AX", "DX"}), HostOf(t, rd), rd), x0)
<1> DEFINE u == invalidateReplacement(invalidateReplacement(s, "DX"), "AX")
           t == getRd(u, rd)
           hs == {"AX", "DX"}
           h == HostOf(t, rd)
<1>1. "DX" \in Replace /\ "AX" \in Replace /\ "DX" # "AX"
  BY ReplaceNames
<1>2. Good(u, x0) /\ u.content["DX"] = INVALID_REG /\ u.content["AX"] = INVALID_REG
  BY <1>1, InvalidateTwo
<1> HIDE DEF u
<1>3. /\ Good(t, rd) /\ HostHolds(t, rd, HostOf(t, rd))
      /\ \A g \in Replace : t.content[g] \in {u.content[g], rd}
  BY <1>2, GetRdGood
<1> HIDE DEF t
<1>4. hs \in SUBSET Replace /\ \A g \in hs : t.content[g] \in {INVALID_REG, rd}
  BY <1>1, <1>2, <1>3
<1> HIDE DEF hs
<1>5. HostHolds(t, rd, h)
  BY <1>3
<1> HIDE DEF h
<1>6. Good(Assign(Scratch(t, hs), h, rd), x0)
  BY <1>3, <1>4, <1>5, ScratchAssign
<1>. QED
  BY <1>6 DEF t, u, hs, h

LEMMA WideGood ==
    ASSUME GoodNow, NEW f \in Forms, TranslateMulHigh(f) \/ TranslateDiv(f)
    PROVE  GoodNow'
<1>1. f.rs1 \in Regs /\ f.rs2 \in Regs /\ f.rd \in Regs
  BY FormRegs
<1>2. "AX" \in Replace /\ "CX" \in Replace
  BY ReplaceNames
<1>3. CASE TranslateMulHigh(f)
  <2> DEFINE s1 == getRsInto(ri, f.rs1, "AX")
             s2 == getRsInto(s1, f.rs2, "CX")
             t == getRd(invalidateReplacement(invalidateReplacement(s2, "DX"), "AX"), f.rd)
  <2>1. ri' = Assign(Scratch(t, {"AX", "DX"}), HostOf(t, f.rd), f.rd)
    BY <1>3 DEF TranslateMulHigh
  <2>2. Good(s1, x0)
    BY <1>1, <1>2, GetIntoGood DEF GoodNow
  <2> HIDE DEF s1
  <2>3. Good(s2, x0)
    BY <1>1, <1>2, <2>2, GetIntoGood
  <2> HIDE DEF s2
  <2>4. Good(Assign(Scratch(t, {"AX", "DX"}), HostOf(t, f.rd), f.rd), x0)
    BY <1>1, <2>3, WideResult
  <2> HIDE DEF t
  <2>. QED
    BY <2>1, <2>4 DEF GoodNow
<1>4. CASE TranslateDiv(f)
  <2> DEFINE s1 == getRsInto(ri, f.rs2, "CX")
             s2 == getRsInto(s1, f.rs1, "AX")
             t == getRd(invalidateReplacement(invalidateReplacement(s2, "DX"), "AX"), f.rd)
  <2>1. ri' = Assign(Scratch(t, {"AX", "DX"}), HostOf(t, f.rd), f.rd)
    BY <1>4 DEF TranslateDiv
  <2>2. Good(s1, x0)
    BY <1>1, <1>2, GetIntoGood DEF GoodNow
  <2> HIDE DEF s1
  <2>3. Good(s2, x0)
    BY <1>1, <1>2, <2>2, GetIntoGood
  <2> HIDE DEF s2
  <2>4. Good(Assign(Scratch(t, {"AX", "DX"}), HostOf(t, f.rd), f.rd), x0)
    BY <1>1, <2>3, WideResult
  <2> HIDE DEF t
  <2>. QED
    BY <2>1, <2>4 DEF GoodNow
<1>. QED
  BY <1>3, <1>4

LEMMA AmoGood ==
    ASSUME GoodNow, NEW f \in Forms, TranslateAmo(f)
    PROVE  GoodNow'
<1> DEFINE s1 == getRs(ri, f.rs1)
           s2 == getRs(s1, f.rs2)
           t == getRd(s2, f.rd)
<1>1. f.rs1 \in Regs /\ f.rs2 \in Regs /\ f.rd \in Regs
  BY FormRegs
<1>2. ri' = IF f.rd = x0 THEN t ELSE Assign(t, HostOf(t, f.rd), f.rd)
  BY DEF TranslateAmo
<1>3. Good(s1, x0)
  BY <1>1, GetRsGood DEF GoodNow
<1> HIDE DEF s1
<1>4. Good(s2, x0)
  BY <1>1, <1>3, GetRsGood
<1> HIDE DEF s2
<1>5. Good(t, f.rd) /\ Good(Assign(t, HostOf(t, f.rd), f.rd), x0)
  BY <1>1, <1>4, GetRdGood, GetRdAssign
<1> HIDE DEF t
<1>. QED
  BY <1>2, <1>5 DEF GoodNow

\* DX is freed unless the destination is there.
LEMMA FreeUnlessRd ==
    ASSUME NEW s, NEW rd \in Regs, NEW h, NEW g \in Replace, Good(s, rd), HostHolds(s, rd, h)
    PROVE  LET t == IF h = g THEN s ELSE invalidateReplacement(s, g) IN
           Good(t, rd) /\ HostHolds(t, rd, h) /\ t.content[g] \in {INVALID_REG, rd}
<1> DEFINE t == invalidateReplacement(s, g)
<1>1. CASE h = g
  BY <1>1, Mapped DEF HostHolds
<1>2. CASE h # g
  <2>1. /\ Good(t, rd) /\ t.content[g] = INVALID_REG
        /\ \A k \in Replace \ {g} : t.content[k] = s.content[k]
    BY InvalidateGood
  <2> HIDE DEF t
  <2>2. Good(t, rd) /\ HostHolds(t, rd, h) /\ t.content[g] \in {INVALID_REG, rd}
    BY <1>2, <2>1 DEF HostHolds
  <2>. QED
    BY <1>2, <2>2 DEF t
<1>. QED
  BY <1>1, <1>2

LEMMA AmoMinMaxGood ==
    ASSUME GoodNow, NEW f \in Forms, TranslateAmoMinMax(f)
    PROVE  GoodNow'
<1> DEFINE s1 == getRs(ri, f.rs1)
           s2 == getRsInto(s1, f.rs2, SECOND_REG)
           s3 == getRd(s2, f.rd)
           h  == HostOf(s3, f.rd)
           s4 == IF h = SECOND_REG THEN s3 ELSE invalidateReplacement(s3, SECOND_REG)
           hs == {SECOND_REG}
<1>1. f.rs1 \in Regs /\ f.rs2 \in Regs /\ f.rd \in Regs
  BY FormRegs
<1>2. SECOND_REG \in Replace
  BY ReplaceNames
<1>3. ri' = IF f.rd = x0 THEN Scratch(s4, hs) ELSE Assign(Scratch(s4, hs), h, f.rd)
  BY DEF TranslateAmoMinMax
<1>4. Good(s1, x0)
  BY <1>1, GetRsGood DEF GoodNow
<1> HIDE DEF s1
<1>5. Good(s2, x0)
  BY <1>1, <1>2, <1>4, GetIntoGood
<1> HIDE DEF s2
<1>6. Good(s3, f.rd) /\ HostHolds(s3, f.rd, h)
  BY <1>1, <1>5, GetRdGood
<1> HIDE DEF s3, h
<1>7. Good(s4, f.rd) /\ HostHolds(s4, f.rd, h) /\ s4.content[SECOND_REG] \in {INVALID_REG, f.rd}
  BY <1>1, <1>2, <1>6, FreeUnlessRd
<1>8. hs \in SUBSET Replace
  BY <1>2
<1>9. \A g \in hs : s4.content[g] \in {INVALID_REG, f.rd}
  BY <1>7
<1> HIDE DEF s4, hs
<1>10. Good(Scratch(s4, hs), f.rd) /\ Good(Assign(Scratch(s4, hs), h, f.rd), x0)
  BY <1>1, <1>7, <1>8, <1>9, ScratchAssign
<1>. QED
  BY <1>3, <1>10 DEF GoodNow

\* The register taken last is not the oldest one.
LEMMA TakenNotOldest ==
    ASSUME NEW s \in Alloc, NEW t \in Alloc, NEW h \in Replace, NEW r \in Regs,
           Marked(s), Taken(s, t, h, r)
    PROVE  OldestReg(t) # h
<1>1. \A g \in Replace : t.recency[OldestReg(t)] <= t.recency[g]
  BY OldestIs
<1>2. \A g \in Replace \ {h} : t.recency[g] < t.recency[h]
  BY TakenMarked
<1>3. \E g \in Replace : g # h
  BY ReplaceNames
<1>4. t.recency \in [Replace -> Nat]
  BY DEF Alloc
<1>. QED
  BY <1>1, <1>2, <1>3, <1>4

\* A scratch register is the oldest one, and not the destination.
LEMMA ResultNotOldest ==
    ASSUME NEW s, NEW rd \in Regs, Good(s, x0)
    PROVE  LET s1 == getRd(s, rd)
               s2 == invalidateOldest(s1) IN
           /\ OldestReg(s1) \in Replace /\ s1 \in Alloc
           /\ Good(s2, rd) /\ HostHolds(s2, rd, HostOf(s1, rd))
           /\ s2.content[OldestReg(s1)] = INVALID_REG
<1> DEFINE s1 == getRd(s, rd)
           h  == HostOf(s1, rd)
           o  == OldestReg(s1)
           s2 == invalidateOldest(s1)
<1>1. /\ Good(s1, rd) /\ HostHolds(s1, rd, h)
      /\ rd \notin gp_mapped => \E k \in Replace : Taken(s, s1, k, rd)
  BY GetRdGood
<1> HIDE DEF s1, h
<1>2. o \in Replace
  BY <1>1, OldestIs DEF Good
<1>3. rd \notin gp_mapped => h # o
  <2>1. SUFFICES ASSUME rd \notin gp_mapped PROVE h # o
    OBVIOUS
  <2>2. PICK k \in Replace : Taken(s, s1, k, rd)
    BY <1>1, <2>1
  <2>3. s1.content[k] = rd /\ o # k
    BY <1>1, <2>2, TakenNotOldest DEF Taken, Good, Alloc
  <2>4. h = k
    BY <1>1, <2>1, <2>3 DEF HostHolds, Good, Unique
  <2>. QED
    BY <2>3, <2>4
<1>4. /\ Good(s2, rd) /\ s2.content[o] = INVALID_REG
      /\ \A g \in Replace \ {o} : s2.content[g] = s1.content[g]
  BY <1>1, OldestGood
<1> HIDE DEF s2, o
<1>5. HostHolds(s2, rd, h)
  BY <1>1, <1>3, <1>4 DEF HostHolds
<1>. QED
  BY <1>1, <1>2, <1>4, <1>5 DEF s1, s2, h, o, Good

LEMMA FpToIntGood ==
    ASSUME GoodNow, NEW f \in Forms, TranslateFpToInt(f)
    PROVE  GoodNow'
<1> DEFINE s1 == getRd(ri, f.rd)
           h  == HostOf(s1, f.rd)
           o  == OldestReg(s1)
           s2 == invalidateOldest(s1)
           hs == {o}
<1>1. f.rd \in Regs
  BY FormRegs
<1>2. ri' = Assign(Scratch(s2, hs), h, f.rd)
  BY DEF TranslateFpToInt
<1>3. o \in Replace /\ Good(s2, f.rd) /\ HostHolds(s2, f.rd, h) /\ s2.content[o] = INVALID_REG
  BY <1>1, ResultNotOldest DEF GoodNow
<1> HIDE DEF s1, s2, h, o
<1>4. hs \in SUBSET Replace /\ \A g \in hs : s2.content[g] \in {INVALID_REG, f.rd}
  BY <1>3
<1> HIDE DEF hs
<1>5. Good(Assign(Scratch(s2, hs), h, f.rd), x0)
  BY <1>1, <1>3, <1>4, ScratchAssign
<1>. QED
  BY <1>2, <1>5 DEF GoodNow

LEMMA FpFromWordGood ==
    ASSUME GoodNow, NEW f \in Forms, TranslateFpFromWord(f)
    PROVE  GoodNow'
<1> DEFINE s1 == getRs(ri, f.rs1)
           o  == OldestReg(s1)
           s2 == invalidateOldest(s1)
           hs == {o}
<1>1. ri' = Scratch(s2, hs)
  BY DEF TranslateFpFromWord
<1>2. Good(s1, x0)
  BY FormRegs, GetRsGood DEF GoodNow
<1> HIDE DEF s1
<1>3. o \in Replace
  BY <1>2, OldestIs DEF Good
<1>4. Good(s2, x0) /\ s2.content[o] = INVALID_REG
  BY <1>2, OldestGood
<1> HIDE DEF s2, o
<1>5. hs \in SUBSET Replace /\ \A g \in hs : s2.content[g] \in {INVALID_REG, x0}
  BY <1>3, <1>4
<1> HIDE DEF hs
<1>6. Good(Scratch(s2, hs), x0)
  BY <1>4, <1>5, ScratchGood
<1>. QED
  BY <1>1, <1>6 DEF GoodNow

LEMMA FpFromLongGood ==
    ASSUME GoodNow, NEW f \in Forms, TranslateFpFromLong(f)
    PROVE  GoodNow'
<1> DEFINE s1 == getRs(ri, f.rs1)
           s2 == invalidateReplacement(invalidateReplacement(s1, FIRST_REG), SECOND_REG)
           hs == {FIRST_REG, SECOND_REG}
<1>1. ri' = Scratch(s2, hs)
  BY DEF TranslateFpFromLong
<1>2. Good(s1, x0)
  BY FormRegs, GetRsGood DEF GoodNow
<1> HIDE DEF s1
<1>3. FIRST_REG \in Replace /\ SECOND_REG \in Replace /\ FIRST_REG # SECOND_REG
  BY ReplaceNames
<1>4. /\ Good(s2, x0)
      /\ s2.content[FIRST_REG] = INVALID_REG /\ s2.content[SECOND_REG] = INVALID_REG
  BY <1>2, <1>3, InvalidateTwo
<1> HIDE DEF s2
<1>5. hs \in SUBSET Replace /\ \A g \in hs : s2.content[g] \in {INVALID_REG, x0}
  BY <1>3, <1>4
<1> HIDE DEF hs
<1>6. Good(Scratch(s2, hs), x0)
  BY <1>4, <1>5, ScratchGood
<1>. QED
  BY <1>1, <1>6 DEF GoodNow

LEMMA GetRdHintedGood ==
    ASSUME NEW s, NEW r \in Regs, NEW g \in Replace, Good(s, x0)
    PROVE  LET t == getRdHinted(s, r, g)
           IN  Good(t, r) /\ HostHolds(t, r, IF r \in gp_mapped THEN gp_map[r] ELSE g)
<1>1. Good(s, r) /\ FALSE \in BOOLEAN
  BY Weaken
<1>2. CASE r \in gp_mapped
  BY <1>1, <1>2 DEF getRdHinted, HostHolds
<1>3. CASE r \notin gp_mapped
  <2> DEFINE t == loadIntoSpecific(s, r, g, FALSE)
  <2>1. getRdHinted(s, r, g) = t
    BY <1>3 DEF getRdHinted
  <2>2. Good(t, r)
    BY <1>1, <1>3, LoadSpecificGood
  <2>3. HostHolds(t, r, g)
    BY <1>1, <1>3, LoadSpecificHolds
  <2> HIDE DEF t
  <2>. QED
    BY <1>3, <2>1, <2>2, <2>3
<1>. QED
  BY <1>2, <1>3

LEMMA FpClassGood ==
    ASSUME GoodNow, NEW f \in Forms, TranslateFpClass(f)
    PROVE  GoodNow'
<1> DEFINE s1 == getRdHinted(ri, f.rd, FIRST_REG)
           s2 == invalidateReplacement(invalidateReplacement(s1, SECOND_REG), THIRD_REG)
           h  == IF f.rd \in gp_mapped THEN gp_map[f.rd] ELSE FIRST_REG
           hs == {SECOND_REG, THIRD_REG}
<1>1. f.rd \in Regs
  BY FormRegs
<1>2. /\ FIRST_REG \in Replace /\ SECOND_REG \in Replace /\ THIRD_REG \in Replace
      /\ SECOND_REG # THIRD_REG /\ FIRST_REG \notin hs
  BY ReplaceNames
<1>3. ri' = Assign(Scratch(s2, hs), h, f.rd)
  BY DEF TranslateFpClass
<1>4. Good(s1, f.rd) /\ HostHolds(s1, f.rd, h)
  BY <1>1, <1>2, GetRdHintedGood DEF GoodNow
<1>5. f.rd \notin gp_mapped => h = FIRST_REG
  OBVIOUS
<1> HIDE DEF s1, h
<1>6. /\ Good(s2, f.rd)
      /\ s2.content[SECOND_REG] = INVALID_REG /\ s2.content[THIRD_REG] = INVALID_REG
      /\ \A g \in Replace \ hs : s2.content[g] = s1.content[g]
  BY <1>2, <1>4, InvalidateTwo
<1> HIDE DEF s2
<1>7. hs \in SUBSET Replace /\ \A g \in hs : s2.content[g] \in {INVALID_REG, f.rd}
  BY <1>2, <1>6
<1> HIDE DEF hs
<1>8. HostHolds(s2, f.rd, h)
  BY <1>2, <1>4, <1>5, <1>6 DEF HostHolds
<1>9. Good(Assign(Scratch(s2, hs), h, f.rd), x0)
  BY <1>1, <1>6, <1>7, <1>8, ScratchAssign
<1>. QED
  BY <1>3, <1>9 DEF GoodNow

LEMMA AllScratchGood ==
    ASSUME GoodNow, EndBlock \/ \E f \in Forms : TranslateFpSign(f)
    PROVE  GoodNow'
<1> DEFINE s == invalidateAllReplacements(ri)
<1>1. ri' = Scratch(s, Replace)
  BY DEF EndBlock, TranslateFpSign
<1>2. Good(s, x0) /\ \A h \in Replace : s.content[h] = INVALID_REG
  BY InvalidateAllGood DEF GoodNow
<1> HIDE DEF s
<1>3. Good(Scratch(s, Replace), x0)
  BY <1>2, ScratchGood
<1>. QED
  BY <1>1, <1>3 DEF GoodNow

-----------------------------------------------------------------------------
(* The theorems. *)

LEMMA InitGood == Init => GoodNow
<1> SUFFICES ASSUME Init PROVE GoodNow
  OBVIOUS
<1> DEFINE at(h) == IF h \in Replace THEN Stale ELSE CHOOSE r \in gp_mapped : gp_map[r] = h
           con == [h \in Replace |-> INVALID_REG]
           rec == [h \in Replace |-> 0]
           hst == [h \in Hosts |-> at(h)]
           fil == [r \in Regs |-> r]
<1>1. ri = [content |-> con, recency |-> rec, now |-> 1, host |-> hst, file |-> fil]
  BY DEF Init
<1>2. \A h \in Hosts \ Replace : at(h) \in gp_mapped /\ gp_map[at(h)] = h
  BY DEF Hosts
<1>3. \A r \in gp_mapped : at(gp_map[r]) = r
  BY <1>2, Mapped
<1>4. \A h \in Hosts : at(h) \in Regs \cup {Stale}
  BY <1>2, Mapped
<1> HIDE DEF at
<1>5. hst \in [Hosts -> Regs \cup {Stale}] /\ \A r \in gp_mapped : hst[gp_map[r]] = r
  BY <1>3, <1>4, Mapped
<1> HIDE DEF hst
<1>6. /\ con \in [Replace -> Regs \cup {INVALID_REG}] /\ rec \in [Replace -> Nat]
      /\ fil \in [Regs -> Regs \cup {Stale}]
      /\ \A h \in Replace : con[h] = INVALID_REG /\ rec[h] = 0
      /\ \A r \in Regs : fil[r] = r
  OBVIOUS
<1> HIDE DEF con, rec, fil
<1>7. /\ ri \in Alloc /\ ri.content = con /\ ri.recency = rec /\ ri.now = 1
      /\ ri.host = hst /\ ri.file = fil
  BY <1>1, <1>5, <1>6 DEF Alloc
<1>8. Marked(ri) /\ Unique(ri)
  BY <1>6, <1>7, Mapped DEF Marked, Unique
<1>9. Kept(ri, x0)
  BY <1>5, <1>6, <1>7, Mapped DEF Kept
<1>. QED
  BY <1>7, <1>8, <1>9 DEF GoodNow, Good

LEMMA NextGood == GoodNow /\ [Next]_vars => GoodNow'
<1> SUFFICES ASSUME GoodNow, [Next]_vars PROVE GoodNow'
  OBVIOUS
<1>1. CASE UNCHANGED vars
  BY <1>1 DEF vars, GoodNow
<1>2. CASE EndBlock
  BY <1>2, AllScratchGood
<1>3. ASSUME NEW f \in Forms,
             \/ TranslateImm(f) \/ TranslateUpper(f) \/ TranslateReg(f) \/ TranslateStore(f)
             \/ TranslateBranch(f)
      PROVE  GoodNow'
  BY <1>3, PlainGood
<1>4. ASSUME NEW f \in Forms, TranslateShift(f) PROVE GoodNow'
  BY <1>4, ShiftGood
<1>5. ASSUME NEW f \in Forms, TranslateMulHigh(f) \/ TranslateDiv(f) PROVE GoodNow'
  BY <1>5, WideGood
<1>6. ASSUME NEW f \in Forms, TranslateAmo(f) PROVE GoodNow'
  BY <1>6, AmoGood
<1>7. ASSUME NEW f \in Forms, TranslateAmoMinMax(f) PROVE GoodNow'
  BY <1>7, AmoMinMaxGood
<1>8. ASSUME NEW f \in Forms, TranslateFpToInt(f) PROVE GoodNow'
  BY <1>8, FpToIntGood
<1>9. ASSUME NEW f \in Forms, TranslateFpFromWord(f) PROVE GoodNow'
  BY <1>9, FpFromWordGood
<1>10. ASSUME NEW f \in Forms, TranslateFpFromLong(f) PROVE GoodNow'
  BY <1>10, FpFromLongGood
<1>11. ASSUME NEW f \in Forms, TranslateFpClass(f) PROVE GoodNow'
  BY <1>11, FpClassGood
<1>12. ASSUME NEW f \in Forms, TranslateFpSign(f) PROVE GoodNow'
  BY <1>12, AllScratchGood
<1>. QED
  BY <1>1, <1>2, <1>3, <1>4, <1>5, <1>6, <1>7, <1>8, <1>9, <1>10, <1>11, <1>12 DEF Next

LEMMA GoodValues == GoodNow => NoValueLost
<1> SUFFICES ASSUME GoodNow PROVE NoValueLost
  OBVIOUS
<1>1. ASSUME NEW r \in Regs \ {x0} PROVE Home(r) = r
  <2>1. CASE r \in gp_mapped
    BY <2>1 DEF Home, GoodNow, Good, Kept
  <2>2. CASE r \notin gp_mapped /\ Holding(ri, r) # {}
    BY <2>2, PresentIs DEF Home, GoodNow, Good, Kept
  <2>3. CASE r \notin gp_mapped /\ Holding(ri, r) = {}
    BY <2>3 DEF Home, Holding, GoodNow, Good, Kept
  <2>. QED
    BY <2>1, <2>2, <2>3
<1>2. \A r \in Regs \ gp_mapped : \A h, g \in Holding(ri, r) : h = g
  BY DEF GoodNow, Good, Unique, Holding
<1>. QED
  BY <1>1, <1>2 DEF NoValueLost

LEMMA GoodAlways == Spec => []GoodNow
BY InitGood, NextGood, PTL DEF Spec

\* No value is ever lost: each guest register's value is in its own host
\* register, in the one replacement register marked with it, or else in the
\* register file (loadIntoReplacement, loadIntoSpecific and
\* invalidateReplacement of util.h), for every mapping and every instruction mix.
THEOREM NoValueLostHolds == Spec => []NoValueLost
BY GoodAlways, GoodValues, PTL

\* The marks are right: recency 0 means unused (invalidateReplacement resets
\* both), and the ones in use differ, so the least recently used one is not
\* the operand taken last.
THEOREM RecencyMarksHolds == Spec => []RecencyMarks
<1>1. GoodNow => RecencyMarks
  BY DEF GoodNow, Good, Marked, RecencyMarks
<1>. QED
  BY <1>1, GoodAlways, PTL

\* What was misread is among the operands of an instruction.
LEMMA WrongOperandsRegs ==
    ASSUME NEW s, NEW reads, \A o \in reads : o.reg \in Regs
    PROVE  WrongOperands(s, reads) \subseteq Regs
BY DEF WrongOperands

Operands == misread \subseteq Regs

LEMMA NextMisread == Operands /\ [Next]_vars => Operands'
<1> SUFFICES ASSUME misread \subseteq Regs, [Next]_vars PROVE misread' \subseteq Regs
  BY DEF Operands
<1>1. \A h : \A r \in Regs : Reads(h, r).reg \in Regs
  BY DEF Reads
<1>2. \A s : \A o : o.reg \in Regs => WrongOperands(s, {o}) \subseteq Regs
  BY WrongOperandsRegs
<1>3. \A s : \A o, q : o.reg \in Regs /\ q.reg \in Regs => WrongOperands(s, {o, q}) \subseteq Regs
  BY WrongOperandsRegs
<1>4. CASE UNCHANGED vars \/ EndBlock
  BY <1>4 DEF vars, EndBlock
<1>5. ASSUME NEW f \in Forms,
             \/ TranslateImm(f) \/ TranslateUpper(f) \/ TranslateReg(f) \/ TranslateShift(f)
             \/ TranslateDiv(f) \/ TranslateStore(f)
      PROVE  misread' \subseteq Regs
  BY <1>1, <1>2, <1>3, <1>5, FormRegs
  DEF TranslateImm, TranslateUpper, TranslateReg, TranslateShift, TranslateDiv, TranslateStore
<1>6. ASSUME NEW f \in Forms, TranslateMulHigh(f) PROVE misread' \subseteq Regs
  <2>1. \A s : AddedAgain(s, f) \subseteq Regs
    BY FormRegs DEF AddedAgain
  <2>. QED
    BY <1>1, <1>3, <1>6, <2>1, FormRegs DEF TranslateMulHigh
<1>7. ASSUME NEW f \in Forms, TranslateBranch(f) PROVE misread' \subseteq Regs
  <2> DEFINE s1 == getRs(ri, f.rs1)
             s2 == IF f.rs2 = x0 THEN s1 ELSE getRs(s1, f.rs2)
             reads == {Reads(HostOf(s1, f.rs1), f.rs1)} \cup
                      {Reads(HostOf(s2, r), r) : r \in {f.rs2} \ {x0}}
  <2>1. misread' = WrongOperands(s2, reads)
    BY <1>7 DEF TranslateBranch
  <2> HIDE DEF s1, s2
  <2>2. \A o \in reads : o.reg \in Regs
    BY <1>1, FormRegs
  <2> HIDE DEF reads
  <2>. QED
    BY <2>1, <2>2, WrongOperandsRegs
<1>8. ASSUME NEW f \in Forms,
             \/ TranslateAmo(f) \/ TranslateAmoMinMax(f) \/ TranslateFpToInt(f)
             \/ TranslateFpFromWord(f) \/ TranslateFpFromLong(f) \/ TranslateFpClass(f)
             \/ TranslateFpSign(f)
      PROVE  misread' \subseteq Regs
  BY <1>1, <1>2, <1>3, <1>8, FormRegs
  DEF TranslateAmo, TranslateAmoMinMax, TranslateFpToInt, TranslateFpFromWord,
      TranslateFpFromLong, TranslateFpClass, TranslateFpSign
<1>. QED
  BY <1>4, <1>5, <1>6, <1>7, <1>8 DEF Next

\* The allocation keeps its types (register_info of util.h): contents are guest
\* registers or unused, recencies count on, and operands are registers.
THEOREM TypeOKHolds == Spec => []TypeOK
<1>1. Init => Operands
  BY DEF Init, Operands
<1>2. GoodNow /\ Operands => TypeOK
  BY DEF Operands, GoodNow, Good, Alloc, TypeOK
<1>. QED
  BY <1>1, <1>2, NextMisread, GoodAlways, PTL DEF Spec

-----------------------------------------------------------------------------
(***************************************************************************)
(* What the instructions read: no get of an instruction disturbs an operand*)
(* it has taken before, and the register file keeps 0 in x0, for the       *)
(* programs of which that is true.                                         *)
(***************************************************************************)

\* The families that have a destination, and those that ask for a register in
\* a place of its own (loadIntoSpecific).
Destined == {"Imm", "Upper", "Reg", "Shift", "MulHigh", "MulHighSU", "Div",
             "Amo", "AmoMinMax", "FpToInt", "FpClass"}
InPlace == {"Shift", "MulHigh", "MulHighSU", "Div", "AmoMinMax", "FpClass"}

NoResultInX0 == \A f \in Forms : f.family \in Destined => f.rd # x0
NothingInPlace == \A f \in Forms : f.family \notin InPlace

\* The two operands of a multiplication or division are not the same unmapped
\* register, the address of AMOMIN and AMOMAX is in a mapped one, and MULHSU,
\* which reads rs1 from the register file, finds 0 there for x0.
OperandsApart == \A f \in Forms :
    /\ f.family \in {"MulHigh", "MulHighSU", "Div"} => f.rs1 # f.rs2 \/ f.rs1 \in gp_mapped
    /\ f.family = "AmoMinMax" => f.rs1 \in gp_mapped
    /\ f.family = "MulHighSU" => f.rs1 # x0 \/ NoResultInX0

\* The register file has 0 for x0, and so has every register marked with it.
Zero(s) == s.file[x0] = x0
Clean(s) == \A h \in Replace : s.content[h] = x0 => s.host[h] = x0

\* h was taken last.
Newest(s, h) == \A g \in Replace \ {h} : s.recency[g] < s.recency[h]

\* An instruction that reads q in host register h finds it there.
Carries(s, q, h) == /\ h \in Hosts /\ s.host[h] = q
                    /\ h \in Replace => s.content[h] = q

LEMMA NewestNotOldest ==
    ASSUME NEW s \in Alloc, NEW h \in Replace, Newest(s, h)
    PROVE  OldestReg(s) # h
<1>1. \A g \in Replace : s.recency[OldestReg(s)] <= s.recency[g]
  BY OldestIs
<1>2. s.recency \in [Replace -> Nat] /\ \E g \in Replace : g # h
  BY ReplaceNames DEF Alloc
<1>. QED
  BY <1>1, <1>2 DEF Newest

LEMMA NothingMisread ==
    ASSUME NEW s, NEW reads, \A o \in reads : s.host[o.host] = o.reg
    PROVE  WrongOperands(s, reads) = {}
BY DEF WrongOperands

-----------------------------------------------------------------------------
(* What a get leaves alone. *)

\* Of the host registers only the one that is taken changes.  A register that
\* is only written keeps what it has, but x0 found in a register is zeroed.
LEMMA LoadFrame ==
    ASSUME NEW s, NEW d, NEW r \in Regs \ gp_mapped, NEW v \in BOOLEAN, Good(s, d)
    PROVE  LET t == loadIntoReplacement(s, r, v) IN
           \E h \in Replace :
              /\ t \in Alloc /\ Taken(s, t, h, r)
              /\ \A g \in Hosts \ {h} : t.host[g] = s.host[g]
              /\ t.file[x0] = s.file[x0]
              /\ s.content[OldestReg(s)] = INVALID_REG => t.file = s.file
              /\ \/ /\ s.content[h] = r
                    /\ t.host[h] = IF r = x0 THEN x0 ELSE s.host[h]
                 \/ /\ h = OldestReg(s) /\ \A g \in Replace : s.content[g] # r
                    /\ ~v => t.host[h] = s.host[h]
                    /\ v /\ r = x0 => t.host[h] = x0
<1> DEFINE t1 == Tick(s)
           t == loadIntoReplacement(s, r, v)
<1>1. s \in Alloc
  BY DEF Good
<1>2. /\ t1 \in Alloc /\ t1.now = s.now + 1 /\ t1.content = s.content
      /\ t1.recency = s.recency /\ t1.host = s.host /\ t1.file = s.file
  BY <1>1, TickFields
<1>3. CASE Holding(s, r) # {}
  <2> DEFINE h == PresentIn(s, r)
             n == Note(t1, h, r)
  <2>1. h \in Replace /\ s.content[h] = r /\ h \in Hosts
    BY <1>1, <1>3, PresentIs, Mapped
  <2>2. t = ZeroIfX0(n, h, r)
    BY <1>3 DEF loadIntoReplacement
  <2> HIDE DEF h, t1
  <2>3. n \in Alloc /\ Taken(s, n, h, r) /\ n.host = s.host /\ n.file = s.file
    BY <1>2, <2>1, NoteFields DEF Taken
  <2> HIDE DEF n, t
  <2>4. /\ t \in Alloc /\ Taken(s, t, h, r) /\ t.file = s.file
        /\ t.host = IF r = x0 THEN [s.host EXCEPT ![h] = x0] ELSE s.host
    BY <2>1, <2>2, <2>3, FillFields, Mapped DEF ZeroIfX0, Taken
  <2>5. /\ \A g \in Hosts \ {h} : t.host[g] = s.host[g]
        /\ t.host[h] = IF r = x0 THEN x0 ELSE s.host[h]
    BY <1>1, <2>1, <2>4 DEF Alloc
  <2>. QED
    BY <2>1, <2>4, <2>5 DEF t
<1>4. CASE Holding(s, r) = {}
  <2> DEFINE h == OldestReg(s)
             w == IF s.content[h] \in {x0, INVALID_REG} THEN t1
                  ELSE WriteBack(t1, h, s.content[h])
             n == Note(w, h, r)
  <2>1. h \in Replace /\ h \in Hosts
    BY <1>1, OldestIs, Mapped
  <2>2. \A g \in Replace : s.content[g] # r
    BY <1>4 DEF Holding
  <2>3. t = IF v THEN Fill(n, h, r) ELSE n
    BY <1>4 DEF loadIntoReplacement, FillIf
  <2>4. /\ w \in Alloc
        /\ w.content = s.content /\ w.recency = s.recency /\ w.now = s.now + 1 /\ w.host = s.host
        /\ w.file[x0] = s.file[x0]
        /\ s.content[h] = INVALID_REG => w.file = s.file
    <3>1. CASE s.content[h] \in {x0, INVALID_REG}
      BY <1>2, <3>1
    <3>2. CASE s.content[h] \notin {x0, INVALID_REG}
      <4>1. s.content[h] \in Regs /\ w = WriteBack(t1, h, s.content[h])
        BY <1>1, <2>1, <3>2 DEF Alloc
      <4> HIDE DEF w, t1, h
      <4>2. w.file = [s.file EXCEPT ![s.content[h]] = s.host[h]]
        BY <1>2, <2>1, <4>1, WriteBackFields
      <4>3. w.file[x0] = s.file[x0]
        BY <1>1, <3>2, <4>2, Mapped DEF Alloc
      <4>. QED
        BY <1>2, <2>1, <3>2, <4>1, <4>3, WriteBackFields
    <3>. QED
      BY <3>1, <3>2
  <2> HIDE DEF w, h, t1
  <2>5. n \in Alloc /\ Taken(s, n, h, r) /\ n.host = s.host /\ n.file = w.file
    BY <2>1, <2>4, NoteFields DEF Taken
  <2> HIDE DEF n, t
  <2>6. /\ t \in Alloc /\ Taken(s, t, h, r) /\ t.file = w.file
        /\ t.host = IF v THEN [s.host EXCEPT ![h] = IF r = x0 THEN x0 ELSE w.file[r]] ELSE s.host
    BY <2>1, <2>3, <2>5, FillFields DEF Taken
  <2>7. /\ \A g \in Hosts \ {h} : t.host[g] = s.host[g]
        /\ ~v => t.host[h] = s.host[h]
        /\ v /\ r = x0 => t.host[h] = x0
    BY <1>1, <2>1, <2>6 DEF Alloc
  <2>. QED
    BY <2>1, <2>2, <2>4, <2>6, <2>7 DEF t, h
<1>. QED
  BY <1>3, <1>4

LEMMA GetFrame ==
    ASSUME NEW s, NEW d, NEW r \in Regs, NEW v \in BOOLEAN, Good(s, d)
    PROVE  LET t == get(s, r, v) IN
           /\ t.file[x0] = s.file[x0]
           /\ s.content[OldestReg(s)] = INVALID_REG => t.file = s.file
           /\ \A g \in Hosts \ Replace : t.host[g] = s.host[g]
           /\ \A g \in Replace :
                 \/ /\ t.content[g] = s.content[g]
                    /\ t.host[g] = IF r = x0 /\ s.content[g] = x0 THEN x0 ELSE s.host[g]
                 \/ /\ g = OldestReg(s) /\ t.content[g] = r
                    /\ ~v => t.host[g] = s.host[g]
                    /\ v /\ r = x0 => t.host[g] = x0
           /\ r \notin gp_mapped => \E h \in Replace : t.content[h] = r /\ Newest(t, h)
<1> DEFINE t == get(s, r, v)
<1>1. CASE r \in gp_mapped
  <2>1. t = s /\ r # x0
    BY <1>1, Mapped DEF get
  <2>. QED
    BY <1>1, <2>1
<1>2. CASE r \notin gp_mapped
  <2>1. t = loadIntoReplacement(s, r, v)
    BY <1>2 DEF get
  <2> HIDE DEF t
  <2>2. PICK h \in Replace :
              /\ t \in Alloc /\ Taken(s, t, h, r)
              /\ \A g \in Hosts \ {h} : t.host[g] = s.host[g]
              /\ t.file[x0] = s.file[x0]
              /\ s.content[OldestReg(s)] = INVALID_REG => t.file = s.file
              /\ \/ /\ s.content[h] = r
                    /\ t.host[h] = IF r = x0 THEN x0 ELSE s.host[h]
                 \/ /\ h = OldestReg(s) /\ \A g \in Replace : s.content[g] # r
                    /\ ~v => t.host[h] = s.host[h]
                    /\ v /\ r = x0 => t.host[h] = x0
    BY <1>2, <2>1, LoadFrame
  <2>3. s \in Alloc /\ t \in Alloc /\ Marked(s) /\ Unique(s)
    BY <2>2 DEF Good
  <2>4. t.content[h] = r /\ \A g \in Replace \ {h} : t.content[g] = s.content[g]
    BY <2>2, <2>3 DEF Taken, Alloc
  <2>5. Newest(t, h)
    BY <2>2, <2>3, TakenMarked DEF Newest
  <2>6. ASSUME NEW g \in Replace
        PROVE  \/ /\ t.content[g] = s.content[g]
                  /\ t.host[g] = IF r = x0 /\ s.content[g] = x0 THEN x0 ELSE s.host[g]
               \/ /\ g = OldestReg(s) /\ t.content[g] = r
                  /\ ~v => t.host[g] = s.host[g]
                  /\ v /\ r = x0 => t.host[g] = x0
    <3>1. CASE g = h
      BY <2>2, <2>4, <3>1
    <3>2. CASE g # h
      <4>1. t.host[g] = s.host[g] /\ t.content[g] = s.content[g]
        BY <2>2, <2>4, <3>2, Mapped
      <4>2. r = x0 /\ s.content[g] = x0 => s.host[g] = s.host[g] /\ s.content[h] # x0
        BY <1>2, <2>3, <3>2, Mapped DEF Unique
      <4>3. ~(r = x0 /\ s.content[g] = x0)
        BY <2>2, <4>2
      <4>. QED
        BY <4>1, <4>3
    <3>. QED
      BY <3>1, <3>2
  <2>7. \A g \in Hosts \ Replace : t.host[g] = s.host[g]
    BY <2>2
  <2>. QED
    BY <2>2, <2>4, <2>5, <2>6, <2>7 DEF t
<1>. QED
  BY <1>1, <1>2

\* A register asked for in h changes places with what h holds, if another
\* replacement register has it, and nothing else moves.
LEMMA SpecificFrame ==
    ASSUME NEW s, NEW d, NEW r \in Regs \ gp_mapped, NEW h \in Replace, NEW v \in BOOLEAN,
           Good(s, d)
    PROVE  LET t == loadIntoSpecific(s, r, h, v) IN
           /\ t \in Alloc /\ t.content[h] = r /\ Newest(t, h)
           /\ r = x0 => t.host[h] = x0
           /\ \A g \in Hosts \ Replace : t.host[g] = s.host[g]
           /\ \A g \in Replace \ {h} : s.content[g] # r =>
                 t.content[g] = s.content[g] /\ t.host[g] = s.host[g]
           /\ \A g \in Replace \ {h} : s.content[g] = r =>
                 /\ t.content[g] = s.content[h]
                 /\ t.host[g] = IF s.content[h] = INVALID_REG THEN s.host[g] ELSE s.host[h]
           /\ \/ t.file[x0] = s.file[x0]
              \/ s.content[h] = x0 /\ t.file[x0] = s.host[h]
<1> DEFINE t1 == Tick(s)
           t == loadIntoSpecific(s, r, h, v)
<1>1. s \in Alloc /\ h \in Hosts /\ Marked(s) /\ Unique(s)
  BY Mapped DEF Good
<1>2. /\ t1 \in Alloc /\ t1.now = s.now + 1 /\ t1.content = s.content
      /\ t1.recency = s.recency /\ t1.host = s.host /\ t1.file = s.file
  BY <1>1, TickFields
<1>3. CASE Holding(s, r) # {} /\ PresentIn(s, r) = h
  <2> DEFINE n == Note(t1, h, r)
  <2>1. s.content[h] = r
    BY <1>1, <1>3, PresentIs
  <2>2. t = ZeroIfX0(n, h, r)
    BY <1>3 DEF loadIntoSpecific
  <2> HIDE DEF t1
  <2>3. n \in Alloc /\ Taken(s, n, h, r) /\ n.host = s.host /\ n.file = s.file
    BY <1>2, NoteFields DEF Taken
  <2> HIDE DEF n, t
  <2>4. /\ t \in Alloc /\ Taken(s, t, h, r) /\ t.file = s.file
        /\ t.host = IF r = x0 THEN [s.host EXCEPT ![h] = x0] ELSE s.host
    BY <1>1, <2>2, <2>3, FillFields, Mapped DEF ZeroIfX0, Taken
  <2>5. /\ \A g \in Hosts \ {h} : t.host[g] = s.host[g]
        /\ r = x0 => t.host[h] = x0
        /\ t.content = s.content
    BY <1>1, <2>1, <2>4 DEF Alloc, Taken
  <2>6. Newest(t, h)
    BY <1>1, <2>4, TakenMarked DEF Newest
  <2>7. \A g \in Replace \ {h} : s.content[g] # r
    BY <1>1, <2>1 DEF Unique
  <2>. QED
    BY <2>1, <2>4, <2>5, <2>6, <2>7, Mapped DEF t
<1>4. CASE Holding(s, r) # {} /\ PresentIn(s, r) # h
  <2> DEFINE g == PresentIn(s, r)
             n == Shuffle(t1, h, g, v)
  <2>1. g \in Replace /\ g \in Hosts /\ s.content[g] = r /\ g # h
    BY <1>1, <1>4, PresentIs, Mapped
  <2>2. t = ZeroIfX0(n, h, r)
    BY <1>4 DEF loadIntoSpecific
  <2> HIDE DEF g, t1
  <2>3. /\ n \in Alloc
        /\ n.content = [s.content EXCEPT ![h] = r, ![g] = s.content[h]]
        /\ n.recency = [s.recency EXCEPT ![h] = s.now + 1, ![g] = s.recency[h]]
        /\ n.file = s.file
        /\ \A k \in Hosts \ {h, g} : n.host[k] = s.host[k]
        /\ n.host[g] = IF s.recency[h] # 0 THEN s.host[h] ELSE s.host[g]
    BY <1>2, <2>1, ShuffleFields
  <2> HIDE DEF n, t
  <2>4. /\ t \in Alloc /\ t.content = n.content /\ t.recency = n.recency /\ t.file = s.file
        /\ t.host = IF r = x0 THEN [n.host EXCEPT ![h] = x0] ELSE n.host
    BY <1>1, <2>2, <2>3, FillFields, Mapped DEF ZeroIfX0
  <2>5. /\ \A k \in Hosts \ {h} : t.host[k] = n.host[k]
        /\ r = x0 => t.host[h] = x0
    BY <1>1, <2>3, <2>4 DEF Alloc
  <2>6. /\ t.content[h] = r /\ t.content[g] = s.content[h]
        /\ \A k \in Replace \ {h, g} : t.content[k] = s.content[k]
    BY <1>1, <2>1, <2>3, <2>4 DEF Alloc
  <2>7. /\ t.recency[h] = s.now + 1 /\ t.recency[g] = s.recency[h]
        /\ \A k \in Replace \ {h, g} : t.recency[k] = s.recency[k]
    BY <1>1, <2>1, <2>3, <2>4 DEF Alloc
  <2>8. Newest(t, h)
    BY <1>1, <2>1, <2>7 DEF Newest, Marked, Alloc
  <2>9. \A k \in Replace \ {g} : s.content[k] # r
    BY <1>1, <2>1 DEF Unique
  <2>10. t.host[g] = IF s.content[h] = INVALID_REG THEN s.host[g] ELSE s.host[h]
    BY <1>1, <2>1, <2>3, <2>5 DEF Marked
  <2>11. \A k \in Hosts \ {h, g} : t.host[k] = s.host[k]
    BY <2>3, <2>5
  <2>. QED
    BY <2>1, <2>4, <2>5, <2>6, <2>8, <2>9, <2>10, <2>11, Mapped DEF t
<1>5. CASE Holding(s, r) = {}
  <2> DEFINE w == Evict(t1, h)
             u == v \/ r = x0
             n == IF u THEN Fill(w, h, r) ELSE w
  <2>1. \A g \in Replace : s.content[g] # r
    BY <1>5 DEF Holding
  <2>2. t = Note(n, h, r)
    BY <1>5 DEF loadIntoSpecific, FillIf
  <2>3. /\ w \in Alloc
        /\ w.content = s.content /\ w.recency = s.recency /\ w.now = s.now + 1 /\ w.host = s.host
        /\ \/ w.file[x0] = s.file[x0]
           \/ s.content[h] = x0 /\ w.file[x0] = s.host[h]
    <3>1. CASE s.recency[h] = 0
      BY <1>2, <3>1 DEF Evict
    <3>2. CASE s.recency[h] # 0
      <4>1. s.content[h] \in Regs
        BY <1>1, <3>2 DEF Marked, Alloc
      <4>2. w = WriteBack(t1, h, s.content[h])
        BY <1>2, <3>2 DEF Evict
      <4> HIDE DEF w, t1
      <4>3. w.file = [s.file EXCEPT ![s.content[h]] = s.host[h]]
        BY <1>1, <1>2, <4>1, <4>2, WriteBackFields
      <4>4. w.file[x0] = IF s.content[h] = x0 THEN s.host[h] ELSE s.file[x0]
        BY <1>1, <4>1, <4>3, Mapped DEF Alloc
      <4>. QED
        BY <1>1, <1>2, <4>1, <4>2, <4>4, WriteBackFields
    <3>. QED
      BY <3>1, <3>2
  <2> HIDE DEF w, t1, t, u
  <2>4. /\ n \in Alloc /\ n.content = s.content /\ n.recency = s.recency /\ n.now = s.now + 1
        /\ n.file = w.file
        /\ n.host = IF u THEN [s.host EXCEPT ![h] = IF r = x0 THEN x0 ELSE w.file[r]] ELSE s.host
    BY <1>1, <2>3, FillFields
  <2> HIDE DEF n
  <2>5. t \in Alloc /\ Taken(s, t, h, r) /\ t.file = n.file /\ t.host = n.host
    BY <2>2, <2>4, NoteFields DEF Taken
  <2>6. r = x0 => u
    BY DEF u
  <2>7. /\ \A g \in Hosts \ {h} : t.host[g] = s.host[g]
        /\ r = x0 => t.host[h] = x0
    BY <1>1, <2>4, <2>5, <2>6 DEF Alloc
  <2>8. t.content[h] = r /\ \A g \in Replace \ {h} : t.content[g] = s.content[g]
    BY <1>1, <2>5 DEF Taken, Alloc
  <2>9. Newest(t, h)
    BY <1>1, <2>5, TakenMarked DEF Newest
  <2>. QED
    BY <2>1, <2>3, <2>4, <2>5, <2>7, <2>8, <2>9, Mapped DEF t
<1>. QED
  BY <1>3, <1>4, <1>5

\* ... and so does an operand asked for in h, which is then there.
LEMMA IntoFrame ==
    ASSUME NEW s, NEW r \in Regs, NEW h \in Replace, Good(s, x0)
    PROVE  LET t == getRsInto(s, r, h) IN
           /\ Carries(t, r, h) /\ Newest(t, h)
           /\ \A g \in Hosts \ Replace : t.host[g] = s.host[g]
           /\ \A g \in Replace \ {h} : r \in gp_mapped \/ s.content[g] # r =>
                 t.content[g] = s.content[g] /\ t.host[g] = s.host[g]
           /\ Zero(s) /\ Clean(s) => Zero(t) /\ Clean(t)
<1> DEFINE t == getRsInto(s, r, h)
<1>1. s \in Alloc /\ h \in Hosts /\ TRUE \in BOOLEAN
  BY Mapped DEF Good
<1>2. Good(t, x0)
  BY GetIntoGood
<1>3. CASE r \notin gp_mapped
  <2> DEFINE yes == TRUE
  <2>1. t = loadIntoSpecific(s, r, h, yes) /\ yes \in BOOLEAN
    BY <1>3 DEF getRsInto
  <2> HIDE DEF t, yes
  <2>2. /\ t \in Alloc /\ t.content[h] = r /\ Newest(t, h)
        /\ r = x0 => t.host[h] = x0
        /\ \A g \in Hosts \ Replace : t.host[g] = s.host[g]
        /\ \A g \in Replace \ {h} : s.content[g] # r =>
              t.content[g] = s.content[g] /\ t.host[g] = s.host[g]
        /\ \A g \in Replace \ {h} : s.content[g] = r =>
              /\ t.content[g] = s.content[h]
              /\ t.host[g] = IF s.content[h] = INVALID_REG THEN s.host[g] ELSE s.host[h]
        /\ \/ t.file[x0] = s.file[x0]
           \/ s.content[h] = x0 /\ t.file[x0] = s.host[h]
    BY <1>1, <1>3, <2>1, SpecificFrame
  <2>3. t.host[h] = r
    BY <1>2, <1>3, <2>2 DEF Good, Kept
  <2>4. Zero(s) /\ Clean(s) => Zero(t)
    BY <2>2 DEF Zero, Clean
  <2>5. Clean(s) => Clean(t)
    BY <2>2, Mapped DEF Clean
  <2>. QED
    BY <1>1, <1>3, <2>2, <2>3, <2>4, <2>5 DEF Carries, t
<1>4. CASE r \in gp_mapped
  <2> DEFINE s1 == invalidateReplacement(s, h)
             s2 == Mov(s1, h, gp_map[r])
             s3 == Tick(s2)
  <2>1. t = Note(s3, h, r)
    BY <1>4 DEF getRsInto
  <2>2. gp_map[r] \in Hosts /\ gp_map[r] \notin Replace /\ r # x0
    BY <1>4, Mapped
  <2>3. /\ s1 \in Alloc /\ s1.content = [s.content EXCEPT ![h] = INVALID_REG]
        /\ s1.host = s.host
        /\ s1.file = IF s.content[h] \in {x0, INVALID_REG} THEN s.file
                     ELSE [s.file EXCEPT ![s.content[h]] = s.host[h]]
        /\ Marked(s1)
    BY <1>1, InvalidateFields, InvalidateGood DEF Good
  <2> HIDE DEF s1
  <2>4. /\ s2 \in Alloc /\ s2.host = [s1.host EXCEPT ![h] = s1.host[gp_map[r]]]
        /\ s2.content = s1.content /\ s2.recency = s1.recency /\ s2.now = s1.now
        /\ s2.file = s1.file
    BY <1>1, <2>2, <2>3, MovFields
  <2> HIDE DEF s2
  <2>5. /\ s3 \in Alloc /\ s3.host = s2.host /\ s3.content = s1.content
        /\ s3.recency = s1.recency /\ s3.now = s1.now + 1 /\ s3.file = s1.file
    BY <2>4, TickFields
  <2> HIDE DEF s3, t
  <2>6. t \in Alloc /\ Taken(s1, t, h, r) /\ t.host = s2.host /\ t.file = s1.file
    BY <2>1, <2>5, NoteFields DEF Taken
  <2>7. Newest(t, h)
    BY <2>3, <2>6, TakenMarked DEF Newest
  <2>8. t.content[h] = r /\ \A g \in Replace \ {h} : t.content[g] = s.content[g]
    BY <1>1, <2>3, <2>6 DEF Taken, Alloc
  <2>9. \A g \in Hosts \ {h} : t.host[g] = s.host[g]
    BY <1>1, <2>3, <2>4, <2>6 DEF Alloc
  <2>10. t.host[h] = r
    BY <1>1, <1>4, <2>2, <2>3, <2>4, <2>6 DEF Alloc, Good, Kept
  <2>11. t.file[x0] = s.file[x0]
    BY <1>1, <2>3, <2>6, Mapped DEF Alloc
  <2>12. Clean(s) => Clean(t)
    BY <2>2, <2>8, <2>9, Mapped DEF Clean
  <2>. QED
    BY <1>1, <2>7, <2>8, <2>9, <2>10, <2>11, <2>12, Mapped DEF Carries, Zero, t
<1>. QED
  BY <1>3, <1>4

-----------------------------------------------------------------------------
(* Operands, destinations, and what x0 needs of each. *)

\* The operand is there, in the register taken last if it is not mapped.
LEMMA OperandTaken ==
    ASSUME NEW s, NEW r \in Regs, Good(s, x0)
    PROVE  LET t == getRs(s, r)
               h == HostOf(t, r) IN
           /\ Good(t, x0) /\ Carries(t, r, h) /\ (h \in Replace => Newest(t, h))
           /\ (Zero(s) => Zero(t)) /\ (Clean(s) => Clean(t))
<1> DEFINE yes == TRUE
           t == get(s, r, yes)
           h == HostOf(t, r)
<1>1. getRs(s, r) = t /\ yes \in BOOLEAN
  BY DEF getRs
<1>2. yes
  OBVIOUS
<1> HIDE DEF yes
<1>3. Good(t, x0) /\ HostHolds(t, r, h)
  BY <1>1, <1>2, GetGood
<1> HIDE DEF h
<1>4. \A g \in Replace :
         \/ /\ t.content[g] = s.content[g]
            /\ t.host[g] = IF r = x0 /\ s.content[g] = x0 THEN x0 ELSE s.host[g]
         \/ /\ t.content[g] = r
            /\ yes /\ r = x0 => t.host[g] = x0
  BY <1>1, GetFrame
<1>5. t.file[x0] = s.file[x0]
  BY <1>1, GetFrame
<1>6. r \notin gp_mapped => \E k \in Replace : t.content[k] = r /\ Newest(t, k)
  BY <1>1, GetFrame
<1> HIDE DEF t
<1>7. Carries(t, r, h)
  <2>1. CASE r \in gp_mapped
    BY <1>3, <2>1, Mapped DEF Carries, HostHolds, Good, Kept
  <2>2. CASE r = x0
    BY <1>2, <1>3, <1>4, <2>2, Mapped DEF Carries, HostHolds
  <2>3. CASE r \notin gp_mapped /\ r # x0
    BY <1>3, <2>3, Mapped DEF Carries, HostHolds, Good, Kept
  <2>. QED
    BY <2>1, <2>2, <2>3
<1>8. h \in Replace => Newest(t, h)
  BY <1>3, <1>6, Mapped DEF HostHolds, Good, Unique
<1>9. Zero(s) => Zero(t)
  BY <1>5 DEF Zero
<1>10. Clean(s) => Clean(t)
  BY <1>2, <1>4, Mapped DEF Clean
<1>. QED
  BY <1>1, <1>3, <1>7, <1>8, <1>9, <1>10 DEF h

\* An operand is kept when the next one is taken.
LEMMA KeptByRs ==
    ASSUME NEW s, NEW r \in Regs, NEW q, NEW h, Good(s, x0), Carries(s, q, h),
           h \in Replace => Newest(s, h)
    PROVE  Carries(getRs(s, r), q, h)
<1> DEFINE yes == TRUE
           t == get(s, r, yes)
<1>1. getRs(s, r) = t /\ yes \in BOOLEAN
  BY DEF getRs
<1> HIDE DEF yes
<1>2. /\ \A g \in Hosts \ Replace : t.host[g] = s.host[g]
      /\ \A g \in Replace :
            \/ /\ t.content[g] = s.content[g]
               /\ t.host[g] = IF r = x0 /\ s.content[g] = x0 THEN x0 ELSE s.host[g]
            \/ g = OldestReg(s)
  BY <1>1, GetFrame
<1> HIDE DEF t
<1>3. h \in Replace => OldestReg(s) # h
  BY NewestNotOldest DEF Good
<1>4. Carries(t, q, h)
  BY <1>2, <1>3 DEF Carries
<1>. QED
  BY <1>1, <1>4

\* Taking the destination writes no register but one of x0, which it zeroes.
LEMMA KeptByRd ==
    ASSUME NEW s, NEW r \in Regs, Good(s, x0)
    PROVE  LET t == getRd(s, r) IN
           /\ \A q, h : Carries(s, q, h) => t.host[h] = q
           /\ \A h \in Hosts : (h \in Replace /\ s.content[h] = x0) \/ t.host[h] = s.host[h]
           /\ (Zero(s) => Zero(t)) /\ (r # x0 /\ Clean(s) => Clean(t))
           /\ s.content[OldestReg(s)] = INVALID_REG => t.file = s.file
<1> DEFINE no == FALSE
           t == get(s, r, no)
<1>1. getRd(s, r) = t /\ no \in BOOLEAN /\ ~no
  BY DEF getRd
<1> HIDE DEF no
<1>2. /\ t.file[x0] = s.file[x0]
      /\ s.content[OldestReg(s)] = INVALID_REG => t.file = s.file
      /\ \A g \in Hosts \ Replace : t.host[g] = s.host[g]
      /\ \A g \in Replace :
            \/ /\ t.content[g] = s.content[g]
               /\ t.host[g] = IF r = x0 /\ s.content[g] = x0 THEN x0 ELSE s.host[g]
            \/ /\ g = OldestReg(s) /\ t.content[g] = r
               /\ ~no => t.host[g] = s.host[g]
  BY <1>1, GetFrame
<1> HIDE DEF t
<1>3. \A q, h : Carries(s, q, h) => t.host[h] = q
  BY <1>1, <1>2 DEF Carries
<1>4. Zero(s) => Zero(t)
  BY <1>2 DEF Zero
<1>5. r # x0 /\ Clean(s) => Clean(t)
  BY <1>1, <1>2 DEF Clean
<1>6. \A h \in Hosts : (h \in Replace /\ s.content[h] = x0) \/ t.host[h] = s.host[h]
  BY <1>1, <1>2
<1>. QED
  BY <1>1, <1>2, <1>3, <1>4, <1>5, <1>6

\* A register asked for in a place of its own may send one of x0 back to the file.
LEMMA SpecificClean ==
    ASSUME NEW s, NEW d, NEW r \in Regs \ gp_mapped, NEW h \in Replace, NEW v \in BOOLEAN,
           Good(s, d), Zero(s), Clean(s)
    PROVE  Zero(loadIntoSpecific(s, r, h, v)) /\ Clean(loadIntoSpecific(s, r, h, v))
<1> DEFINE t == loadIntoSpecific(s, r, h, v)
<1>1. /\ t.content[h] = r
      /\ r = x0 => t.host[h] = x0
      /\ \A g \in Replace \ {h} : s.content[g] # r =>
            t.content[g] = s.content[g] /\ t.host[g] = s.host[g]
      /\ \A g \in Replace \ {h} : s.content[g] = r =>
            /\ t.content[g] = s.content[h]
            /\ t.host[g] = IF s.content[h] = INVALID_REG THEN s.host[g] ELSE s.host[h]
      /\ \/ t.file[x0] = s.file[x0]
         \/ s.content[h] = x0 /\ t.file[x0] = s.host[h]
  BY SpecificFrame
<1> HIDE DEF t
<1>2. Zero(t) /\ Clean(t)
  BY <1>1, Mapped DEF Zero, Clean
<1>. QED
  BY <1>2 DEF t

LEMMA InvalidateKeeps ==
    ASSUME NEW s \in Alloc, NEW h \in Replace
    PROVE  LET t == invalidateReplacement(s, h) IN
           /\ t \in Alloc /\ t.host = s.host
           /\ (Zero(s) => Zero(t)) /\ (Clean(s) => Clean(t))
<1> DEFINE t == invalidateReplacement(s, h)
<1>1. /\ t \in Alloc /\ t.content = [s.content EXCEPT ![h] = INVALID_REG] /\ t.host = s.host
      /\ t.file = IF s.content[h] \in {x0, INVALID_REG} THEN s.file
                  ELSE [s.file EXCEPT ![s.content[h]] = s.host[h]]
  BY InvalidateFields
<1> HIDE DEF t
<1>2. t.file[x0] = s.file[x0]
  BY <1>1, Mapped DEF Alloc
<1>3. Clean(s) => Clean(t)
  BY <1>1, Mapped DEF Clean, Alloc
<1>4. Zero(s) => Zero(t)
  BY <1>2 DEF Zero
<1>. QED
  BY <1>1, <1>3, <1>4 DEF t

\* The result is nobody's value in x0's register.
LEMMA AssignKeeps ==
    ASSUME NEW s, NEW rd \in Regs, NEW h, Good(s, rd), HostHolds(s, rd, h)
    PROVE  LET t == Assign(s, h, rd) IN
           (Zero(s) => Zero(t)) /\ (rd # x0 /\ Clean(s) => Clean(t))
<1> DEFINE t == Assign(s, h, rd)
<1>1. /\ t.content = s.content
      /\ \A g \in Hosts : t.host[g] = IF g # h THEN IF s.host[g] = rd /\ rd # x0 THEN Stale
                                                    ELSE s.host[g]
                                      ELSE IF rd # x0 THEN rd ELSE Stale
      /\ \A r \in Regs : t.file[r] = IF s.file[r] = rd /\ rd # x0 THEN Stale ELSE s.file[r]
  BY AssignFields DEF Good
<1> HIDE DEF t
<1>2. Zero(s) => Zero(t)
  BY <1>1, Mapped DEF Zero
<1>3. rd # x0 /\ Clean(s) => Clean(t)
  BY <1>1, Mapped DEF Clean, HostHolds
<1>. QED
  BY <1>2, <1>3 DEF t

LEMMA ScratchKeeps ==
    ASSUME NEW s \in Alloc, NEW hs
    PROVE  LET t == Scratch(s, hs) IN
           /\ (Zero(s) => Zero(t))
           /\ (\A h \in hs : s.content[h] # x0) /\ Clean(s) => Clean(t)
<1> DEFINE t == Scratch(s, hs)
<1>1. /\ t.host = [h \in Hosts |-> IF h \in hs THEN Stale ELSE s.host[h]]
      /\ t.content = s.content /\ t.file = s.file
  BY ScratchFields
<1> HIDE DEF t
<1>2. (\A h \in hs : s.content[h] # x0) /\ Clean(s) => Clean(t)
  BY <1>1, Mapped DEF Clean
<1>3. Zero(s) => Zero(t)
  BY <1>1 DEF Zero
<1>. QED
  BY <1>2, <1>3 DEF t

\* After the operands, the destination is taken and assigned.
LEMMA ResultKeeps ==
    ASSUME NEW s, NEW rd \in Regs, Good(s, x0)
    PROVE  LET t == Assign(getRd(s, rd), HostOf(getRd(s, rd), rd), rd) IN
           (Zero(s) => Zero(t)) /\ (rd # x0 /\ Clean(s) => Clean(t))
<1> DEFINE u == getRd(s, rd)
           h == HostOf(u, rd)
<1>1. Good(u, rd) /\ HostHolds(u, rd, h)
  BY GetRdGood
<1>2. (Zero(s) => Zero(u)) /\ (rd # x0 /\ Clean(s) => Clean(u))
  BY KeptByRd
<1> HIDE DEF u, h
<1>3. (Zero(u) => Zero(Assign(u, h, rd))) /\ (rd # x0 /\ Clean(u) => Clean(Assign(u, h, rd)))
  BY <1>1, AssignKeeps
<1>. QED
  BY <1>2, <1>3 DEF u, h

-----------------------------------------------------------------------------
(* The instructions that take registers wherever they are. *)

LEMMA ReadsRight ==
    ASSUME NEW s, NEW h, NEW g, NEW r, NEW q, s.host[h] = r, s.host[g] = q
    PROVE  /\ WrongOperands(s, {Reads(h, r)}) = {}
           /\ WrongOperands(s, {Reads(h, r), Reads(g, q)}) = {}
BY NothingMisread DEF Reads

LEMMA TwoOperands ==
    ASSUME NEW s, NEW r \in Regs, NEW q \in Regs, Good(s, x0)
    PROVE  LET s1 == getRs(s, r)
               s2 == getRs(s1, q) IN
           /\ Good(s1, x0) /\ Good(s2, x0)
           /\ Carries(s2, r, HostOf(s1, r)) /\ Carries(s2, q, HostOf(s2, q))
           /\ (Zero(s) => Zero(s2)) /\ (Clean(s) => Clean(s2))
<1> DEFINE s1 == getRs(s, r)
           h1 == HostOf(s1, r)
           s2 == getRs(s1, q)
<1>1. /\ Good(s1, x0) /\ Carries(s1, r, h1) /\ (h1 \in Replace => Newest(s1, h1))
      /\ (Zero(s) => Zero(s1)) /\ (Clean(s) => Clean(s1))
  BY OperandTaken
<1> HIDE DEF s1, h1
<1>2. /\ Good(s2, x0) /\ Carries(s2, q, HostOf(s2, q))
      /\ (Zero(s1) => Zero(s2)) /\ (Clean(s1) => Clean(s2))
  BY <1>1, OperandTaken
<1>3. Carries(s2, r, h1)
  BY <1>1, KeptByRs
<1> HIDE DEF s2
<1>. QED
  BY <1>1, <1>2, <1>3 DEF s1, h1, s2

\* What an instruction has to do: read nothing wrong, and leave x0 zero in the
\* file, and in the registers unless the result goes there.
Right(f) == /\ misread' = {}
            /\ Zero(ri) => Zero(ri')
            /\ f.rd # x0 /\ Clean(ri) => Clean(ri')

LEMMA ImmRight ==
    ASSUME GoodNow, NEW f \in Forms, TranslateImm(f) \/ TranslateUpper(f)
    PROVE  Right(f)
<1> DEFINE s1 == getRs(ri, f.rs1)
           h1 == HostOf(s1, f.rs1)
<1>1. f.rs1 \in Regs /\ f.rd \in Regs
  BY FormRegs
<1>2. CASE TranslateUpper(f)
  <2>1. ri' = Assign(getRd(ri, f.rd), HostOf(getRd(ri, f.rd), f.rd), f.rd) /\ misread' = {}
    BY <1>2 DEF TranslateUpper
  <2>. QED
    BY <1>1, <2>1, ResultKeeps DEF GoodNow, Right
<1>3. CASE TranslateImm(f)
  <2> DEFINE s2 == getRd(s1, f.rd)
  <2>1. /\ ri' = Assign(getRd(s1, f.rd), HostOf(getRd(s1, f.rd), f.rd), f.rd)
        /\ misread' = WrongOperands(s2, {Reads(h1, f.rs1)})
    BY <1>3 DEF TranslateImm
  <2>2. /\ Good(s1, x0) /\ Carries(s1, f.rs1, h1)
        /\ (Zero(ri) => Zero(s1)) /\ (Clean(ri) => Clean(s1))
    BY <1>1, OperandTaken DEF GoodNow
  <2> HIDE DEF s1, h1
  <2>3. s2.host[h1] = f.rs1
    BY <1>1, <2>2, KeptByRd
  <2>4. misread' = {}
    BY <2>1, <2>3, ReadsRight
  <2> HIDE DEF s2
  <2>5. (Zero(s1) => Zero(ri')) /\ (f.rd # x0 /\ Clean(s1) => Clean(ri'))
    BY <1>1, <2>1, <2>2, ResultKeeps
  <2>. QED
    BY <2>2, <2>4, <2>5 DEF Right
<1>. QED
  BY <1>2, <1>3

LEMMA RegRight ==
    ASSUME GoodNow, NEW f \in Forms, TranslateReg(f) \/ TranslateAmo(f)
    PROVE  Right(f)
<1> DEFINE s1 == getRs(ri, f.rs1)
           s2 == getRs(s1, f.rs2)
           s3 == getRd(s2, f.rd)
           h1 == HostOf(s1, f.rs1)
           h2 == HostOf(s2, f.rs2)
           t  == Assign(getRd(s2, f.rd), HostOf(getRd(s2, f.rd), f.rd), f.rd)
<1>1. f.rs1 \in Regs /\ f.rs2 \in Regs /\ f.rd \in Regs
  BY FormRegs
<1>2. /\ ri' = IF TranslateReg(f) \/ f.rd # x0 THEN t ELSE s3
      /\ misread' = WrongOperands(s3, {Reads(h1, f.rs1), Reads(h2, f.rs2)})
  <2>1. CASE TranslateReg(f)
    BY <2>1 DEF TranslateReg
  <2>2. CASE ~TranslateReg(f)
    BY <2>2 DEF TranslateAmo
  <2>. QED
    BY <2>1, <2>2
<1>3. /\ Good(s2, x0) /\ Carries(s2, f.rs1, h1) /\ Carries(s2, f.rs2, h2)
      /\ (Zero(ri) => Zero(s2)) /\ (Clean(ri) => Clean(s2))
  BY <1>1, TwoOperands DEF GoodNow
<1> HIDE DEF s1, s2, h1, h2
<1>4. /\ s3.host[h1] = f.rs1 /\ s3.host[h2] = f.rs2
      /\ (Zero(s2) => Zero(s3)) /\ (f.rd # x0 /\ Clean(s2) => Clean(s3))
  BY <1>1, <1>3, KeptByRd
<1>5. (Zero(s2) => Zero(t)) /\ (f.rd # x0 /\ Clean(s2) => Clean(t))
  BY <1>1, <1>3, ResultKeeps
<1> HIDE DEF s3, t
<1>6. misread' = {}
  BY <1>2, <1>4, ReadsRight
<1>. QED
  BY <1>2, <1>3, <1>4, <1>5, <1>6 DEF Right

LEMMA AllKeep ==
    ASSUME NEW s \in Alloc
    PROVE  LET t == invalidateAllReplacements(s) IN
           t \in Alloc /\ t.host = s.host /\ (Zero(s) => Zero(t)) /\ (Clean(s) => Clean(t))
<1> DEFINE u == invalidateReplacement(s, FIRST_REG)
           w == invalidateReplacement(u, SECOND_REG)
           t == invalidateReplacement(w, THIRD_REG)
<1>1. FIRST_REG \in Replace /\ SECOND_REG \in Replace /\ THIRD_REG \in Replace
  BY ReplaceNames
<1>2. invalidateAllReplacements(s) = t
  BY DEF invalidateAllReplacements
<1>3. u \in Alloc /\ u.host = s.host /\ (Zero(s) => Zero(u)) /\ (Clean(s) => Clean(u))
  BY <1>1, InvalidateKeeps
<1> HIDE DEF u
<1>4. w \in Alloc /\ w.host = u.host /\ (Zero(u) => Zero(w)) /\ (Clean(u) => Clean(w))
  BY <1>1, <1>3, InvalidateKeeps
<1> HIDE DEF w
<1>5. t \in Alloc /\ t.host = w.host /\ (Zero(w) => Zero(t)) /\ (Clean(w) => Clean(t))
  BY <1>1, <1>4, InvalidateKeeps
<1> HIDE DEF t
<1>. QED
  BY <1>2, <1>3, <1>4, <1>5

LEMMA StoreRight ==
    ASSUME GoodNow, NEW f \in Forms, TranslateStore(f)
    PROVE  misread' = {} /\ (Zero(ri) => Zero(ri')) /\ (Clean(ri) => Clean(ri'))
<1> DEFINE s1 == getRs(ri, f.rs1)
           s2 == getRs(s1, f.rs2)
           h1 == HostOf(s1, f.rs1)
           h2 == HostOf(s2, f.rs2)
<1>1. f.rs1 \in Regs /\ f.rs2 \in Regs
  BY FormRegs
<1>2. ri' = s2 /\ misread' = WrongOperands(s2, {Reads(h1, f.rs1), Reads(h2, f.rs2)})
  BY DEF TranslateStore
<1>3. /\ Good(s2, x0) /\ Carries(s2, f.rs1, h1) /\ Carries(s2, f.rs2, h2)
      /\ (Zero(ri) => Zero(s2)) /\ (Clean(ri) => Clean(s2))
  BY <1>1, TwoOperands DEF GoodNow
<1> HIDE DEF s1, s2, h1, h2
<1>4. misread' = {}
  BY <1>2, <1>3, ReadsRight DEF Carries
<1>. QED
  BY <1>2, <1>3, <1>4

LEMMA BranchRight ==
    ASSUME GoodNow, NEW f \in Forms, TranslateBranch(f)
    PROVE  misread' = {} /\ (Zero(ri) => Zero(ri')) /\ (Clean(ri) => Clean(ri'))
<1> DEFINE s1 == getRs(ri, f.rs1)
           s2 == IF f.rs2 = x0 THEN s1 ELSE getRs(s1, f.rs2)
           h1 == HostOf(s1, f.rs1)
           reads == {Reads(h1, f.rs1)} \cup {Reads(HostOf(s2, r), r) : r \in {f.rs2} \ {x0}}
<1>1. f.rs1 \in Regs /\ f.rs2 \in Regs
  BY FormRegs
<1>2. ri' = invalidateAllReplacements(s2) /\ misread' = WrongOperands(s2, reads)
  BY DEF TranslateBranch
<1>3. /\ Good(s2, x0) /\ Carries(s2, f.rs1, h1)
      /\ f.rs2 # x0 => Carries(s2, f.rs2, HostOf(s2, f.rs2))
      /\ (Zero(ri) => Zero(s2)) /\ (Clean(ri) => Clean(s2))
  <2>1. CASE f.rs2 = x0
    BY <1>1, <2>1, OperandTaken DEF GoodNow
  <2>2. CASE f.rs2 # x0
    <3>1. s2 = getRs(s1, f.rs2)
      BY <2>2
    <3>. QED
      BY <1>1, <3>1, TwoOperands DEF GoodNow
  <2>. QED
    BY <2>1, <2>2
<1> HIDE DEF s1, s2, h1
<1>4. \A o \in reads : s2.host[o.host] = o.reg
  BY <1>3 DEF Carries, Reads
<1> HIDE DEF reads
<1>5. misread' = {}
  BY <1>2, <1>4, NothingMisread
<1>6. (Zero(s2) => Zero(ri')) /\ (Clean(s2) => Clean(ri'))
  BY <1>2, <1>3, AllKeep DEF Good
<1>. QED
  BY <1>3, <1>5, <1>6

LEMMA OldestKeeps ==
    ASSUME NEW s \in Alloc
    PROVE  LET t == invalidateOldest(s) IN
           t.host = s.host /\ (Zero(s) => Zero(t)) /\ (Clean(s) => Clean(t))
BY OldestIs, InvalidateKeeps DEF invalidateOldest

\* Working in free registers and assigning the result.
LEMMA ScratchResultKeeps ==
    ASSUME NEW s, NEW rd \in Regs, NEW h, NEW hs \in SUBSET Replace,
           Good(s, rd), HostHolds(s, rd, h),
           \A g \in hs : s.content[g] \in {INVALID_REG, rd}
    PROVE  LET t == Assign(Scratch(s, hs), h, rd) IN
           (Zero(s) => Zero(t)) /\ (rd # x0 /\ Clean(s) => Clean(t))
<1> DEFINE u == Scratch(s, hs)
<1>1. Good(u, rd) /\ u.content = s.content
  BY ScratchGood
<1>2. (Zero(s) => Zero(u)) /\ (rd # x0 /\ Clean(s) => Clean(u))
  BY ScratchKeeps, Mapped DEF Good
<1> HIDE DEF u
<1>3. HostHolds(u, rd, h)
  BY <1>1 DEF HostHolds
<1>4. (Zero(u) => Zero(Assign(u, h, rd))) /\ (rd # x0 /\ Clean(u) => Clean(Assign(u, h, rd)))
  BY <1>1, <1>3, AssignKeeps
<1>. QED
  BY <1>2, <1>4 DEF u

LEMMA FpToIntRight ==
    ASSUME GoodNow, NEW f \in Forms, TranslateFpToInt(f)
    PROVE  Right(f)
<1> DEFINE s1 == getRd(ri, f.rd)
           h  == HostOf(s1, f.rd)
           o  == OldestReg(s1)
           s2 == invalidateOldest(s1)
           hs == {o}
<1>1. f.rd \in Regs
  BY FormRegs
<1>2. ri' = Assign(Scratch(s2, hs), h, f.rd) /\ misread' = {}
  BY DEF TranslateFpToInt
<1>3. /\ o \in Replace /\ s1 \in Alloc
      /\ Good(s2, f.rd) /\ HostHolds(s2, f.rd, h) /\ s2.content[o] = INVALID_REG
  BY <1>1, ResultNotOldest DEF GoodNow
<1>4. (Zero(ri) => Zero(s1)) /\ (f.rd # x0 /\ Clean(ri) => Clean(s1))
  BY <1>1, KeptByRd DEF GoodNow
<1> HIDE DEF s1, h, o
<1>5. (Zero(s1) => Zero(s2)) /\ (Clean(s1) => Clean(s2))
  BY <1>3, OldestKeeps
<1> HIDE DEF s2
<1>6. hs \in SUBSET Replace /\ \A g \in hs : s2.content[g] \in {INVALID_REG, f.rd}
  BY <1>3
<1> HIDE DEF hs
<1>7. (Zero(s2) => Zero(ri')) /\ (f.rd # x0 /\ Clean(s2) => Clean(ri'))
  BY <1>1, <1>2, <1>3, <1>6, ScratchResultKeeps
<1>. QED
  BY <1>2, <1>4, <1>5, <1>7 DEF Right

LEMMA FpFromWordRight ==
    ASSUME GoodNow, NEW f \in Forms, TranslateFpFromWord(f)
    PROVE  misread' = {} /\ (Zero(ri) => Zero(ri')) /\ (Clean(ri) => Clean(ri'))
<1> DEFINE s1 == getRs(ri, f.rs1)
           h  == HostOf(s1, f.rs1)
           o  == OldestReg(s1)
           s2 == invalidateOldest(s1)
<1>1. ri' = Scratch(s2, {o}) /\ misread' = WrongOperands(s2, {Reads(h, f.rs1)})
  BY DEF TranslateFpFromWord
<1>2. /\ Good(s1, x0) /\ Carries(s1, f.rs1, h)
      /\ (Zero(ri) => Zero(s1)) /\ (Clean(ri) => Clean(s1))
  BY FormRegs, OperandTaken DEF GoodNow
<1> HIDE DEF s1, h
<1>3. /\ s2.host = s1.host /\ (Zero(s1) => Zero(s2)) /\ (Clean(s1) => Clean(s2))
      /\ Good(s2, x0) /\ s2.content[o] = INVALID_REG
  BY <1>2, OldestKeeps, OldestGood DEF Good
<1> HIDE DEF s2, o
<1>4. misread' = {}
  BY <1>1, <1>2, <1>3, ReadsRight DEF Carries
<1>5. (Zero(s2) => Zero(ri')) /\ (Clean(s2) => Clean(ri'))
  BY <1>1, <1>3, ScratchKeeps, Mapped DEF Good
<1>. QED
  BY <1>2, <1>3, <1>4, <1>5

\* Two registers are given back and worked in.
LEMMA TwoScratchKeep ==
    ASSUME NEW s, NEW d, NEW h \in Replace, NEW g \in Replace, h # g, Good(s, d)
    PROVE  LET t == invalidateReplacement(invalidateReplacement(s, h), g) IN
           /\ t.host = s.host
           /\ (Zero(s) => Zero(t)) /\ (Clean(s) => Clean(t))
           /\ (Zero(s) => Zero(Scratch(t, {h, g}))) /\ (Clean(s) => Clean(Scratch(t, {h, g})))
<1> DEFINE u == invalidateReplacement(s, h)
           t == invalidateReplacement(u, g)
<1>1. u \in Alloc /\ u.host = s.host /\ (Zero(s) => Zero(u)) /\ (Clean(s) => Clean(u))
  BY InvalidateKeeps DEF Good
<1>2. t.content[h] = INVALID_REG /\ t.content[g] = INVALID_REG
  BY InvalidateTwo
<1> HIDE DEF u
<1>3. t \in Alloc /\ t.host = u.host /\ (Zero(u) => Zero(t)) /\ (Clean(u) => Clean(t))
  BY <1>1, InvalidateKeeps
<1> HIDE DEF t
<1>4. (Zero(t) => Zero(Scratch(t, {h, g}))) /\ (Clean(t) => Clean(Scratch(t, {h, g})))
  BY <1>2, <1>3, ScratchKeeps, Mapped
<1>. QED
  BY <1>1, <1>3, <1>4 DEF t, u

LEMMA FpFromLongRight ==
    ASSUME GoodNow, NEW f \in Forms, TranslateFpFromLong(f)
    PROVE  misread' = {} /\ (Zero(ri) => Zero(ri')) /\ (Clean(ri) => Clean(ri'))
<1> DEFINE s1 == getRs(ri, f.rs1)
           h  == HostOf(s1, f.rs1)
           s2 == invalidateReplacement(invalidateReplacement(s1, FIRST_REG), SECOND_REG)
<1>1. /\ ri' = Scratch(s2, {FIRST_REG, SECOND_REG})
      /\ misread' = WrongOperands(s1, {Reads(h, f.rs1)})
  BY DEF TranslateFpFromLong
<1>2. /\ Good(s1, x0) /\ Carries(s1, f.rs1, h)
      /\ (Zero(ri) => Zero(s1)) /\ (Clean(ri) => Clean(s1))
  BY FormRegs, OperandTaken DEF GoodNow
<1>3. FIRST_REG \in Replace /\ SECOND_REG \in Replace /\ FIRST_REG # SECOND_REG
  BY ReplaceNames
<1> HIDE DEF s1, h
<1>4. misread' = {}
  BY <1>1, <1>2, ReadsRight DEF Carries
<1>5. (Zero(s1) => Zero(ri')) /\ (Clean(s1) => Clean(ri'))
  BY <1>1, <1>2, <1>3, TwoScratchKeep
<1>. QED
  BY <1>2, <1>4, <1>5

LEMMA AllScratchRight ==
    ASSUME GoodNow, EndBlock \/ \E f \in Forms : TranslateFpSign(f)
    PROVE  misread' = {} /\ (Zero(ri) => Zero(ri')) /\ (Clean(ri) => Clean(ri'))
<1> DEFINE s == invalidateAllReplacements(ri)
<1>1. ri' = Scratch(s, Replace) /\ misread' = {}
  BY DEF EndBlock, TranslateFpSign
<1>2. Good(s, x0) /\ \A h \in Replace : s.content[h] = INVALID_REG
  BY InvalidateAllGood DEF GoodNow
<1>3. (Zero(ri) => Zero(s)) /\ (Clean(ri) => Clean(s))
  BY AllKeep DEF GoodNow, Good
<1> HIDE DEF s
<1>4. (Zero(s) => Zero(ri')) /\ (Clean(s) => Clean(ri'))
  BY <1>1, <1>2, ScratchKeeps, Mapped DEF Good
<1>. QED
  BY <1>1, <1>3, <1>4

-----------------------------------------------------------------------------
(* The instructions that ask for a register in a place of its own. *)

\* What x0 needs of them: they may send a register of x0 back to the file.
ZeroStays(f) == f.rd # x0 /\ Zero(ri) /\ Clean(ri) => Zero(ri') /\ Clean(ri')

\* Two operands in places of their own, unless one is wanted in both.
LEMMA IntoTwo ==
    ASSUME NEW s, NEW q \in Regs, NEW r \in Regs, NEW g \in Replace, NEW h \in Replace,
           g # h, Good(s, x0)
    PROVE  LET t == getRsInto(getRsInto(s, q, g), r, h) IN
           /\ Good(t, x0) /\ Carries(t, r, h)
           /\ r # q \/ r \in gp_mapped => Carries(t, q, g)
           /\ Zero(s) /\ Clean(s) => Zero(t) /\ Clean(t)
<1> DEFINE u == getRsInto(s, q, g)
           t == getRsInto(u, r, h)
<1>1. Good(u, x0) /\ Carries(u, q, g) /\ (Zero(s) /\ Clean(s) => Zero(u) /\ Clean(u))
  BY GetIntoGood, IntoFrame
<1> HIDE DEF u
<1>2. /\ Good(t, x0) /\ Carries(t, r, h) /\ (Zero(u) /\ Clean(u) => Zero(t) /\ Clean(t))
      /\ \A k \in Replace \ {h} : r \in gp_mapped \/ u.content[k] # r =>
            t.content[k] = u.content[k] /\ t.host[k] = u.host[k]
  BY <1>1, GetIntoGood, IntoFrame
<1> HIDE DEF t
<1>3. r # q \/ r \in gp_mapped => Carries(t, q, g)
  BY <1>1, <1>2 DEF Carries
<1>. QED
  BY <1>1, <1>2, <1>3 DEF t, u

\* The rest of a multiplication or division, whose operands are in AX and CX.
LEMMA WideTail ==
    ASSUME NEW s, NEW rd \in Regs, NEW q \in Regs, NEW r \in Regs,
           Good(s, x0)
    PROVE  LET t == getRd(invalidateReplacement(invalidateReplacement(s, "DX"), "AX"), rd)
               w == Assign(Scratch(t, {"AX", "DX"}), HostOf(t, rd), rd) IN
           /\ Carries(s, q, "AX") => t.host["AX"] = q
           /\ Carries(s, r, "CX") => t.host["CX"] = r
           /\ Carries(s, r, "CX") /\ q \notin gp_mapped /\ q # r /\ (q = x0 => Zero(s))
                => t.file[q] = q
           /\ rd # x0 /\ Zero(s) /\ Clean(s) => Zero(w) /\ Clean(w)
<1> DEFINE u == invalidateReplacement(invalidateReplacement(s, "DX"), "AX")
           t == getRd(u, rd)
           hs == {"AX", "DX"}
           h == HostOf(t, rd)
<1>1. /\ "DX" \in Replace /\ "AX" \in Replace /\ "CX" \in Replace /\ "DX" # "AX"
      /\ "CX" \notin hs /\ \A k \in Replace : k \in {"AX", "DX", "CX"}
      /\ Replace \subseteq Hosts
  BY ReplaceNames, Mapped
<1>2. /\ Good(u, x0) /\ u.content["DX"] = INVALID_REG /\ u.content["AX"] = INVALID_REG
      /\ \A k \in Replace \ {"DX", "AX"} : u.content[k] = s.content[k]
  BY <1>1, InvalidateTwo
<1>3. u.host = s.host /\ (Zero(s) => Zero(u)) /\ (Clean(s) => Clean(u))
  BY <1>1, TwoScratchKeep
<1> HIDE DEF u
<1>4. /\ \A p, k : Carries(u, p, k) => t.host[k] = p
      /\ \A k \in Hosts : (k \in Replace /\ u.content[k] = x0) \/ t.host[k] = u.host[k]
      /\ (Zero(u) => Zero(t)) /\ (rd # x0 /\ Clean(u) => Clean(t))
      /\ u.content[OldestReg(u)] = INVALID_REG => t.file = u.file
  BY <1>2, KeptByRd
<1>5. /\ Good(t, rd) /\ HostHolds(t, rd, h)
      /\ \A g \in Replace : t.content[g] \in {u.content[g], rd}
  BY <1>2, GetRdGood
<1> HIDE DEF t, h
<1>6. Carries(s, q, "AX") => t.host["AX"] = q
  BY <1>1, <1>2, <1>3, <1>4, Mapped DEF Carries
<1>7. Carries(s, r, "CX") => u.content["CX"] = r /\ t.host["CX"] = r
  <2> SUFFICES ASSUME Carries(s, r, "CX") PROVE u.content["CX"] = r /\ t.host["CX"] = r
    OBVIOUS
  <2>1. u.content["CX"] = s.content["CX"] /\ s.content["CX"] = r /\ s.host["CX"] = r
    BY <1>1, <1>2 DEF Carries
  <2>2. Carries(u, r, "CX")
    BY <1>1, <1>3, <2>1 DEF Carries
  <2>. QED
    BY <1>4, <2>1, <2>2
<1>8. ASSUME Carries(s, r, "CX"), q \notin gp_mapped, q # r, q = x0 => Zero(s)
      PROVE  t.file[q] = q
  <2>1. u.content[OldestReg(u)] = INVALID_REG
    <3>1. u \in Alloc /\ Marked(u)
      BY <1>2 DEF Good
    <3>2. u.recency["AX"] = 0 /\ OldestReg(u) \in Replace
          /\ u.recency[OldestReg(u)] <= u.recency["AX"]
      BY <1>1, <1>2, <3>1, OldestIs DEF Marked
    <3>3. u.recency[OldestReg(u)] = 0
      BY <3>1, <3>2 DEF Alloc
    <3>. QED
      BY <3>1, <3>2, <3>3 DEF Marked
  <2>2. q # x0 => u.file[q] = q
    <3>1. \A k \in Replace : u.content[k] # q
      BY <1>1, <1>2, <1>7, <1>8, Mapped
    <3>. QED
      BY <1>2, <1>8, <3>1 DEF Good, Kept
  <2>3. q = x0 => u.file[q] = q
    BY <1>3, <1>8 DEF Zero
  <2>. QED
    BY <1>4, <2>1, <2>2, <2>3
<1>9. hs \in SUBSET Replace /\ \A g \in hs : t.content[g] \in {INVALID_REG, rd}
  BY <1>1, <1>2, <1>5
<1> HIDE DEF hs
<1>10. (Zero(t) => Zero(Assign(Scratch(t, hs), h, rd)))
       /\ (rd # x0 /\ Clean(t) => Clean(Assign(Scratch(t, hs), h, rd)))
  BY <1>5, <1>9, ScratchResultKeeps
<1>. QED
  BY <1>3, <1>4, <1>6, <1>7, <1>8, <1>10 DEF t, u, hs, h

LEMMA WideRight ==
    ASSUME GoodNow, NEW f \in Forms, TranslateMulHigh(f) \/ TranslateDiv(f)
    PROVE  /\ OperandsApart /\ (NoResultInX0 => Zero(ri) /\ Clean(ri)) => misread' = {}
           /\ ZeroStays(f)
<1>1. f.rs1 \in Regs /\ f.rs2 \in Regs /\ f.rd \in Regs
  BY FormRegs
<1>2. "AX" \in Replace /\ "CX" \in Replace /\ "AX" # "CX"
  BY ReplaceNames
<1>3. CASE TranslateMulHigh(f)
  <2> DEFINE s2 == getRsInto(getRsInto(ri, f.rs1, "AX"), f.rs2, "CX")
             t == getRd(invalidateReplacement(invalidateReplacement(s2, "DX"), "AX"), f.rd)
  <2>1. /\ ri' = Assign(Scratch(t, {"AX", "DX"}), HostOf(t, f.rd), f.rd)
        /\ misread' = WrongOperands(t, {Reads("AX", f.rs1), Reads("CX", f.rs2)})
                      \cup AddedAgain(t, f)
        /\ f.family \in {"MulHigh", "MulHighSU"}
    BY <1>3 DEF TranslateMulHigh, Translates
  <2>2. OperandsApart => f.rs1 # f.rs2 \/ f.rs1 \in gp_mapped
    BY <2>1 DEF OperandsApart
  <2>3. /\ Good(s2, x0) /\ Carries(s2, f.rs2, "CX")
        /\ OperandsApart => Carries(s2, f.rs1, "AX")
        /\ Zero(ri) /\ Clean(ri) => Zero(s2) /\ Clean(s2)
    BY <1>1, <1>2, <2>2, IntoTwo DEF GoodNow
  <2> HIDE DEF s2
  <2>4. /\ t.host["CX"] = f.rs2 /\ (OperandsApart => t.host["AX"] = f.rs1)
        /\ f.rs1 \notin gp_mapped /\ f.rs1 # f.rs2 /\ (f.rs1 = x0 => Zero(s2)) =>
              t.file[f.rs1] = f.rs1
        /\ f.rd # x0 /\ Zero(s2) /\ Clean(s2) => Zero(ri') /\ Clean(ri')
    BY <1>1, <2>1, <2>3, WideTail
  <2> HIDE DEF t
  <2>5. OperandsApart => WrongOperands(t, {Reads("AX", f.rs1), Reads("CX", f.rs2)}) = {}
    BY <2>4, ReadsRight
  <2>6. OperandsApart /\ (NoResultInX0 => Zero(ri) /\ Clean(ri)) => AddedAgain(t, f) = {}
    <3>1. OperandsApart /\ (NoResultInX0 => Zero(ri) /\ Clean(ri)) /\ f.family = "MulHighSU"
            => (f.rs1 = x0 => Zero(s2))
      BY <2>3 DEF OperandsApart
    <3>. QED
      BY <2>2, <2>4, <3>1 DEF AddedAgain
  <2>. QED
    BY <2>1, <2>3, <2>4, <2>5, <2>6 DEF ZeroStays
<1>4. CASE TranslateDiv(f)
  <2> DEFINE s2 == getRsInto(getRsInto(ri, f.rs2, "CX"), f.rs1, "AX")
             t == getRd(invalidateReplacement(invalidateReplacement(s2, "DX"), "AX"), f.rd)
  <2>1. /\ ri' = Assign(Scratch(t, {"AX", "DX"}), HostOf(t, f.rd), f.rd)
        /\ misread' = WrongOperands(t, {Reads("AX", f.rs1), Reads("CX", f.rs2)})
        /\ f.family = "Div"
    BY <1>4 DEF TranslateDiv, Translates
  <2>2. OperandsApart => f.rs1 # f.rs2 \/ f.rs1 \in gp_mapped
    BY <2>1 DEF OperandsApart
  <2>3. /\ Good(s2, x0) /\ Carries(s2, f.rs1, "AX")
        /\ OperandsApart => Carries(s2, f.rs2, "CX")
        /\ Zero(ri) /\ Clean(ri) => Zero(s2) /\ Clean(s2)
    BY <1>1, <1>2, <2>2, IntoTwo DEF GoodNow
  <2> HIDE DEF s2
  <2>4. /\ t.host["AX"] = f.rs1 /\ (OperandsApart => t.host["CX"] = f.rs2)
        /\ f.rd # x0 /\ Zero(s2) /\ Clean(s2) => Zero(ri') /\ Clean(ri')
    BY <1>1, <2>1, <2>3, WideTail
  <2> HIDE DEF t
  <2>5. OperandsApart => WrongOperands(t, {Reads("AX", f.rs1), Reads("CX", f.rs2)}) = {}
    BY <2>4, ReadsRight
  <2>. QED
    BY <2>1, <2>3, <2>4, <2>5 DEF ZeroStays
<1>. QED
  BY <1>3, <1>4

\* Moving the destination out of CX leaves the shift amount and rs1 where they are.
LEMMA ElsewhereKeeps ==
    ASSUME NEW s, NEW f \in Forms, NEW h1 \in Hosts, h1 # "CX", f.rd \notin gp_mapped,
           Good(s, f.rd), s.content["CX"] = f.rd
    PROVE  LET t == ShiftElsewhere(s, f, h1) IN
           /\ t.host[h1] = s.host[h1] /\ t.host["CX"] = s.host["CX"]
           /\ Zero(s) /\ Clean(s) => Zero(t) /\ Clean(t)
<1> DEFINE h == IF h1 = "AX" THEN "DX" ELSE "AX"
           u == invalidateReplacement(s, h)
           yes == TRUE
           t == loadIntoSpecific(u, f.rd, h, yes)
<1>1. /\ h \in Replace /\ h # h1 /\ h # "CX" /\ "CX" \in Replace
      /\ f.rd \in Regs \ gp_mapped /\ yes \in BOOLEAN
  BY ReplaceNames, FormRegs
<1>2. ShiftElsewhere(s, f, h1) = t
  BY DEF ShiftElsewhere
<1> HIDE DEF h, yes
<1>3. /\ Good(u, f.rd) /\ u.content[h] = INVALID_REG
      /\ \A g \in Replace \ {h} : u.content[g] = s.content[g]
  BY <1>1, InvalidateGood
<1>4. u.host = s.host /\ (Zero(s) => Zero(u)) /\ (Clean(s) => Clean(u))
  BY <1>1, InvalidateKeeps DEF Good
<1> HIDE DEF u
<1>5. /\ \A g \in Hosts \ Replace : t.host[g] = u.host[g]
      /\ \A g \in Replace \ {h} : u.content[g] # f.rd => t.host[g] = u.host[g]
      /\ \A g \in Replace \ {h} : u.content[g] = f.rd =>
            t.host[g] = IF u.content[h] = INVALID_REG THEN u.host[g] ELSE u.host[h]
  BY <1>1, <1>3, SpecificFrame
<1>6. Zero(u) /\ Clean(u) => Zero(t) /\ Clean(t)
  BY <1>1, <1>3, SpecificClean
<1> HIDE DEF t
<1>7. t.host["CX"] = s.host["CX"]
  BY <1>1, <1>3, <1>4, <1>5
<1>8. t.host[h1] = s.host[h1]
  BY <1>1, <1>3, <1>4, <1>5
<1>. QED
  BY <1>2, <1>4, <1>6, <1>7, <1>8

LEMMA ShiftRight ==
    ASSUME GoodNow, NEW f \in Forms, TranslateShift(f)
    PROVE  misread' = {} /\ ZeroStays(f)
<1> DEFINE s1 == getRsInto(ri, f.rs2, "CX")
           s2 == getRs(s1, f.rs1)
           s3 == getRd(s2, f.rd)
           h1 == HostOf(s2, f.rs1)
           s4 == IF HostOf(s3, f.rd) # h1 /\ HostOf(s3, f.rd) = "CX"
                 THEN ShiftElsewhere(s3, f, h1) ELSE s3
<1>1. f.rs1 \in Regs /\ f.rs2 \in Regs /\ f.rd \in Regs /\ "CX" \in Replace
  BY FormRegs, ReplaceNames
<1>2. /\ ri' = Assign(s4, HostOf(s4, f.rd), f.rd)
      /\ misread' = WrongOperands(s4, {Reads(h1, f.rs1), Reads("CX", f.rs2)})
  BY DEF TranslateShift
<1>3. /\ Good(s1, x0) /\ Carries(s1, f.rs2, "CX") /\ Newest(s1, "CX")
      /\ Zero(ri) /\ Clean(ri) => Zero(s1) /\ Clean(s1)
  BY <1>1, GetIntoGood, IntoFrame DEF GoodNow
<1> HIDE DEF s1
<1>4. /\ Good(s2, x0) /\ Carries(s2, f.rs1, h1)
      /\ (Zero(s1) => Zero(s2)) /\ (Clean(s1) => Clean(s2))
  BY <1>1, <1>3, OperandTaken
<1>5. Carries(s2, f.rs2, "CX")
  BY <1>1, <1>3, KeptByRs
<1> HIDE DEF s2, h1
<1>6. /\ s3.host[h1] = f.rs1 /\ s3.host["CX"] = f.rs2
      /\ (Zero(s2) => Zero(s3)) /\ (f.rd # x0 /\ Clean(s2) => Clean(s3))
  BY <1>1, <1>4, <1>5, KeptByRd
<1>7. Good(s3, f.rd) /\ HostHolds(s3, f.rd, HostOf(s3, f.rd))
  BY <1>1, <1>4, GetRdGood
<1> HIDE DEF s3
<1>8. Good(s4, f.rd) /\ HostHolds(s4, f.rd, HostOf(s4, f.rd))
  BY <1>7, ShiftResult
<1>9. /\ s4.host[h1] = f.rs1 /\ s4.host["CX"] = f.rs2
      /\ Zero(s3) /\ Clean(s3) => Zero(s4) /\ Clean(s4)
  <2>1. CASE HostOf(s3, f.rd) # h1 /\ HostOf(s3, f.rd) = "CX"
    <3>1. s4 = ShiftElsewhere(s3, f, h1)
      BY <2>1
    <3>2. f.rd \notin gp_mapped /\ s3.content["CX"] = f.rd /\ h1 # "CX" /\ h1 \in Hosts
      BY <1>1, <1>4, <1>7, <2>1, Mapped DEF HostHolds, Carries
    <3>. QED
      BY <1>6, <1>7, <3>1, <3>2, ElsewhereKeeps
  <2>2. CASE ~(HostOf(s3, f.rd) # h1 /\ HostOf(s3, f.rd) = "CX")
    <3>1. s4 = s3
      BY <2>2
    <3>. QED
      BY <1>6, <3>1
  <2>. QED
    BY <2>1, <2>2
<1> HIDE DEF s4
<1>10. misread' = {}
  BY <1>2, <1>9, ReadsRight
<1>11. (Zero(s4) => Zero(ri')) /\ (f.rd # x0 /\ Clean(s4) => Clean(ri'))
  BY <1>1, <1>2, <1>8, AssignKeeps
<1>. QED
  BY <1>3, <1>4, <1>6, <1>9, <1>10, <1>11 DEF ZeroStays

\* The address is in a mapped register, which nothing but a result changes.
LEMMA AmoMinMaxRight ==
    ASSUME GoodNow, NEW f \in Forms, TranslateAmoMinMax(f)
    PROVE  (OperandsApart => misread' = {}) /\ ZeroStays(f)
<1> DEFINE s1 == getRs(ri, f.rs1)
           s2 == getRsInto(s1, f.rs2, SECOND_REG)
           s3 == getRd(s2, f.rd)
           h1 == HostOf(s1, f.rs1)
           h  == HostOf(s3, f.rd)
           s4 == IF h = SECOND_REG THEN s3 ELSE invalidateReplacement(s3, SECOND_REG)
           hs == {SECOND_REG}
<1>1. f.rs1 \in Regs /\ f.rs2 \in Regs /\ f.rd \in Regs /\ SECOND_REG \in Replace
  BY FormRegs, ReplaceNames
<1>2. /\ f.rd # x0 => ri' = Assign(Scratch(s4, hs), h, f.rd)
      /\ misread' = WrongOperands(s4, {Reads(h1, f.rs1), Reads(SECOND_REG, f.rs2)})
      /\ f.family = "AmoMinMax"
  BY DEF TranslateAmoMinMax, Translates
<1>3. /\ Good(s1, x0) /\ Carries(s1, f.rs1, h1)
      /\ (Zero(ri) => Zero(s1)) /\ (Clean(ri) => Clean(s1))
  BY <1>1, OperandTaken DEF GoodNow
<1>4. f.rs1 \in gp_mapped => h1 \notin Replace
  BY Mapped DEF HostOf
<1> HIDE DEF s1, h1
<1>5. /\ Good(s2, x0) /\ Carries(s2, f.rs2, SECOND_REG)
      /\ \A g \in Hosts \ Replace : s2.host[g] = s1.host[g]
      /\ Zero(s1) /\ Clean(s1) => Zero(s2) /\ Clean(s2)
  BY <1>1, <1>3, GetIntoGood, IntoFrame
<1> HIDE DEF s2
<1>6. f.rs1 \in gp_mapped => Carries(s2, f.rs1, h1)
  BY <1>3, <1>4, <1>5 DEF Carries
<1>7. /\ f.rs1 \in gp_mapped => s3.host[h1] = f.rs1
      /\ s3.host[SECOND_REG] = f.rs2
      /\ (Zero(s2) => Zero(s3)) /\ (f.rd # x0 /\ Clean(s2) => Clean(s3))
  BY <1>1, <1>5, <1>6, KeptByRd
<1>8. Good(s3, f.rd) /\ HostHolds(s3, f.rd, h)
  BY <1>1, <1>5, GetRdGood
<1> HIDE DEF s3, h
<1>9. s4.host = s3.host /\ (Zero(s3) => Zero(s4)) /\ (Clean(s3) => Clean(s4))
  BY <1>1, <1>8, InvalidateKeeps DEF Good
<1>10. Good(s4, f.rd) /\ HostHolds(s4, f.rd, h) /\ s4.content[SECOND_REG] \in {INVALID_REG, f.rd}
  BY <1>1, <1>8, FreeUnlessRd
<1> HIDE DEF s4
<1>11. hs \in SUBSET Replace /\ \A g \in hs : s4.content[g] \in {INVALID_REG, f.rd}
  BY <1>1, <1>10
<1> HIDE DEF hs
<1>12. f.rd # x0 => (Zero(s4) => Zero(ri')) /\ (Clean(s4) => Clean(ri'))
  BY <1>1, <1>2, <1>10, <1>11, ScratchResultKeeps
<1>13. OperandsApart => misread' = {}
  <2>1. OperandsApart => f.rs1 \in gp_mapped
    BY <1>2 DEF OperandsApart
  <2>. QED
    BY <1>2, <1>7, <1>9, <2>1, ReadsRight
<1>. QED
  BY <1>3, <1>5, <1>7, <1>9, <1>12, <1>13 DEF ZeroStays

LEMMA FpClassRight ==
    ASSUME GoodNow, NEW f \in Forms, TranslateFpClass(f)
    PROVE  misread' = {} /\ ZeroStays(f)
<1> DEFINE no == FALSE
           s1 == IF f.rd \in gp_mapped THEN ri ELSE loadIntoSpecific(ri, f.rd, FIRST_REG, no)
           s2 == invalidateReplacement(invalidateReplacement(s1, SECOND_REG), THIRD_REG)
           h  == IF f.rd \in gp_mapped THEN gp_map[f.rd] ELSE FIRST_REG
           hs == {SECOND_REG, THIRD_REG}
<1>1. f.rd \in Regs /\ no \in BOOLEAN
  BY FormRegs
<1>2. /\ FIRST_REG \in Replace /\ SECOND_REG \in Replace /\ THIRD_REG \in Replace
      /\ SECOND_REG # THIRD_REG /\ FIRST_REG \notin hs
  BY ReplaceNames
<1>3. /\ s1 = getRdHinted(ri, f.rd, FIRST_REG)
      /\ ri' = Assign(Scratch(s2, hs), h, f.rd) /\ misread' = {}
  BY DEF TranslateFpClass, getRdHinted
<1> HIDE DEF no
<1>4. Zero(ri) /\ Clean(ri) => Zero(s1) /\ Clean(s1)
  BY <1>1, <1>2, SpecificClean DEF GoodNow
<1>5. Good(s1, f.rd) /\ HostHolds(s1, f.rd, h)
  BY <1>1, <1>2, <1>3, GetRdHintedGood DEF GoodNow
<1>6. f.rd \notin gp_mapped => h = FIRST_REG
  OBVIOUS
<1> HIDE DEF s1, h
<1>7. /\ Good(s2, f.rd)
      /\ s2.content[SECOND_REG] = INVALID_REG /\ s2.content[THIRD_REG] = INVALID_REG
      /\ \A g \in Replace \ hs : s2.content[g] = s1.content[g]
  BY <1>2, <1>5, InvalidateTwo
<1>8. (Zero(s1) => Zero(s2)) /\ (Clean(s1) => Clean(s2))
  BY <1>2, <1>5, TwoScratchKeep
<1> HIDE DEF s2
<1>9. hs \in SUBSET Replace /\ \A g \in hs : s2.content[g] \in {INVALID_REG, f.rd}
  BY <1>2, <1>7
<1> HIDE DEF hs
<1>10. HostHolds(s2, f.rd, h)
  BY <1>2, <1>5, <1>6, <1>7 DEF HostHolds
<1>11. (Zero(s2) => Zero(ri')) /\ (f.rd # x0 /\ Clean(s2) => Clean(ri'))
  BY <1>1, <1>3, <1>7, <1>9, <1>10, ScratchResultKeeps
<1>. QED
  BY <1>3, <1>4, <1>8, <1>11 DEF ZeroStays

-----------------------------------------------------------------------------
(* The theorems. *)

X0Safe == NoResultInX0 \/ NothingInPlace

\* x0 is 0 in the file, and in the registers too if no result goes to it.
X0Kept == Zero(ri) /\ (NoResultInX0 => Clean(ri))

\* The families of the actions, and which of them have a destination.
LEMMA FamiliesOf ==
    ASSUME NEW f \in Forms
    PROVE  /\ TranslateImm(f) \/ TranslateUpper(f) \/ TranslateReg(f) \/ TranslateAmo(f)
              \/ TranslateFpToInt(f) => f.family \in Destined
           /\ TranslateShift(f) \/ TranslateMulHigh(f) \/ TranslateDiv(f)
              \/ TranslateAmoMinMax(f) \/ TranslateFpClass(f)
                => f.family \in Destined \cap InPlace
BY DEF Translates, Destined, InPlace, TranslateImm, TranslateUpper, TranslateReg, TranslateAmo,
       TranslateFpToInt, TranslateShift, TranslateMulHigh, TranslateDiv, TranslateAmoMinMax,
       TranslateFpClass

LEMMA NextX0 ==
    ASSUME GoodNow, X0Safe, X0Kept, [Next]_vars
    PROVE  X0Kept'
<1>1. Zero(ri) /\ (NoResultInX0 => Clean(ri))
  BY DEF X0Kept
<1>2. SUFFICES Zero(ri') /\ (NoResultInX0 => Clean(ri'))
  BY DEF X0Kept, Zero, Clean
<1>3. CASE UNCHANGED vars
  BY <1>1, <1>3 DEF vars
<1>4. CASE EndBlock
  BY <1>1, <1>4, AllScratchRight
<1>5. ASSUME NEW f \in Forms,
             \/ TranslateImm(f) \/ TranslateUpper(f) \/ TranslateReg(f) \/ TranslateAmo(f)
             \/ TranslateFpToInt(f)
      PROVE  Zero(ri') /\ (NoResultInX0 => Clean(ri'))
  <2>1. Right(f)
    BY <1>5, ImmRight, RegRight, FpToIntRight
  <2>2. NoResultInX0 => f.rd # x0
    BY <1>5, FamiliesOf DEF NoResultInX0
  <2>. QED
    BY <1>1, <2>1, <2>2 DEF Right
<1>6. ASSUME NEW f \in Forms,
             \/ TranslateStore(f) \/ TranslateBranch(f) \/ TranslateFpFromWord(f)
             \/ TranslateFpFromLong(f) \/ TranslateFpSign(f)
      PROVE  Zero(ri') /\ (NoResultInX0 => Clean(ri'))
  BY <1>1, <1>6, StoreRight, BranchRight, FpFromWordRight, FpFromLongRight, AllScratchRight
<1>7. ASSUME NEW f \in Forms,
             \/ TranslateShift(f) \/ TranslateMulHigh(f) \/ TranslateDiv(f)
             \/ TranslateAmoMinMax(f) \/ TranslateFpClass(f)
      PROVE  Zero(ri') /\ (NoResultInX0 => Clean(ri'))
  <2>1. NoResultInX0 /\ f.rd # x0 /\ Zero(ri) /\ Clean(ri)
    BY <1>1, <1>7, FamiliesOf DEF X0Safe, NothingInPlace, NoResultInX0
  <2>2. ZeroStays(f)
    BY <1>1, <1>7, ShiftRight, WideRight, AmoMinMaxRight, FpClassRight
  <2>. QED
    BY <2>1, <2>2 DEF ZeroStays
<1>. QED
  BY <1>3, <1>4, <1>5, <1>6, <1>7 DEF Next

\* The register file keeps 0 in x0 (the debug build checks it after each block)
\* in every program that writes no result to x0, and in every program that asks
\* for no register in a place of its own: only loadIntoSpecific sends a register
\* of x0 back to the file (util.h:364), and only a result makes it wrong.
THEOREM X0StaysZeroHolds == X0Safe => (Spec => []X0StaysZero)
<1> DEFINE Inv == GoodNow /\ X0Safe /\ X0Kept
<1>1. Init => X0Kept
  BY Mapped DEF Init, X0Kept, Zero, Clean
<1>2. Inv /\ [Next]_vars => Inv'
  BY NextGood, NextX0 DEF X0Safe, NoResultInX0, NothingInPlace
<1>3. Inv => X0StaysZero
  BY DEF X0Kept, Zero, X0StaysZero
<1>4. X0Safe /\ Init => Inv
  BY <1>1, InitGood
<1> HIDE DEF Inv
<1>5. X0Safe /\ Spec => []Inv
  BY <1>2, <1>4, PTL DEF Spec
<1>. QED
  BY <1>3, <1>5, PTL

LEMMA NextOperandsRight ==
    ASSUME GoodNow, OperandsApart, NoResultInX0 => Zero(ri) /\ Clean(ri), OperandsRight,
           [Next]_vars
    PROVE  OperandsRight'
<1>1. SUFFICES misread' = {}
  BY DEF OperandsRight
<1>2. CASE UNCHANGED vars
  BY <1>2 DEF vars, OperandsRight
<1>3. CASE EndBlock
  BY <1>3, AllScratchRight
<1>4. ASSUME NEW f \in Forms,
             \/ TranslateImm(f) \/ TranslateUpper(f) \/ TranslateReg(f) \/ TranslateAmo(f)
             \/ TranslateFpToInt(f)
      PROVE  misread' = {}
  BY <1>4, ImmRight, RegRight, FpToIntRight DEF Right
<1>5. ASSUME NEW f \in Forms,
             \/ TranslateStore(f) \/ TranslateBranch(f) \/ TranslateFpFromWord(f)
             \/ TranslateFpFromLong(f) \/ TranslateFpSign(f)
      PROVE  misread' = {}
  BY <1>5, StoreRight, BranchRight, FpFromWordRight, FpFromLongRight, AllScratchRight
<1>6. ASSUME NEW f \in Forms,
             \/ TranslateShift(f) \/ TranslateMulHigh(f) \/ TranslateDiv(f)
             \/ TranslateAmoMinMax(f) \/ TranslateFpClass(f)
      PROVE  misread' = {}
  BY <1>6, ShiftRight, WideRight, AmoMinMaxRight, FpClassRight
<1>. QED
  BY <1>2, <1>3, <1>4, <1>5, <1>6 DEF Next

\* When an instruction executes, its operands are in the registers it reads: no
\* later get of the same instruction has taken their place, whatever the mapping
\* and whatever ran before, in programs whose multiplications, divisions and
\* AMOMINs do not ask for one unmapped register in two places (getRs1Into,
\* getRs2Into of translate_m_ext.c and translate_a_ext.c).
THEOREM OperandsRightHolds == OperandsApart => (Spec => []OperandsRight)
<1> DEFINE Zeroed == NoResultInX0 => Zero(ri) /\ Clean(ri)
           Inv == GoodNow /\ OperandsApart /\ Zeroed /\ OperandsRight
<1>1. Init => Zeroed /\ OperandsRight
  BY Mapped DEF Init, Zero, Clean, OperandsRight
<1>2. GoodNow /\ Zeroed /\ [Next]_vars => Zeroed'
  <2> SUFFICES ASSUME GoodNow, NoResultInX0 => Zero(ri) /\ Clean(ri), [Next]_vars, NoResultInX0
               PROVE  (Zero(ri) /\ Clean(ri))'
    BY DEF NoResultInX0
  <2>. QED
    BY NextX0 DEF X0Safe, X0Kept
<1>3. Inv /\ [Next]_vars => Inv'
  <2>1. Inv /\ [Next]_vars => GoodNow' /\ Zeroed' /\ OperandsRight'
    BY <1>2, NextGood, NextOperandsRight
  <2>2. OperandsApart => OperandsApart'
    BY DEF OperandsApart, NoResultInX0
  <2>. QED
    BY <2>1, <2>2
<1>4. OperandsApart /\ Init => Inv
  BY <1>1, InitGood
<1>5. Inv => OperandsRight
  OBVIOUS
<1> HIDE DEF Inv
<1>6. OperandsApart /\ Spec => []Inv
  BY <1>3, <1>4, PTL DEF Spec
<1>. QED
  BY <1>5, <1>6, PTL

=============================================================================
