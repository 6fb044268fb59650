---------------------------- MODULE FusionProofs ----------------------------
(***************************************************************************)
(* Proofs about Fusion for every set of parsed blocks, of any length: how  *)
(* the occurrences that optimize_patterns marks lie in the buffer, and     *)
(* that the code emitted for them covers every instruction exactly once.   *)
(***************************************************************************)
EXTENDS Fusion, FiniteSetTheorems, TLAPS

-----------------------------------------------------------------------------
(* The table of patterns. *)

LEMMA PatternCount == Len(patterns) = 22
BY DEF patterns

LEMMA PatternLenType ==
    ASSUME NEW p \in 1..Len(patterns)
    PROVE  PatternLen(p) \in 1..5
<1>1. p \in 1..22
  BY PatternCount
<1>. QED
  BY <1>1 DEF PatternLen, Elements, patterns, p_2_elem, p_9_elem, p_7_elem, p_3_elem, p_4_elem,
              p_5_elem, p_6_elem, p_21_elem, p_19_elem, p_23_elem

-----------------------------------------------------------------------------
(* The marks. *)

Places == 0 .. len - 1

\* An occurrence ends before the last instruction of the block.
MarkAt(k) == optype[k] \in 1..Len(patterns) /\ k + PatternLen(optype[k]) < len

MarksType ==
    /\ block \in Blocks /\ len \in Nat /\ DOMAIN block = Places
    /\ mnem \in [Places -> Mnemonics \cup {"PATTERN_EMIT", "SILENT_NOP"}]
    /\ optype \in [Places -> 0..Len(patterns)]
    /\ times \in [Places -> Nat]
    /\ i \in 1..Len(patterns) + 1 /\ j \in Nat /\ t \in 0..len
    /\ phase \in {"match", "emit", "done"}
    /\ phase = "done" => t = len

\* Every mark is that of an occurrence, and none reaches the last instruction.
MarksInside == \A k \in DOMAIN block : mnem[k] = "PATTERN_EMIT" => MarkAt(k)

\* Nothing is emitted while patterns are looked for.
NotYet == phase = "match" => /\ t = 0
                             /\ \A k \in Places : times[k] = 0 /\ mnem[k] # "SILENT_NOP"

\* What is emitted reaches up to e: every instruction below e was given effect
\* once, those from t on are silent, and from e on nothing was done.
ReachesTo(e) ==
    /\ \A k \in Places : k < t => times[k] = 1
    /\ \A k \in Places : k >= t /\ k < e => times[k] = 1 /\ mnem[k] = "SILENT_NOP"
    /\ \A k \in Places : k >= t /\ k >= e => times[k] = 0 /\ mnem[k] # "SILENT_NOP"

Reaches == phase # "match" => \E e \in Nat : ReachesTo(e)

MarksInv == MarksType /\ MarksInside /\ NotYet /\ Reaches

LEMMA BlockPlaces ==
    ASSUME BlocksAssumption, NEW b \in Blocks
    PROVE  /\ Cardinality(DOMAIN b) \in Nat
           /\ DOMAIN b = 0..Cardinality(DOMAIN b) - 1
           /\ \A k \in DOMAIN b : b[k].mnem \in Mnemonics
BY FS_CardinalityType DEF BlocksAssumption

LEMMA ParsedIsUnmarked == "PATTERN_EMIT" \notin Mnemonics /\ "SILENT_NOP" \notin Mnemonics
BY DEF Mnemonics

LEMMA MarksInit ==
    ASSUME BlocksAssumption, Init
    PROVE  MarksInv
<1>1. len \in Nat /\ DOMAIN block = Places /\ \A k \in Places : block[k].mnem \in Mnemonics
  BY BlockPlaces DEF Init, len, Places
<1>2. MarksType
  BY <1>1, PatternCount DEF MarksType, Init
<1>3. MarksInside /\ NotYet
  BY <1>1, ParsedIsUnmarked DEF MarksInside, NotYet, Init
<1>. QED
  BY <1>2, <1>3 DEF MarksInv, Reaches, Init

\* Only what is emitted decides how far it reaches.
LEMMA MarkStep ==
    ASSUME MarksInv, Mark
    PROVE  MarksInv'
<1>. USE DEF MarksInv
<1>1. PatternLen(i) \in 1..5 /\ i \in 1..Len(patterns)
  BY PatternLenType, PatternCount DEF MarksType, Mark
<1>2. j \in Places /\ j + PatternLen(i) < len /\ phase = "match"
  <2>1. j < len - PatternLen(i) /\ phase = "match"
    BY DEF Mark, InBounds
  <2>2. len \in Nat /\ j \in Nat
    BY DEF MarksType
  <2>. QED
    BY <1>1, <2>1, <2>2 DEF Places
<1>3. len' = len /\ Places' = Places /\ UNCHANGED <<block, i, t, phase, times>>
  BY DEF Mark, len, Places
<1>4. MarksType'
  BY <1>1, <1>2, <1>3, PatternCount DEF MarksType, Mark
<1>5. \A k \in Places : k # j => mnem'[k] = mnem[k] /\ optype'[k] = optype[k]
  BY <1>2 DEF MarksType, Mark
<1>6. mnem'[j] = "PATTERN_EMIT" /\ optype'[j] = i
  BY <1>2 DEF MarksType, Mark
<1>7. MarksInside'
  <2>. SUFFICES ASSUME NEW k \in Places, mnem'[k] = "PATTERN_EMIT"
                PROVE  MarkAt(k)'
    BY <1>3 DEF MarksInside, MarksType
  <2>1. CASE k = j
    BY <2>1, <1>1, <1>2, <1>3, <1>6 DEF MarkAt, PatternLen, Elements
  <2>2. CASE k # j
    <3>1. MarkAt(k)
      BY <2>2, <1>5 DEF MarksInside, MarksType
    <3>. QED
      BY <3>1, <2>2, <1>3, <1>5 DEF MarkAt
  <2>. QED
    BY <2>1, <2>2
<1>8. NotYet'
  BY <1>2, <1>3, <1>5, <1>6 DEF NotYet
<1>. QED
  BY <1>2, <1>3, <1>4, <1>7, <1>8 DEF Reaches

\* A step that leaves the buffer and what was emitted alone.
LEMMA OtherStep ==
    ASSUME MarksInv, Mismatch \/ NextPattern \/ Enter \/ Leave \/ UNCHANGED vars
    PROVE  MarksInv'
<1>. USE DEF MarksInv
<1>1. UNCHANGED <<block, mnem, optype, t, times>> /\ len' = len /\ Places' = Places
  BY DEF Mismatch, NextPattern, Enter, Leave, vars, len, Places
<1>2. MarksType'
  <2>1. i' \in 1..Len(patterns) + 1 /\ j' \in Nat
    <3>1. i \in 1..23 /\ j \in Nat
      BY PatternCount DEF MarksType
    <3>2. \/ i' = i /\ (j' = j \/ j' = j + 1)
          \/ i' = i + 1 /\ i <= 22 /\ j' = 0
      BY PatternCount DEF Mismatch, NextPattern, Enter, Leave, vars
    <3>. QED
      BY <3>1, <3>2, PatternCount
  <2>2. phase' \in {"match", "emit", "done"} /\ (phase' = "done" => t = len)
    BY DEF MarksType, Mismatch, NextPattern, Enter, Leave, vars
  <2>. QED
    BY <1>1, <2>1, <2>2 DEF MarksType
<1>3. MarksInside'
  BY <1>1 DEF MarksInside, MarkAt
<1>4. NotYet'
  <2>1. phase' = "match" => phase = "match"
    BY DEF Mismatch, NextPattern, Enter, Leave, vars
  <2>. QED
    BY <1>1, <2>1 DEF NotYet
<1>5. Reaches'
  <2>1. CASE phase = "match"
    <3>1. ReachesTo(0)
      BY <2>1 DEF NotYet, ReachesTo, MarksType, Places
    <3>2. ReachesTo(0)'
      BY <3>1, <1>1 DEF ReachesTo
    <3>. QED
      BY <3>2 DEF Reaches
  <2>2. CASE phase # "match"
    <3>1. PICK e \in Nat : ReachesTo(e)
      BY <2>2 DEF Reaches
    <3>2. ReachesTo(e)'
      BY <3>1, <1>1 DEF ReachesTo
    <3>. QED
      BY <3>2 DEF Reaches
  <2>. QED
    BY <2>1, <2>2
<1>. QED
  BY <1>2, <1>3, <1>4, <1>5

\* What a step of translate_block_instructions leaves alone.
LEMMA AdvanceKeeps ==
    ASSUME MarksInv, Advance
    PROVE  /\ UNCHANGED <<block, optype, i, j, phase>> /\ len' = len /\ Places' = Places
           /\ phase = "emit" /\ t \in Places /\ t' = t + 1 /\ t' \in 0..len
           /\ times' = [k \in Places |-> IF k \in Replaced THEN times[k] + 1 ELSE times[k]]
           /\ PatternLen(optype[t]) \in Nat \/ mnem[t] # "PATTERN_EMIT"
<1>. USE DEF MarksInv
<1>1. UNCHANGED <<block, optype, i, j, phase>> /\ len' = len /\ Places' = Places
  BY DEF Advance, len, Places
<1>2. phase = "emit" /\ t \in Places /\ t' = t + 1 /\ t' \in 0..len
  BY DEF Advance, MarksType, Places
<1>3. DOMAIN times = Places
  BY DEF MarksType
<1>4. times' = [k \in Places |-> IF k \in Replaced THEN times[k] + 1 ELSE times[k]]
  BY <1>3 DEF Advance
<1>5. mnem[t] = "PATTERN_EMIT" => PatternLen(optype[t]) \in Nat
  BY <1>2, PatternLenType DEF MarksInside, MarkAt, MarksType
<1>. QED
  BY <1>1, <1>2, <1>4, <1>5

LEMMA EmitStep ==
    ASSUME MarksInv, translate_pattern_emit
    PROVE  /\ MarksInv'
           /\ \A e \in Nat : ReachesTo(e) => e <= t
           /\ \E e \in 0..len : e = t + PatternLen(optype[t]) /\ ReachesTo(e)'
<1>. USE DEF MarksInv
<1>0. Advance /\ mnem[t] = "PATTERN_EMIT"
  BY DEF translate_pattern_emit
<1>1. UNCHANGED <<block, optype, i, j, phase>> /\ len' = len /\ Places' = Places
      /\ phase = "emit" /\ t \in Places /\ t' = t + 1 /\ t' \in 0..len
      /\ times' = [k \in Places |-> IF k \in Replaced THEN times[k] + 1 ELSE times[k]]
  BY <1>0, AdvanceKeeps
<1>2. MarkAt(t) /\ PatternLen(optype[t]) \in 1..5
  BY <1>0, <1>1, PatternLenType DEF MarksInside, MarkAt, MarksType
<1>3. PICK end \in Nat : end = t + PatternLen(optype[t])
  BY <1>1, <1>2 DEF Places, MarksType
<1>4. end >= t + 1 /\ Replaced = t..end - 1
  BY <1>0, <1>1, <1>2, <1>3 DEF Replaced, Places
<1>5. mnem' = [k \in Places |-> IF k \in t + 1..end - 1 THEN "SILENT_NOP" ELSE mnem[k]]
  <2>1. mnem' = [k \in DOMAIN mnem |->
          IF k \in t + 1..t + PatternLen(optype[t]) - 1 THEN "SILENT_NOP" ELSE mnem[k]]
    BY DEF translate_pattern_emit, Silenced
  <2>2. DOMAIN mnem = Places
    BY DEF MarksType
  <2>3. t + 1..t + PatternLen(optype[t]) - 1 = t + 1..end - 1
    BY <1>1, <1>2, <1>3 DEF Places
  <2>. DEFINE silent == t + 1..end - 1
  <2>4. mnem' = [k \in Places |-> IF k \in silent THEN "SILENT_NOP" ELSE mnem[k]]
    BY <2>1, <2>2, <2>3
  <2>. QED
    BY <2>4
<1>6. MarksType'
  BY <1>1, <1>5 DEF MarksType
<1>7. MarksInside'
  BY <1>1, <1>5 DEF MarksInside, MarkAt, MarksType
<1>8. PICK e \in Nat : ReachesTo(e)
  BY <1>1 DEF Reaches
<1>9. \A f \in Nat : ReachesTo(f) => f <= t
  BY <1>0, <1>1 DEF ReachesTo, Places, MarksType
<1>10. \A k \in Places : k >= t => times[k] = 0 /\ mnem[k] # "SILENT_NOP"
  <2>1. e <= t
    BY <1>8, <1>9
  <2>. QED
    BY <1>8, <2>1, <1>1 DEF ReachesTo, Places, MarksType
<1>11. ReachesTo(end)'
  <2>1. ASSUME NEW k \in Places, k < t + 1
        PROVE  times'[k] = 1
    BY <2>1, <1>1, <1>4, <1>8, <1>10 DEF ReachesTo, Places, MarksType
  <2>2. ASSUME NEW k \in Places, k >= t + 1, k < end
        PROVE  times'[k] = 1 /\ mnem'[k] = "SILENT_NOP"
    BY <2>2, <1>1, <1>4, <1>5, <1>10 DEF Places, MarksType
  <2>3. ASSUME NEW k \in Places, k >= t + 1, k >= end
        PROVE  times'[k] = 0 /\ mnem'[k] # "SILENT_NOP"
    BY <2>3, <1>1, <1>4, <1>5, <1>10 DEF Places, MarksType
  <2>. QED
    BY <2>1, <2>2, <2>3, <1>1 DEF ReachesTo
<1>12. end \in 0..len
  BY <1>2, <1>3 DEF MarkAt, MarksType
<1>13. NotYet' /\ Reaches'
  BY <1>1, <1>11 DEF Reaches, NotYet
<1>. QED
  BY <1>3, <1>6, <1>7, <1>9, <1>11, <1>12, <1>13

LEMMA SilentStep ==
    ASSUME MarksInv, translate_SILENT_NOP
    PROVE  MarksInv' /\ \A e \in Nat : ReachesTo(e) => e > t /\ ReachesTo(e)'
<1>. USE DEF MarksInv
<1>0. Advance /\ mnem[t] = "SILENT_NOP" /\ mnem' = mnem
  BY DEF translate_SILENT_NOP
<1>1. UNCHANGED <<block, optype, i, j, phase>> /\ len' = len /\ Places' = Places
      /\ phase = "emit" /\ t \in Places /\ t' = t + 1 /\ t' \in 0..len
      /\ times' = [k \in Places |-> IF k \in Replaced THEN times[k] + 1 ELSE times[k]]
  BY <1>0, AdvanceKeeps
<1>2. times' = times
  <2>1. Replaced = {}
    BY <1>0 DEF Replaced
  <2>. QED
    BY <2>1, <1>1 DEF MarksType
<1>3. MarksType'
  BY <1>0, <1>1, <1>2 DEF MarksType
<1>4. MarksInside'
  BY <1>0, <1>1 DEF MarksInside, MarkAt
<1>5. ASSUME NEW e \in Nat, ReachesTo(e)
      PROVE  e > t /\ ReachesTo(e)'
  <2>1. e > t
    BY <1>0, <1>1, <1>5 DEF ReachesTo, Places, MarksType
  <2>2. ReachesTo(e)'
    BY <1>0, <1>1, <1>2, <1>5, <2>1 DEF ReachesTo, Places, MarksType
  <2>. QED
    BY <2>1, <2>2
<1>6. NotYet' /\ Reaches'
  BY <1>1, <1>5 DEF Reaches, NotYet
<1>. QED
  BY <1>3, <1>4, <1>5, <1>6

LEMMA PlainStep ==
    ASSUME MarksInv, TranslatePlain
    PROVE  /\ MarksInv'
           /\ \A e \in Nat : ReachesTo(e) => e <= t
           /\ \A e \in Nat : e = t + 1 => ReachesTo(e)'
<1>. USE DEF MarksInv
<1>0. Advance /\ mnem[t] \notin {"PATTERN_EMIT", "SILENT_NOP"} /\ mnem' = mnem
  BY DEF TranslatePlain
<1>1. UNCHANGED <<block, optype, i, j, phase>> /\ len' = len /\ Places' = Places
      /\ phase = "emit" /\ t \in Places /\ t' = t + 1 /\ t' \in 0..len
      /\ times' = [k \in Places |-> IF k \in Replaced THEN times[k] + 1 ELSE times[k]]
  BY <1>0, AdvanceKeeps
<1>2. Replaced = {t}
  BY <1>0 DEF Replaced
<1>3. MarksType'
  BY <1>0, <1>1 DEF MarksType
<1>4. MarksInside'
  BY <1>0, <1>1 DEF MarksInside, MarkAt
<1>5. PICK e \in Nat : ReachesTo(e)
  BY <1>1 DEF Reaches
<1>6. \A f \in Nat : ReachesTo(f) => f <= t
  BY <1>0, <1>1 DEF ReachesTo, Places, MarksType
<1>7. ASSUME NEW f \in Nat, f = t + 1
      PROVE  ReachesTo(f)'
  BY <1>0, <1>1, <1>2, <1>5, <1>6, <1>7 DEF ReachesTo, Places, MarksType
<1>8. t + 1 \in Nat
  BY <1>1 DEF Places
<1>9. NotYet' /\ Reaches'
  BY <1>1, <1>7, <1>8 DEF Reaches, NotYet
<1>. QED
  BY <1>3, <1>4, <1>6, <1>7, <1>9

LEMMA MarksHold ==
    ASSUME BlocksAssumption
    PROVE  Spec => []MarksInv
<1>1. Init => MarksInv
  BY MarksInit
<1>2. MarksInv /\ [Next]_vars => MarksInv'
  BY MarkStep, OtherStep, EmitStep, SilentStep, PlainStep DEF Next
<1>. QED
  BY <1>1, <1>2, PTL DEF Spec

\* Every instruction of a translated block has been given effect exactly once,
\* whatever block was parsed and however the occurrences marked in it overlap
\* and nest (optimize_patterns, translate_pattern_emit).
THEOREM EachOnceHolds ==
    ASSUME BlocksAssumption
    PROVE  Spec => []EachOnce
<1>1. MarksInv => EachOnce
  <2>. SUFFICES ASSUME MarksInv, phase = "done", NEW k \in DOMAIN block
                PROVE  times[k] = 1
    BY DEF EachOnce
  <2>1. k \in Places /\ t = len /\ len \in Nat
    BY DEF MarksInv, MarksType
  <2>2. PICK e \in Nat : ReachesTo(e)
    BY DEF MarksInv, Reaches
  <2>. QED
    BY <2>1, <2>2 DEF ReachesTo, Places
<1>. QED
  BY <1>1, MarksHold, PTL

\* Every mark stands for a pattern of the table whose occurrence ends before
\* the last instruction of the block: the code emitted for it reads no
\* instruction behind the buffer and the jump that ends the block is never
\* fused (the bound of the inner loop of optimize_patterns).
THEOREM MarksInsideHolds ==
    ASSUME BlocksAssumption
    PROVE  Spec => []MarksInside
<1>1. MarksInv => MarksInside
  BY DEF MarksInv
<1>. QED
  BY <1>1, MarksHold, PTL

-----------------------------------------------------------------------------
(* Division, and the words. *)

LEMMA DivMod ==
    ASSUME NEW m \in Nat \ {0}, NEW a \in Int
    PROVE  a = (m * (a \div m)) + (a % m) /\ a \div m \in Int /\ a % m \in 0..m - 1
OBVIOUS

LEMMA DivModUnique ==
    ASSUME NEW m \in Nat \ {0}, NEW q \in Int, NEW r \in 0..m - 1, NEW a \in Int, a = (m * q) + r
    PROVE  a % m = r /\ a \div m = q
OBVIOUS

\* A sum may be cut to a word before or after.
LEMMA ModSum ==
    ASSUME NEW m \in Nat \ {0}, NEW a \in Int, NEW b \in Int
    PROVE  ((a % m) + b) % m = (a + b) % m
<1>. DEFINE q == a \div m
            r == a % m
<1>1. a = (m * q) + r /\ q \in Int /\ r \in Int
  BY DivMod
<1>. HIDE DEF q, r
<1>. DEFINE p == (r + b) \div m
            s == (r + b) % m
<1>2. r + b \in Int
  BY <1>1
<1>3. r + b = (m * p) + s /\ p \in Int /\ s \in 0..m - 1
  BY <1>2, DivMod
<1>. HIDE DEF p, s
<1>4. a + b = (m * (q + p)) + s /\ q + p \in Int /\ a + b \in Int
  BY <1>1, <1>3
<1>. HIDE DEF q, p
<1>. DEFINE n == q + p
            c == a + b
<1>5. c = (m * n) + s /\ n \in Int /\ c \in Int
  BY <1>4
<1>. HIDE DEF n, c
<1>6. c % m = s
  BY <1>3, <1>5, DivModUnique
<1>. QED
  BY <1>6 DEF s, r, c

\* What is shifted by m within k * m, and back by k * m.
LEMMA Scaled ==
    ASSUME NEW k \in Nat \ {0}, NEW m \in Nat \ {0}, NEW a \in Int
    PROVE  /\ (a * m) % (k * m) = (a % k) * m
           /\ (a * m) \div (k * m) = a \div k
<1>. DEFINE q == a \div k
            r == a % k
            n == k * m
            b == a * m
            s == r * m
<1>1. a = (k * q) + r /\ q \in Int /\ r \in 0..k - 1
  BY DivMod
<1>. HIDE DEF q, r
<1>2. b = (n * q) + s /\ n \in Nat \ {0} /\ b \in Int
  BY <1>1
<1>3. s \in 0..n - 1
  <2>1. (r + 1) * m <= k * m
    BY <1>1
  <2>. QED
    BY <1>1, <2>1
<1>. HIDE DEF n, b, s
<1>4. b % n = s /\ b \div n = q
  BY <1>1, <1>2, <1>3, DivModUnique
<1>. QED
  BY <1>4 DEF r, q, n, b, s

LEMMA DivScaled ==
    ASSUME NEW m \in Nat \ {0}, NEW a \in Int
    PROVE  (a * m) \div m = a
<1>1. a * m = (m * a) + 0 /\ 0 \in 0..m - 1 /\ a * m \in Int
  OBVIOUS
<1>. QED
  BY <1>1, DivModUnique

LEMMA Powers ==
    ASSUME WidthAssumption, PowersOf2
    PROVE  /\ 2^XLEN \in Nat \ {0} /\ 2^HALF \in Nat \ {0}
           /\ 2^XLEN = 2^HALF * 2^HALF /\ 2^HALF > 1 /\ 2^XLEN > 1
           /\ 2^(XLEN - 1) \in Nat \ {0} /\ 2^(HALF - 1) \in Nat \ {0}
<1>1. HALF \in 0..HALF /\ HALF \in 0..XLEN /\ XLEN \in 0..XLEN /\ XLEN = HALF + HALF
      /\ XLEN - 1 \in 0..XLEN /\ HALF - 1 \in 0..XLEN
  BY DEF WidthAssumption
<1>2. 2^XLEN = 2^HALF * 2^HALF
  BY <1>1 DEF PowersOf2
<1>3. 2^XLEN \in Nat \ {0} /\ 2^HALF \in Nat \ {0} /\ 2^HALF > 1
  BY <1>1 DEF PowersOf2
<1>4. 2^XLEN > 1
  <2>. DEFINE h == 2^HALF
  <2>1. h \in Nat /\ h > 1 /\ 2^XLEN = h * h
    BY <1>2, <1>3
  <2>. HIDE DEF h
  <2>2. h * h > 1
    BY <2>1
  <2>. QED
    BY <2>1, <2>2
<1>. QED
  BY <1>1, <1>2, <1>3, <1>4 DEF PowersOf2

\* The lower bits of a number are those of its word.
LEMMA ModTwice ==
    ASSUME NEW h \in Nat \ {0}, NEW g \in Nat \ {0}, NEW a \in Int
    PROVE  (a % (h * g)) % h = a % h
<1>. DEFINE n == h * g
            q == a \div n
            r == a % n
<1>0. n = h * g
  OBVIOUS
<1>1. n \in Nat \ {0}
  OBVIOUS
<1>. HIDE DEF n
<1>2. a = (n * q) + r /\ q \in Int /\ r \in Int
  BY <1>1, DivMod
<1>. HIDE DEF q, r
<1>. DEFINE p == r \div h
            u == r % h
<1>3. r = (h * p) + u /\ p \in Int /\ u \in 0..h - 1
  BY <1>2, DivMod
<1>. HIDE DEF p, u
<1>. DEFINE k == (g * q) + p
<1>4. a = (h * k) + u /\ k \in Int
  <2>1. n * q = h * (g * q)
    BY <1>0, <1>2
  <2>. QED
    BY <2>1, <1>2, <1>3
<1>. HIDE DEF k
<1>5. a % h = u
  BY <1>3, <1>4, DivModUnique
<1>. QED
  BY <1>5 DEF u, r, n

LEMMA WordType ==
    ASSUME WidthAssumption, PowersOf2, NEW a \in Int
    PROVE  /\ W(a) \in Word /\ Word \subseteq Nat
           /\ Low(a) \in 0..2^HALF - 1 /\ Low(a) \in Word
           /\ SignedLow(a) \in Int /\ Sext(a) \in Word
           /\ (a \in Word => W(a) = a)
<1>. DEFINE m == 2^XLEN
            h == 2^HALF
            o == 2^(HALF - 1)
<1>1. m \in Nat \ {0} /\ h \in Nat \ {0} /\ m = h * h /\ o \in Nat
  BY Powers
<1>. HIDE DEF m, h, o
<1>2. \A b \in Int : b % m \in 0..m - 1
  BY <1>1, DivMod
<1>3. a % h \in 0..h - 1 /\ h <= m
  BY <1>1, DivMod
<1>4. a \in 0..m - 1 => a % m = a
  <2>. SUFFICES ASSUME a \in 0..m - 1 PROVE a % m = a
    OBVIOUS
  <2>1. a = (m * 0) + a
    BY <1>1
  <2>. QED
    BY <2>1, <1>1, DivModUnique
<1>5. SignedLow(a) \in Int
  BY <1>1, <1>3 DEF SignedLow, SignedOf, h, o
<1>6. Word = 0..m - 1 /\ (\A b : W(b) = b % m) /\ Low(a) = a % h
  BY DEF Word, W, Low, m, h
<1>7. Sext(a) = SignedLow(a) % m
  BY <1>6 DEF Sext
<1>8. Low(a) \in 0..h - 1 /\ Low(a) \in 0..m - 1
  BY <1>1, <1>3, <1>6
<1>9. W(a) \in 0..m - 1 /\ Sext(a) \in 0..m - 1 /\ (a \in 0..m - 1 => W(a) = a)
  BY <1>2, <1>4, <1>5, <1>6, <1>7
<1>10. 0..m - 1 \subseteq Nat
  BY <1>1
<1>. QED
  BY <1>5, <1>6, <1>8, <1>9, <1>10 DEF h

LEMMA WordSum ==
    ASSUME WidthAssumption, PowersOf2, NEW a \in Int, NEW b \in Int
    PROVE  W(W(a) + b) = W(a + b)
BY Powers, ModSum DEF W

LEMMA LowSext ==
    ASSUME WidthAssumption, PowersOf2, NEW a \in Int
    PROVE  Low(Sext(a)) = Low(a)
<1>. DEFINE h == 2^HALF
            u == a % h
            x == SignedLow(a)
<1>1. h \in Nat \ {0} /\ 2^XLEN = h * h
  BY Powers
<1>2. u \in 0..h - 1 /\ (x = u \/ x = u - h)
  BY <1>1, DivMod DEF SignedLow, SignedOf
<1>. HIDE DEF h, u, x
<1>3. x \in Int /\ x % h = u
  <2>1. CASE x = u
    BY <2>1, <1>1, <1>2, DivModUnique
  <2>2. CASE x = u - h
    <3>1. x = (h * (-1)) + u /\ x \in Int /\ -1 \in Int
      BY <2>2, <1>1, <1>2
    <3>. QED
      BY <3>1, <1>1, <1>2, DivModUnique
  <2>. QED
    BY <1>2, <2>1, <2>2
<1>4. (x % (h * h)) % h = x % h
  BY <1>1, <1>3, ModTwice
<1>. QED
  BY <1>1, <1>3, <1>4 DEF Low, Sext, W, x, u, h

\* Shifted out of the word by half its width, and back by n.
LEMMA ShiftedBack ==
    ASSUME WidthAssumption, PowersOf2, NEW a \in Int, NEW n \in 0..XLEN - 1
    PROVE  /\ n < HALF => W(a * 2^HALF) \div 2^n = Low(a) * 2^(HALF - n)
           /\ n >= HALF => W(a * 2^HALF) \div 2^n = Low(a) \div 2^(n - HALF)
<1>. DEFINE h == 2^HALF
            c == Low(a)
<1>1. h \in Nat \ {0} /\ 2^XLEN = h * h
  BY Powers
<1>2. c \in Int /\ W(a * h) = c * h
  <2>1. c = a % h /\ W(a * h) = (a * h) % (h * h)
    BY <1>1 DEF W, Low
  <2>. HIDE DEF c, h
  <2>. QED
    <3>1. (a * h) % (h * h) = (a % h) * h
      BY <1>1, Scaled
    <3>2. a % h \in Int
      BY <1>1, DivMod
    <3>. QED
      BY <2>1, <3>1, <3>2
<1>. HIDE DEF c, h
<1>3. ASSUME n < HALF
      PROVE  (c * h) \div 2^n = c * 2^(HALF - n)
  <2>. DEFINE d == 2^n
              k == 2^(HALF - n)
  <2>1. n \in 0..HALF /\ HALF - n \in 0..XLEN /\ n \in 0..XLEN
    BY <1>3 DEF WidthAssumption
  <2>2. d \in Nat \ {0} /\ k \in Nat \ {0} /\ h = d * k
    BY <2>1 DEF PowersOf2, h
  <2>. HIDE DEF d, k
  <2>3. c * h = (c * k) * d /\ c * k \in Int
    BY <1>2, <2>2
  <2>4. ((c * k) * d) \div d = c * k
    BY <2>2, <2>3, DivScaled
  <2>. QED
    BY <2>3, <2>4 DEF d, k
<1>4. ASSUME n >= HALF
      PROVE  (c * h) \div 2^n = c \div 2^(n - HALF)
  <2>. DEFINE d == 2^n
              k == 2^(n - HALF)
  <2>1. n - HALF \in 0..HALF /\ n - HALF \in 0..XLEN /\ n = HALF + (n - HALF)
    BY <1>4 DEF WidthAssumption
  <2>2. k \in Nat \ {0} /\ d = h * k
    BY <2>1 DEF PowersOf2, h
  <2>. HIDE DEF d, k
  <2>3. d = k * h
    BY <1>1, <2>2
  <2>4. (c * h) \div (k * h) = c \div k
    BY <1>1, <1>2, <2>2, Scaled
  <2>. QED
    BY <2>3, <2>4 DEF d, k
<1>. QED
  BY <1>2, <1>3, <1>4 DEF c, h

-----------------------------------------------------------------------------
(* The machine. *)

IsMachine(m) ==
    /\ m = [regs |-> m.regs, mem |-> m.mem]
    /\ m.regs \in [Regs -> Word] /\ m.regs[x0] = 0
    /\ \A a \in DOMAIN m.mem : m.mem[a] \in Word

IsInstr(e) ==
    /\ e.mnem \in Mnemonics
    /\ e.rs1 \in Regs /\ e.rs2 \in Regs /\ e.rd \in Regs
    /\ e.addr \in Int /\ e.imm \in Int
    /\ e.mnem \in {"SLLI", "SRLI"} => e.imm \in 0..XLEN - 1

Arithmetic == FusionAssumption /\ WidthAssumption /\ PowersOf2 /\ BitFacts

LEMMA GetType ==
    ASSUME Arithmetic, NEW m, IsMachine(m), NEW r \in Regs
    PROVE  Get(m, r) \in Word /\ Get(m, r) \in Int /\ Get(m, r) = m.regs[r]
<1>1. m.regs[r] \in Word /\ m.regs[x0] = 0
  BY DEF IsMachine
<1>2. m.regs[r] \in Int
  BY <1>1, Powers DEF Arithmetic, Word
<1>. QED
  BY <1>1, <1>2 DEF Get

LEMMA PutType ==
    ASSUME Arithmetic, NEW m, IsMachine(m), NEW r \in Regs, NEW v \in Int
    PROVE  /\ IsMachine(Put(m, r, v))
           /\ r # x0 => Get(Put(m, r, v), r) = W(v)
           /\ r = x0 => Get(Put(m, r, v), r) = 0
           /\ \A a : Load(Put(m, r, v), a) = Load(m, a)
<1>1. CASE r = x0
  BY <1>1 DEF Put, Get
<1>2. CASE r # x0
  <2>. DEFINE n == Put(m, r, v)
  <2>1. W(v) \in Word
    BY WordType DEF Arithmetic
  <2>2. n = [regs |-> [m.regs EXCEPT ![r] = W(v)], mem |-> m.mem]
    BY <1>2 DEF Put, IsMachine
  <2>. HIDE DEF n
  <2>3. n.regs = [m.regs EXCEPT ![r] = W(v)] /\ n.mem = m.mem
    BY <2>2
  <2>4. n.regs \in [Regs -> Word] /\ n.regs[x0] = 0 /\ n.regs[r] = W(v)
    BY <1>2, <2>1, <2>3 DEF IsMachine, Arithmetic, FusionAssumption
  <2>5. IsMachine(n)
    BY <2>2, <2>3, <2>4 DEF IsMachine
  <2>6. \A a : Load(n, a) = Load(m, a)
    BY <2>3 DEF Load
  <2>. QED
    BY <1>2, <2>4, <2>5, <2>6 DEF Get, n
<1>. QED
  BY <1>1, <1>2

\* The second of two values written to a register is the one that stays.
LEMMA PutTwice ==
    ASSUME NEW m, IsMachine(m), NEW r \in Regs, NEW u, NEW v
    PROVE  Put(Put(m, r, u), r, v) = Put(m, r, v)
<1>1. CASE r = x0
  BY <1>1 DEF Put
<1>2. CASE r # x0
  <2>. DEFINE n == Put(m, r, u)
  <2>1. n = [regs |-> [m.regs EXCEPT ![r] = W(u)], mem |-> m.mem]
    BY <1>2 DEF Put, IsMachine
  <2>. HIDE DEF n
  <2>2. Put(n, r, v) = [regs |-> [n.regs EXCEPT ![r] = W(v)], mem |-> m.mem]
    BY <1>2, <2>1 DEF Put
  <2>3. Put(m, r, v) = [regs |-> [m.regs EXCEPT ![r] = W(v)], mem |-> m.mem]
    BY <1>2 DEF Put, IsMachine
  <2>4. [n.regs EXCEPT ![r] = W(v)] = [m.regs EXCEPT ![r] = W(v)]
    BY <2>1 DEF IsMachine
  <2>. QED
    BY <2>2, <2>3, <2>4 DEF n
<1>. QED
  BY <1>1, <1>2

LEMMA PutEqual ==
    ASSUME NEW m, NEW r, NEW u, NEW v, W(u) = W(v)
    PROVE  Put(m, r, u) = Put(m, r, v)
BY DEF Put

LEMMA LoadType ==
    ASSUME Arithmetic, NEW m, IsMachine(m), NEW a \in Int
    PROVE  Load(m, a) \in Word /\ Load(m, a) \in Int
<1>1. W(a) \in Word /\ Word \subseteq Nat
  BY WordType DEF Arithmetic
<1>. QED
  BY <1>1 DEF Load, IsMachine

LEMMA StoreLowType ==
    ASSUME Arithmetic, NEW m, IsMachine(m), NEW a \in Int, NEW v \in Int
    PROVE  IsMachine(StoreLow(m, a, v))
<1>. DEFINE h == 2^HALF
            x == Load(m, a)
            w == High(x) * h + Low(v)
            n == StoreLow(m, a, v)
<1>1. h \in Nat \ {0} /\ Word = 0..(h * h) - 1
  BY Powers DEF Word, Arithmetic
<1>2. x \in 0..(h * h) - 1 /\ x \in Int
  BY <1>1, LoadType
<1>3. High(x) = x \div h /\ Low(v) \in 0..h - 1
  BY WordType DEF High, Arithmetic
<1>. HIDE DEF h, x
<1>4. w \in Word
  <2>. DEFINE q == x \div h
              r == x % h
  <2>1. x = (h * q) + r /\ q \in Int /\ r \in 0..h - 1
    BY <1>1, <1>2, DivMod
  <2>. HIDE DEF q, r
  <2>2. q >= 0 /\ q <= h - 1
    <3>1. CASE q < 0
      <4>1. h * q <= h * (-1)
        BY <3>1, <1>1, <2>1
      <4>. QED
        BY <4>1, <1>1, <1>2, <2>1
    <3>2. CASE q > h - 1
      <4>1. h * q >= h * h
        BY <3>2, <1>1, <2>1
      <4>. QED
        BY <4>1, <1>1, <1>2, <2>1
    <3>. QED
      BY <3>1, <3>2, <1>1, <2>1
  <2>3. q * h <= (h * h) - h /\ q * h >= 0 /\ q * h \in Int
    BY <1>1, <2>1, <2>2
  <2>4. w = (q * h) + Low(v)
    BY <1>3 DEF q
  <2>. HIDE DEF w
  <2>. QED
    BY <1>1, <1>3, <2>3, <2>4
<1>5. n = [m EXCEPT !.mem = [b \in DOMAIN @ \cup {W(a)} |-> IF b = W(a) THEN w ELSE @[b]]]
  BY DEF StoreLow, Store, h, x
<1>. HIDE DEF w, n
<1>6. n = [regs |-> m.regs,
           mem |-> [b \in DOMAIN m.mem \cup {W(a)} |-> IF b = W(a) THEN w ELSE m.mem[b]]]
  BY <1>5 DEF IsMachine
<1>. QED
  BY <1>4, <1>6 DEF IsMachine, n

LEMMA ExecuteType ==
    ASSUME Arithmetic, NEW m, IsMachine(m), NEW e, IsInstr(e)
    PROVE  IsMachine(Execute(m, e))
<1>. DEFINE s1 == Get(m, e.rs1)
            s2 == Get(m, e.rs2)
<1>1. s1 \in Word /\ s2 \in Word /\ s1 \in Int /\ s2 \in Int
  BY GetType DEF IsInstr
<1>2. e.rd \in Regs /\ e.imm \in Int /\ e.addr \in Int
  BY DEF IsInstr
<1>3. W(e.imm) \in Word
  BY <1>2, WordType DEF Arithmetic
<1>4. \A v \in Int : Sext(v) \in Int
  <2>. SUFFICES ASSUME NEW v \in Int PROVE Sext(v) \in Int
    OBVIOUS
  <2>1. Sext(v) \in Word
    BY WordType DEF Arithmetic
  <2>. QED
    BY <2>1, Powers DEF Word, Arithmetic
<1>5. \A v \in Int : Load(m, v) \in Word /\ Load(m, v) \in Int
  BY LoadType
<1>6. Word \subseteq Int
  BY Powers DEF Word, Arithmetic
<1>7. \A b : If(b) \in Int
  BY DEF If
<1>. HIDE DEF s1, s2
<1>8. CASE e.mnem \in {"LUI", "AUIPC", "ADDI", "ADDIW"}
  <2>1. \/ Execute(m, e) = Put(m, e.rd, e.imm)
        \/ Execute(m, e) = Put(m, e.rd, e.addr + e.imm)
        \/ Execute(m, e) = Put(m, e.rd, s1 + e.imm)
        \/ Execute(m, e) = Put(m, e.rd, Sext(s1 + e.imm))
    BY <1>8 DEF Execute, s1
  <2>. QED
    BY <2>1, <1>1, <1>2, <1>4, PutType
<1>9. CASE e.mnem \in {"SLLI", "SRLI"}
  <2>1. 2^(e.imm) \in Nat \ {0}
    BY <1>9 DEF IsInstr, Arithmetic, PowersOf2
  <2>2. s1 * 2^(e.imm) \in Int /\ s1 \div 2^(e.imm) \in Int
    BY <1>1, <2>1, DivMod
  <2>3. \/ Execute(m, e) = Put(m, e.rd, s1 * 2^(e.imm))
        \/ Execute(m, e) = Put(m, e.rd, s1 \div 2^(e.imm))
    BY <1>9 DEF Execute, s1
  <2>. QED
    BY <2>2, <2>3, <1>2, PutType
<1>10. CASE e.mnem \in {"ANDI", "XORI"}
  <2>1. And(s1, W(e.imm)) \in Int /\ Xor(s1, W(e.imm)) \in Int
    BY <1>1, <1>3, <1>6 DEF Arithmetic, BitFacts
  <2>2. \/ Execute(m, e) = Put(m, e.rd, And(s1, W(e.imm)))
        \/ Execute(m, e) = Put(m, e.rd, Xor(s1, W(e.imm)))
    BY <1>10 DEF Execute, s1
  <2>. QED
    BY <2>1, <2>2, <1>2, PutType
<1>11. CASE e.mnem \in {"SLTIU", "SLT", "SLTU"}
  <2>1. \E b : Execute(m, e) = Put(m, e.rd, If(b))
    BY <1>11 DEF Execute
  <2>. QED
    BY <2>1, <1>2, <1>7, PutType
<1>12. CASE e.mnem \in {"SUB", "SUBW"}
  <2>1. \/ Execute(m, e) = Put(m, e.rd, s1 - s2)
        \/ Execute(m, e) = Put(m, e.rd, Sext(s1 - s2))
    BY <1>12 DEF Execute, s1, s2
  <2>. QED
    BY <2>1, <1>1, <1>2, <1>4, PutType
<1>13. CASE e.mnem \in {"LW", "LD"}
  <2>1. \/ Execute(m, e) = Put(m, e.rd, Sext(Load(m, s1 + e.imm)))
        \/ Execute(m, e) = Put(m, e.rd, Load(m, s1 + e.imm))
    BY <1>13 DEF Execute, s1
  <2>2. s1 + e.imm \in Int
    BY <1>1, <1>2
  <2>3. Load(m, s1 + e.imm) \in Int /\ Sext(Load(m, s1 + e.imm)) \in Int
    BY <2>2, <1>5, <1>4
  <2>. QED
    BY <2>1, <2>3, <1>2, PutType
<1>14. CASE e.mnem = "SW"
  <2>1. Execute(m, e) = StoreLow(m, s1 + e.imm, s2)
    BY <1>14 DEF Execute, s1, s2
  <2>. QED
    BY <2>1, <1>1, <1>2, StoreLowType
<1>15. CASE e.mnem = "END"
  BY <1>15 DEF Execute
<1>. QED
  BY <1>8, <1>9, <1>10, <1>11, <1>12, <1>13, <1>14, <1>15 DEF IsInstr, Mnemonics

-----------------------------------------------------------------------------
(* The code of each pattern does what its instructions do: b is the first *)
(* of them, c and d are those behind it.                                   *)

\* AUIPC and ADDI, LUI and ADDI: the sum of two immediates.
LEMMA SumOfTwo ==
    ASSUME Arithmetic, NEW m, IsMachine(m), NEW r \in Regs, NEW u \in Int, NEW v \in Int
    PROVE  Put(m, r, u + v) = Put(Put(m, r, u), r, Get(Put(m, r, u), r) + v)
<1>. DEFINE n == Put(m, r, u)
<1>1. CASE r = x0
  BY <1>1 DEF Put
<1>2. CASE r # x0
  <2>1. Get(n, r) = W(u)
    BY <1>2, PutType
  <2>2. W(W(u) + v) = W(u + v)
    BY WordSum DEF Arithmetic
  <2>. HIDE DEF n
  <2>3. Put(n, r, Get(n, r) + v) = Put(n, r, u + v)
    BY <2>1, <2>2, PutEqual
  <2>4. Put(n, r, u + v) = Put(m, r, u + v)
    BY PutTwice DEF n
  <2>. QED
    BY <2>3, <2>4 DEF n
<1>. QED
  BY <1>1, <1>2

\* AUIPC and a load: the address is a sum, what is loaded replaces it.
LEMMA LoadOfSum ==
    ASSUME Arithmetic, NEW m, IsMachine(m), NEW r \in Regs, NEW u \in Int, NEW v \in Int
    PROVE  r # x0 => Load(Put(m, r, u), Get(Put(m, r, u), r) + v) = Load(m, u + v)
<1>. SUFFICES ASSUME r # x0
              PROVE  Load(Put(m, r, u), Get(Put(m, r, u), r) + v) = Load(m, u + v)
  OBVIOUS
<1>. DEFINE n == Put(m, r, u)
<1>1. Get(n, r) = W(u) /\ \A a : Load(n, a) = Load(m, a)
  BY PutType
<1>2. W(W(u) + v) = W(u + v)
  BY WordSum DEF Arithmetic
<1>. HIDE DEF n
<1>3. Load(m, W(u) + v) = Load(m, u + v)
  BY <1>2 DEF Load
<1>. QED
  BY <1>1, <1>3 DEF n

\* SLLI by half a word and SRLI, with what SRLI leaves.
LEMMA ShiftPair ==
    ASSUME Arithmetic, NEW m, IsMachine(m), NEW r \in Regs, NEW a \in Int,
           NEW n \in 0..XLEN - 1
    PROVE  LET p == Put(m, r, a * 2^HALF)
               v == IF n < HALF THEN Low(a) * 2^(HALF - n) ELSE Low(a) \div 2^(n - HALF)
           IN  Put(p, r, Get(p, r) \div 2^n) = Put(m, r, v)
<1>. DEFINE p == Put(m, r, a * 2^HALF)
            v == IF n < HALF THEN Low(a) * 2^(HALF - n) ELSE Low(a) \div 2^(n - HALF)
<1>1. CASE r = x0
  BY <1>1 DEF Put
<1>2. CASE r # x0
  <2>1. a * 2^HALF \in Int
    BY Powers DEF Arithmetic
  <2>2. Get(p, r) = W(a * 2^HALF)
    BY <1>2, <2>1, PutType
  <2>3. W(a * 2^HALF) \div 2^n = v
    BY ShiftedBack DEF Arithmetic, WidthAssumption
  <2>4. Put(p, r, v) = Put(m, r, v)
    BY PutTwice
  <2>. HIDE DEF p, v
  <2>. QED
    BY <2>2, <2>3, <2>4 DEF p, v
<1>. QED
  BY <1>1, <1>2

LEMMA SameP3 ==
    ASSUME Arithmetic, NEW m, IsMachine(m), NEW b, IsInstr(b), NEW c, IsInstr(c),
           b.mnem = "AUIPC", c.mnem = "ADDI", c.rs1 = b.rd, c.rd = b.rd
    PROVE  Put(m, c.rd, b.addr + b.imm + c.imm) = Execute(Execute(m, b), c)
<1>. DEFINE n == Put(m, b.rd, b.addr + b.imm)
<1>1. Execute(m, b) = n
  BY DEF Execute
<1>2. Execute(n, c) = Put(n, b.rd, Get(n, b.rd) + c.imm)
  BY DEF Execute
<1>3. b.rd \in Regs /\ b.addr + b.imm \in Int /\ c.imm \in Int
  BY DEF IsInstr
<1>. QED
  BY <1>1, <1>2, <1>3, SumOfTwo

LEMMA SameP4 ==
    ASSUME Arithmetic, NEW m, IsMachine(m), NEW b, IsInstr(b), NEW c, IsInstr(c),
           b.mnem = "AUIPC", c.mnem = "LW", c.rs1 = b.rd, c.rd = b.rd
    PROVE  Put(m, c.rd, Sext(Load(m, b.addr + b.imm + c.imm))) = Execute(Execute(m, b), c)
<1>. DEFINE n == Put(m, b.rd, b.addr + b.imm)
            a == b.addr + b.imm + c.imm
<1>1. Execute(m, b) = n
  BY DEF Execute
<1>2. Execute(n, c) = Put(n, b.rd, Sext(Load(n, Get(n, b.rd) + c.imm)))
  BY DEF Execute
<1>3. b.rd \in Regs /\ b.addr + b.imm \in Int /\ c.imm \in Int
  BY DEF IsInstr
<1>4. CASE b.rd = x0
  BY <1>1, <1>2, <1>4 DEF Put
<1>5. CASE b.rd # x0
  <2>1. Load(n, Get(n, b.rd) + c.imm) = Load(m, a)
    BY <1>3, <1>5, LoadOfSum
  <2>2. Put(n, b.rd, Sext(Load(m, a))) = Put(m, b.rd, Sext(Load(m, a)))
    BY <1>3, PutTwice
  <2>. HIDE DEF n, a
  <2>. QED
    BY <1>1, <1>2, <2>1, <2>2 DEF a
<1>. QED
  BY <1>4, <1>5

LEMMA SameP5 ==
    ASSUME Arithmetic, NEW m, IsMachine(m), NEW b, IsInstr(b), NEW c, IsInstr(c),
           b.mnem = "AUIPC", c.mnem = "LD", c.rs1 = b.rd, c.rd = b.rd
    PROVE  Put(m, c.rd, Load(m, b.addr + b.imm + c.imm)) = Execute(Execute(m, b), c)
<1>. DEFINE n == Put(m, b.rd, b.addr + b.imm)
            a == b.addr + b.imm + c.imm
<1>1. Execute(m, b) = n
  BY DEF Execute
<1>2. Execute(n, c) = Put(n, b.rd, Load(n, Get(n, b.rd) + c.imm))
  BY DEF Execute
<1>3. b.rd \in Regs /\ b.addr + b.imm \in Int /\ c.imm \in Int
  BY DEF IsInstr
<1>4. CASE b.rd = x0
  BY <1>1, <1>2, <1>4 DEF Put
<1>5. CASE b.rd # x0
  <2>1. Load(n, Get(n, b.rd) + c.imm) = Load(m, a)
    BY <1>3, <1>5, LoadOfSum
  <2>2. Put(n, b.rd, Load(m, a)) = Put(m, b.rd, Load(m, a))
    BY <1>3, PutTwice
  <2>. HIDE DEF n, a
  <2>. QED
    BY <1>1, <1>2, <2>1, <2>2 DEF a
<1>. QED
  BY <1>4, <1>5

LEMMA SameP19 ==
    ASSUME Arithmetic, NEW m, IsMachine(m), NEW b, IsInstr(b), NEW c, IsInstr(c),
           b.mnem = "LUI", c.mnem = "ADDI", c.rs1 = b.rd, c.rd = b.rd
    PROVE  Put(m, b.rd, b.imm + c.imm) = Execute(Execute(m, b), c)
<1>. DEFINE n == Put(m, b.rd, b.imm)
<1>1. Execute(m, b) = n
  BY DEF Execute
<1>2. Execute(n, c) = Put(n, b.rd, Get(n, b.rd) + c.imm)
  BY DEF Execute
<1>3. b.rd \in Regs /\ b.imm \in Int /\ c.imm \in Int
  BY DEF IsInstr
<1>. QED
  BY <1>1, <1>2, <1>3, SumOfTwo

LEMMA SameP21 ==
    ASSUME Arithmetic, NEW m, IsMachine(m), NEW b, IsInstr(b), NEW c, IsInstr(c),
           b.mnem = "SLLI", b.imm = HALF, c.mnem = "SRLI", c.rs1 = b.rd, c.rd = b.rd
    PROVE  LET v == Low(Get(m, b.rs1))
           IN  Put(m, b.rd, IF c.imm < HALF THEN v * 2^(HALF - c.imm)
                                            ELSE v \div 2^(c.imm - HALF))
               = Execute(Execute(m, b), c)
<1>. DEFINE n == Put(m, b.rd, Get(m, b.rs1) * 2^HALF)
<1>1. Execute(m, b) = n
  BY DEF Execute
<1>2. Execute(n, c) = Put(n, b.rd, Get(n, b.rd) \div 2^c.imm)
  BY DEF Execute
<1>3. b.rd \in Regs /\ Get(m, b.rs1) \in Int /\ c.imm \in 0..XLEN - 1
  BY GetType DEF IsInstr
<1>. QED
  BY <1>1, <1>2, <1>3, ShiftPair

LEMMA SameP6 ==
    ASSUME Arithmetic, NEW m, IsMachine(m), NEW b, IsInstr(b), NEW c, IsInstr(c),
           b.mnem = "SLLI", b.imm = HALF, c.mnem = "SRLI", c.rs1 = b.rd, c.rd = b.rd,
           c.imm = HALF
    PROVE  Put(m, c.rd, Low(Get(m, b.rs1))) = Execute(Execute(m, b), c)
<1>. DEFINE v == Low(Get(m, b.rs1))
<1>1. Put(m, b.rd, v \div 2^(HALF - HALF)) = Execute(Execute(m, b), c)
  <2>1. ~(c.imm < HALF)
    BY DEF Arithmetic, WidthAssumption
  <2>. QED
    BY <2>1, SameP21
<1>2. v \div 2^(HALF - HALF) = v
  <2>. DEFINE h == 2^HALF
              o == 2^(HALF - HALF)
  <2>1. HALF \in 0..HALF /\ HALF - HALF \in 0..XLEN
    BY DEF Arithmetic, WidthAssumption
  <2>2. h \in Nat \ {0} /\ o \in Nat /\ h * o = h
    BY <2>1, Powers DEF Arithmetic, PowersOf2
  <2>3. v \in Int
    BY GetType, WordType DEF Arithmetic, IsInstr
  <2>. HIDE DEF h, o, v
  <2>4. o = 1
    BY <2>2
  <2>5. v \div 1 = v
    BY <2>3
  <2>. QED
    BY <2>4, <2>5 DEF o
<1>. QED
  BY <1>1, <1>2

LEMMA SameP7 ==
    ASSUME Arithmetic, NEW m, IsMachine(m), NEW b, IsInstr(b), NEW c, IsInstr(c),
           NEW d, IsInstr(d), b.mnem = "ADDIW",
           c.mnem = "SLLI", c.imm = HALF, c.rs1 = b.rd, c.rd = b.rd,
           d.mnem = "SRLI", d.imm = HALF, d.rs1 = b.rd, d.rd = b.rd
    PROVE  Put(m, b.rd, Low(Get(m, b.rs1) + b.imm)) = Execute(Execute(Execute(m, b), c), d)
<1>. DEFINE x == Get(m, b.rs1) + b.imm
            n == Put(m, b.rd, Sext(x))
<1>1. x \in Int /\ b.rd \in Regs
  BY GetType DEF IsInstr
<1>2. Sext(x) \in Word /\ Sext(x) \in Int /\ W(Sext(x)) = Sext(x) /\ Low(Sext(x)) = Low(x)
  <2>1. Sext(x) \in Word /\ Low(Sext(x)) = Low(x)
    BY <1>1, WordType, LowSext DEF Arithmetic
  <2>2. Sext(x) \in Int
    BY <2>1, Powers DEF Word, Arithmetic
  <2>. QED
    BY <2>1, <2>2, WordType DEF Arithmetic
<1>3. Execute(m, b) = n
  BY DEF Execute
<1>4. IsMachine(n)
  BY <1>1, <1>2, PutType
<1>5. Execute(Execute(n, c), d) = Put(n, b.rd, Low(Get(n, b.rd)))
  BY <1>4, SameP6
<1>6. Put(n, b.rd, Low(Get(n, b.rd))) = Put(m, b.rd, Low(x))
  <2>1. CASE b.rd = x0
    BY <2>1 DEF Put
  <2>2. CASE b.rd # x0
    <3>1. Get(n, b.rd) = Sext(x)
      BY <2>2, <1>1, <1>2, PutType
    <3>2. Put(n, b.rd, Low(x)) = Put(m, b.rd, Low(x))
      BY <1>1, PutTwice
    <3>. HIDE DEF n, x
    <3>. QED
      BY <3>1, <3>2, <1>2
  <2>. QED
    BY <2>1, <2>2
<1>. QED
  BY <1>3, <1>5, <1>6

LEMMA ByteMask ==
    ASSUME Arithmetic
    PROVE  /\ W(FF) = FF
           /\ \A x \in Int : Sext(x) % 2^BYTE = Low(x) % 2^BYTE
           /\ \A x \in Word : And(x, FF) = x % 2^BYTE
<1>. DEFINE o == 2^BYTE
            g == 2^(HALF - BYTE)
            h == 2^HALF
<1>1. BYTE \in 0..HALF /\ BYTE \in 0..XLEN /\ HALF - BYTE \in 0..XLEN
  BY DEF Arithmetic, FusionAssumption, WidthAssumption
<1>2. o \in Nat \ {0} /\ g \in Nat \ {0} /\ h = o * g /\ h \in Nat \ {0} /\ 2^XLEN = h * h
  BY <1>1, Powers DEF PowersOf2, Arithmetic
<1>3. W(FF) = FF
  <2>. HIDE DEF o, g, h
  <2>1. o <= h
    BY <1>2
  <2>2. h <= h * h
    BY <1>2
  <2>3. o - 1 \in 0..(h * h) - 1
    BY <1>2, <2>1, <2>2
  <2>4. FF \in Word /\ FF \in Int
    BY <1>2, <2>3 DEF FF, Word, o
  <2>. QED
    BY <2>4, WordType DEF Arithmetic
<1>4. ASSUME NEW x \in Int
      PROVE  Sext(x) % o = Low(x) % o
  <2>1. Sext(x) \in Int /\ Low(Sext(x)) = Low(x)
    <3>1. Sext(x) \in Word
      BY WordType DEF Arithmetic
    <3>. QED
      BY <3>1, Powers, LowSext DEF Word, Arithmetic
  <2>. DEFINE y == Sext(x)
  <2>. HIDE DEF y, o, g, h
  <2>2. (y % (o * g)) % o = y % o
    BY <1>2, <2>1, ModTwice DEF y
  <2>3. Low(y) = y % (o * g)
    BY <1>2 DEF Low, h
  <2>. QED
    BY <2>1, <2>2, <2>3 DEF y
<1>. QED
  BY <1>3, <1>4 DEF Arithmetic, BitFacts, FF

LEMMA SameP23 ==
    ASSUME Arithmetic, NEW m, IsMachine(m), NEW b, IsInstr(b), NEW c, IsInstr(c),
           b.mnem = "ADDIW", c.mnem = "ANDI", c.imm = FF, c.rs1 = b.rd, c.rd = b.rd
    PROVE  Put(m, b.rd, Low(Get(m, b.rs1) + b.imm) % 2^BYTE) = Execute(Execute(m, b), c)
<1>. DEFINE x == Get(m, b.rs1) + b.imm
            n == Put(m, b.rd, Sext(x))
<1>1. x \in Int /\ b.rd \in Regs
  BY GetType DEF IsInstr
<1>2. Sext(x) \in Word /\ Sext(x) \in Int /\ W(Sext(x)) = Sext(x)
  <2>1. Sext(x) \in Word
    BY <1>1, WordType DEF Arithmetic
  <2>2. Sext(x) \in Int
    BY <2>1, Powers DEF Word, Arithmetic
  <2>. QED
    BY <2>1, <2>2, WordType DEF Arithmetic
<1>3. Execute(m, b) = n
  BY DEF Execute
<1>4. Execute(n, c) = Put(n, b.rd, And(Get(n, b.rd), FF))
  BY ByteMask DEF Execute
<1>5. CASE b.rd = x0
  BY <1>3, <1>4, <1>5 DEF Put
<1>6. CASE b.rd # x0
  <2>1. Get(n, b.rd) = Sext(x)
    BY <1>6, <1>1, <1>2, PutType
  <2>2. And(Sext(x), FF) = Low(x) % 2^BYTE
    BY <1>1, <1>2, ByteMask
  <2>3. Put(n, b.rd, Low(x) % 2^BYTE) = Put(m, b.rd, Low(x) % 2^BYTE)
    BY <1>1, PutTwice
  <2>. HIDE DEF n, x
  <2>4. Execute(Execute(m, b), c) = Put(m, b.rd, Low(x) % 2^BYTE)
    BY <1>3, <1>4, <2>1, <2>2, <2>3
  <2>. QED
    BY <2>4 DEF x
<1>. QED
  BY <1>5, <1>6

LEMMA SameSEXTW ==
    ASSUME Arithmetic, NEW m, IsMachine(m), NEW b, IsInstr(b),
           b.mnem = "ADDIW", b.imm = 0, b.rd # x0
    PROVE  [m EXCEPT !.regs[b.rd] = Sext(m.regs[b.rs1])] = Execute(m, b)
<1>. DEFINE x == Get(m, b.rs1)
<1>1. x \in Int /\ x = m.regs[b.rs1] /\ x + b.imm = x
  BY GetType DEF IsInstr
<1>2. Execute(m, b) = Put(m, b.rd, Sext(x + b.imm))
  BY DEF Execute
<1>3. W(Sext(x)) = Sext(x)
  <2>1. Sext(x) \in Word
    BY <1>1, WordType DEF Arithmetic
  <2>2. Sext(x) \in Int
    BY <2>1, Powers DEF Word, Arithmetic
  <2>. QED
    BY <2>1, <2>2, WordType DEF Arithmetic
<1>. HIDE DEF x
<1>. QED
  BY <1>1, <1>2, <1>3 DEF Put

LEMMA SameZEXTB ==
    ASSUME Arithmetic, NEW m, IsMachine(m), NEW b, IsInstr(b), b.mnem = "ANDI", b.imm = FF
    PROVE  Put(m, b.rd, Get(m, b.rs1) % 2^BYTE) = Execute(m, b)
<1>1. Get(m, b.rs1) \in Word
  BY GetType DEF IsInstr
<1>. QED
  BY <1>1, ByteMask DEF Execute

LEMMA SameNOT ==
    ASSUME Arithmetic, NEW m, IsMachine(m), NEW b, IsInstr(b), b.mnem = "XORI", b.imm = -1
    PROVE  Put(m, b.rd, 2^XLEN - 1 - Get(m, b.rs1)) = Execute(m, b)
<1>1. Get(m, b.rs1) \in Word
  BY GetType DEF IsInstr
<1>2. W(-1) = 2^XLEN - 1
  <2>. DEFINE n == 2^XLEN
              v == -1
  <2>1. n \in Nat \ {0}
    BY Powers DEF Arithmetic
  <2>. HIDE DEF n
  <2>2. v = (n * (-1)) + (n - 1) /\ n - 1 \in 0..n - 1 /\ v \in Int /\ -1 \in Int
    BY <2>1
  <2>. HIDE DEF v
  <2>3. v % n = n - 1
    BY <2>1, <2>2, DivModUnique
  <2>. QED
    BY <2>3 DEF W, n, v
<1>3. Xor(Get(m, b.rs1), 2^XLEN - 1) = 2^XLEN - 1 - Get(m, b.rs1)
  BY <1>1 DEF Arithmetic, BitFacts
<1>. QED
  BY <1>2, <1>3 DEF Execute

\* The patterns of one instruction that have an operand for a constant.
LEMMA SameMoves ==
    ASSUME Arithmetic, NEW m, IsMachine(m), NEW b, IsInstr(b)
    PROVE  /\ b.mnem = "ADDI" /\ b.imm = 0 => Put(m, b.rd, Get(m, b.rs1)) = Execute(m, b)
           /\ b.mnem = "ADDI" /\ b.rs1 = x0 => Put(m, b.rd, b.imm) = Execute(m, b)
           /\ b.mnem = "ADDI" /\ b.rd = x0 => m = Execute(m, b)
           /\ b.mnem = "SUB" /\ b.rs1 = x0 => Put(m, b.rd, 0 - Get(m, b.rs2)) = Execute(m, b)
           /\ b.mnem = "SUBW" /\ b.rs1 = x0
              => Put(m, b.rd, Sext(0 - Get(m, b.rs2))) = Execute(m, b)
<1>1. Get(m, b.rs1) \in Int /\ Get(m, x0) = 0 /\ b.imm \in Int
  BY GetType DEF Get, IsInstr
<1>2. ASSUME b.mnem = "ADDI", b.imm = 0
      PROVE  Put(m, b.rd, Get(m, b.rs1)) = Execute(m, b)
  <2>1. Get(m, b.rs1) + b.imm = Get(m, b.rs1)
    BY <1>1, <1>2
  <2>. QED
    BY <1>2, <2>1 DEF Execute
<1>3. ASSUME b.mnem = "ADDI", b.rs1 = x0
      PROVE  Put(m, b.rd, b.imm) = Execute(m, b)
  <2>1. Get(m, b.rs1) + b.imm = b.imm
    BY <1>1, <1>3
  <2>. QED
    BY <1>3, <2>1 DEF Execute
<1>4. ASSUME b.mnem = "ADDI", b.rd = x0
      PROVE  m = Execute(m, b)
  <2>1. Execute(m, b) = Put(m, x0, Get(m, b.rs1) + b.imm)
    BY <1>4 DEF Execute
  <2>. QED
    BY <2>1 DEF Put
<1>5. b.mnem = "SUB" /\ b.rs1 = x0 => Put(m, b.rd, 0 - Get(m, b.rs2)) = Execute(m, b)
  BY <1>1 DEF Execute
<1>6. b.mnem = "SUBW" /\ b.rs1 = x0 => Put(m, b.rd, Sext(0 - Get(m, b.rs2))) = Execute(m, b)
  BY <1>1 DEF Execute
<1>. QED
  BY <1>2, <1>3, <1>4, <1>5, <1>6

LEMMA SameTests ==
    ASSUME Arithmetic, NEW m, IsMachine(m), NEW b, IsInstr(b)
    PROVE  /\ b.mnem = "SLTIU" /\ b.imm = 1
              => Put(m, b.rd, If(Get(m, b.rs1) = 0)) = Execute(m, b)
           /\ b.mnem = "SLTU" /\ b.rs1 = x0
              => Put(m, b.rd, If(Get(m, b.rs2) # 0)) = Execute(m, b)
           /\ b.mnem = "SLT" /\ b.rs1 = x0
              => Put(m, b.rd, If(Signed(Get(m, b.rs2)) > 0)) = Execute(m, b)
<1>. DEFINE x == Get(m, b.rs1)
            y == Get(m, b.rs2)
            n == 2^XLEN
            o == 2^(XLEN - 1)
<1>1. n \in Nat /\ n > 1 /\ o \in Nat \ {0} /\ Word = 0..n - 1
  BY Powers DEF Word, Arithmetic
<1>2. x \in Nat /\ y \in Nat /\ Get(m, x0) = 0
  BY <1>1, GetType DEF IsInstr, Get
<1>3. W(1) = 1
  BY <1>1, WordType DEF Arithmetic
<1>4. (x < 1) <=> (x = 0)
  BY <1>2
<1>5. (0 < y) <=> (y # 0)
  BY <1>2
<1>6. Signed(0) = 0
  <2>. HIDE DEF n, o
  <2>1. 0 % n = 0
    <3>1. 0 = (n * 0) + 0 /\ 0 \in 0..n - 1 /\ n \in Nat \ {0}
      BY <1>1
    <3>. QED
      BY <3>1, DivModUnique
  <2>2. 0 < o
    BY <1>1
  <2>. QED
    BY <2>1, <2>2 DEF Signed, SignedOf, n, o
<1>7. Signed(y) \in Int
  <2>1. y % n \in Int
    BY <1>1, <1>2, DivMod
  <2>. QED
    BY <2>1, <1>1 DEF Signed, SignedOf
<1>8. (Signed(0) < Signed(y)) <=> (Signed(y) > 0)
  BY <1>6, <1>7
<1>. HIDE DEF x, y
<1>9. b.mnem = "SLTIU" /\ b.imm = 1 => Execute(m, b) = Put(m, b.rd, If(x < 1))
  BY <1>3 DEF Execute, x
<1>10. b.mnem = "SLTU" /\ b.rs1 = x0 => Execute(m, b) = Put(m, b.rd, If(0 < y))
  BY <1>2 DEF Execute, y
<1>11. b.mnem = "SLT" /\ b.rs1 = x0 => Execute(m, b) = Put(m, b.rd, If(Signed(0) < Signed(y)))
  BY <1>2 DEF Execute, y
<1>12. If(x < 1) = If(x = 0) /\ If(0 < y) = If(y # 0)
       /\ If(Signed(0) < Signed(y)) = If(Signed(y) > 0)
  BY <1>4, <1>5, <1>8 DEF If
<1>. QED
  BY <1>9, <1>10, <1>11, <1>12 DEF x, y

-----------------------------------------------------------------------------
(* Occurrences. *)

\* b is what the element e of a pattern at `at` asks for.
Asks(e, b, at) ==
    /\ b.mnem = e.mnem
    /\ RegAsked(e.rs1, b.rs1, at, e) /\ RegAsked(e.rs2, b.rs2, at, e)
    /\ RegAsked(e.rd, b.rd, at, e) /\ ImmAsked(b.imm, at, e)

LEMMA OccursAsks ==
    ASSUME NEW p \in 1..Len(patterns), NEW at \in Nat, DOMAIN block = Places, len \in Nat,
           Occurs(p, at), NEW k \in 0..PatternLen(p) - 1
    PROVE  at + k \in Places /\ Asks(Elements(p)[k + 1], block[at + k], at)
<1>1. PatternLen(p) \in 1..5 /\ at + PatternLen(p) <= len
  BY PatternLenType DEF Occurs
<1>2. at + k \in Places
  BY <1>1 DEF Places
<1>3. [l \in DOMAIN block |-> block[l].mnem][at + k] = block[at + k].mnem
  BY <1>2
<1>. QED
  BY <1>2, <1>3 DEF Occurs, Fits, Asks

LEMMA AsksAnyOf ==
    ASSUME NEW b, NEW at, NEW n, Asks(AnyOf(n), b, at)
    PROVE  b.mnem = n
BY DEF Asks, AnyOf, Element

LEMMA AsksAnyWith ==
    ASSUME NEW b, NEW at, NEW n, NEW v, Asks(AnyWith(n, v), b, at)
    PROVE  b.mnem = n /\ b.imm = v
BY DEF Asks, AnyWith, Element, ImmAsked

LEMMA AsksOnto ==
    ASSUME NEW b, NEW at, NEW n, NEW h, Asks(Onto(n, h), b, at)
    PROVE  b.mnem = n /\ b.rs1 = block[at + h].rd /\ b.rd = block[at + h].rd
BY DEF Asks, Onto, Element, RegAsked, DONT_CARE

LEMMA AsksOntoWith ==
    ASSUME NEW b, NEW at, NEW n, NEW h, NEW v, Asks(OntoWith(n, h, v), b, at)
    PROVE  /\ b.mnem = n /\ b.rs1 = block[at + h].rd /\ b.rd = block[at + h].rd
           /\ b.imm = v
BY DEF Asks, OntoWith, Element, RegAsked, ImmAsked, DONT_CARE

LEMMA AsksZero ==
    ASSUME Arithmetic, NEW b, NEW at, NEW n
    PROVE  /\ Asks(Zero1(n), b, at) => b.mnem = n /\ b.rs1 = x0
           /\ Asks(Zero2(n), b, at) => b.mnem = n /\ b.rs2 = x0
           /\ Asks(Element(n, x0, DONT_CARE, x0, 0, 0, 1, 0), b, at) => b.mnem = n /\ b.rd = x0
BY DEF Asks, Zero1, Zero2, Element, RegAsked, DONT_CARE, Arithmetic, FusionAssumption

LEMMA Table ==
    /\ Elements(3) = p_7_elem /\ Name(3) = "p7" /\ Elements(4) = p_3_elem /\ Name(4) = "p3"
    /\ Elements(5) = p_4_elem /\ Name(5) = "p4" /\ Elements(6) = p_5_elem /\ Name(6) = "p5"
    /\ Elements(7) = p_6_elem /\ Name(7) = "p6" /\ Elements(8) = p_21_elem /\ Name(8) = "p21"
    /\ Elements(9) = p_19_elem /\ Name(9) = "p19"
    /\ Elements(10) = p_23_elem /\ Name(10) = "p23"
    /\ Name(1) = "p2" /\ Name(2) = "p9"
BY DEF Elements, Name, patterns

LEMMA TableOfOne ==
    /\ Name(11) = "MV" /\ Elements(11) = <<AnyWith("ADDI", 0)>>
    /\ Name(12) = "small_LI" /\ Elements(12) = <<Zero1("ADDI")>>
    /\ Name(13) = "SEXTW" /\ Elements(13) = <<AnyWith("ADDIW", 0)>>
    /\ Name(14) = "ZEXTB" /\ Elements(14) = <<AnyWith("ANDI", FF)>>
    /\ Name(15) = "NOP" /\ Elements(15) = <<Element("ADDI", x0, DONT_CARE, x0, 0, 0, 1, 0)>>
    /\ Name(16) = "NOT" /\ Elements(16) = <<AnyWith("XORI", -1)>>
    /\ Name(17) = "NEG" /\ Elements(17) = <<Zero1("SUB")>>
    /\ Name(18) = "NEGW" /\ Elements(18) = <<Zero1("SUBW")>>
    /\ Name(19) = "SEQZ" /\ Elements(19) = <<AnyWith("SLTIU", 1)>>
    /\ Name(20) = "SNEZ" /\ Elements(20) = <<Zero1("SLTU")>>
    /\ Name(21) = "SLTZ" /\ Elements(21) = <<Zero2("SLT")>>
    /\ Name(22) = "SGTZ" /\ Elements(22) = <<Zero1("SLT")>>
BY DEF Elements, Name, patterns

\* The machine after n instructions from a on.
After(m, a, n) ==
    CASE n = 0 -> m
      [] n = 1 -> Execute(m, block[a])
      [] n = 2 -> Execute(Execute(m, block[a]), block[a + 1])
      [] n = 3 -> Execute(Execute(Execute(m, block[a]), block[a + 1]), block[a + 2])

LEMMA CodeP3 ==
    ASSUME Arithmetic, MarksType, NEW m, IsMachine(m), NEW at \in Nat, Occurs(4, at),
           \A k \in Places : IsInstr(block[k])
    PROVE  PatternLen(4) = 2 /\ Emit(Name(4), m, at) = After(m, at, 2)
<1>1. PatternLen(4) = 2
  BY Table DEF PatternLen, p_3_elem
<1>2. /\ at + 0 \in Places /\ Asks(AnyOf("AUIPC"), block[at + 0], at)
      /\ at + 1 \in Places /\ Asks(Onto("ADDI", 0), block[at + 1], at)
  <2>1. 4 \in 1..Len(patterns) /\ 0 \in 0..PatternLen(4) - 1 /\ 1 \in 0..PatternLen(4) - 1
    BY <1>1, PatternCount
  <2>2. Elements(4)[1] = AnyOf("AUIPC") /\ Elements(4)[2] = Onto("ADDI", 0)
    BY Table DEF p_3_elem
  <2>3. at + 0 \in Places /\ Asks(Elements(4)[0 + 1], block[at + 0], at)
    BY <2>1, OccursAsks DEF MarksType
  <2>4. at + 1 \in Places /\ Asks(Elements(4)[1 + 1], block[at + 1], at)
    BY <2>1, OccursAsks DEF MarksType
  <2>. QED
    BY <2>2, <2>3, <2>4
<1>3. at + 0 = at
  OBVIOUS
<1>4. IsInstr(block[at]) /\ IsInstr(block[at + 1])
  BY <1>2, <1>3
<1>5. /\ block[at].mnem = "AUIPC" /\ block[at + 1].mnem = "ADDI"
      /\ block[at + 1].rs1 = block[at].rd /\ block[at + 1].rd = block[at].rd
  BY <1>2, <1>3, AsksAnyOf, AsksAnyWith, AsksOnto, AsksOntoWith
<1>6. Emit(Name(4), m, at) = Execute(Execute(m, block[at]), block[at + 1])
  BY <1>4, <1>5, SameP3, Table DEF Emit, emit_pattern_3
<1>. QED
  BY <1>1, <1>6 DEF After

LEMMA CodeP4 ==
    ASSUME Arithmetic, MarksType, NEW m, IsMachine(m), NEW at \in Nat, Occurs(5, at),
           \A k \in Places : IsInstr(block[k])
    PROVE  PatternLen(5) = 2 /\ Emit(Name(5), m, at) = After(m, at, 2)
<1>1. PatternLen(5) = 2
  BY Table DEF PatternLen, p_4_elem
<1>2. /\ at + 0 \in Places /\ Asks(AnyOf("AUIPC"), block[at + 0], at)
      /\ at + 1 \in Places /\ Asks(Onto("LW", 0), block[at + 1], at)
  <2>1. 5 \in 1..Len(patterns) /\ 0 \in 0..PatternLen(5) - 1 /\ 1 \in 0..PatternLen(5) - 1
    BY <1>1, PatternCount
  <2>2. Elements(5)[1] = AnyOf("AUIPC") /\ Elements(5)[2] = Onto("LW", 0)
    BY Table DEF p_4_elem
  <2>3. at + 0 \in Places /\ Asks(Elements(5)[0 + 1], block[at + 0], at)
    BY <2>1, OccursAsks DEF MarksType
  <2>4. at + 1 \in Places /\ Asks(Elements(5)[1 + 1], block[at + 1], at)
    BY <2>1, OccursAsks DEF MarksType
  <2>. QED
    BY <2>2, <2>3, <2>4
<1>3. at + 0 = at
  OBVIOUS
<1>4. IsInstr(block[at]) /\ IsInstr(block[at + 1])
  BY <1>2, <1>3
<1>5. /\ block[at].mnem = "AUIPC" /\ block[at + 1].mnem = "LW"
      /\ block[at + 1].rs1 = block[at].rd /\ block[at + 1].rd = block[at].rd
  BY <1>2, <1>3, AsksAnyOf, AsksAnyWith, AsksOnto, AsksOntoWith
<1>6. Emit(Name(5), m, at) = Execute(Execute(m, block[at]), block[at + 1])
  BY <1>4, <1>5, SameP4, Table DEF Emit, emit_pattern_4, LoadAddress
<1>. QED
  BY <1>1, <1>6 DEF After

LEMMA CodeP5 ==
    ASSUME Arithmetic, MarksType, NEW m, IsMachine(m), NEW at \in Nat, Occurs(6, at),
           \A k \in Places : IsInstr(block[k])
    PROVE  PatternLen(6) = 2 /\ Emit(Name(6), m, at) = After(m, at, 2)
<1>1. PatternLen(6) = 2
  BY Table DEF PatternLen, p_5_elem
<1>2. /\ at + 0 \in Places /\ Asks(AnyOf("AUIPC"), block[at + 0], at)
      /\ at + 1 \in Places /\ Asks(Onto("LD", 0), block[at + 1], at)
  <2>1. 6 \in 1..Len(patterns) /\ 0 \in 0..PatternLen(6) - 1 /\ 1 \in 0..PatternLen(6) - 1
    BY <1>1, PatternCount
  <2>2. Elements(6)[1] = AnyOf("AUIPC") /\ Elements(6)[2] = Onto("LD", 0)
    BY Table DEF p_5_elem
  <2>3. at + 0 \in Places /\ Asks(Elements(6)[0 + 1], block[at + 0], at)
    BY <2>1, OccursAsks DEF MarksType
  <2>4. at + 1 \in Places /\ Asks(Elements(6)[1 + 1], block[at + 1], at)
    BY <2>1, OccursAsks DEF MarksType
  <2>. QED
    BY <2>2, <2>3, <2>4
<1>3. at + 0 = at
  OBVIOUS
<1>4. IsInstr(block[at]) /\ IsInstr(block[at + 1])
  BY <1>2, <1>3
<1>5. /\ block[at].mnem = "AUIPC" /\ block[at + 1].mnem = "LD"
      /\ block[at + 1].rs1 = block[at].rd /\ block[at + 1].rd = block[at].rd
  BY <1>2, <1>3, AsksAnyOf, AsksAnyWith, AsksOnto, AsksOntoWith
<1>6. Emit(Name(6), m, at) = Execute(Execute(m, block[at]), block[at + 1])
  BY <1>4, <1>5, SameP5, Table DEF Emit, emit_pattern_5, LoadAddress
<1>. QED
  BY <1>1, <1>6 DEF After

LEMMA CodeP6 ==
    ASSUME Arithmetic, MarksType, NEW m, IsMachine(m), NEW at \in Nat, Occurs(7, at),
           \A k \in Places : IsInstr(block[k])
    PROVE  PatternLen(7) = 2 /\ Emit(Name(7), m, at) = After(m, at, 2)
<1>1. PatternLen(7) = 2
  BY Table DEF PatternLen, p_6_elem
<1>2. /\ at + 0 \in Places /\ Asks(AnyWith("SLLI", HALF), block[at + 0], at)
      /\ at + 1 \in Places /\ Asks(OntoWith("SRLI", 0, HALF), block[at + 1], at)
  <2>1. 7 \in 1..Len(patterns) /\ 0 \in 0..PatternLen(7) - 1 /\ 1 \in 0..PatternLen(7) - 1
    BY <1>1, PatternCount
  <2>2. Elements(7)[1] = AnyWith("SLLI", HALF) /\ Elements(7)[2] = OntoWith("SRLI", 0, HALF)
    BY Table DEF p_6_elem
  <2>3. at + 0 \in Places /\ Asks(Elements(7)[0 + 1], block[at + 0], at)
    BY <2>1, OccursAsks DEF MarksType
  <2>4. at + 1 \in Places /\ Asks(Elements(7)[1 + 1], block[at + 1], at)
    BY <2>1, OccursAsks DEF MarksType
  <2>. QED
    BY <2>2, <2>3, <2>4
<1>3. at + 0 = at
  OBVIOUS
<1>4. IsInstr(block[at]) /\ IsInstr(block[at + 1])
  BY <1>2, <1>3
<1>5. /\ block[at].mnem = "SLLI" /\ block[at + 1].mnem = "SRLI"
      /\ block[at + 1].rs1 = block[at].rd /\ block[at + 1].rd = block[at].rd
      /\ block[at].imm = HALF
      /\ block[at + 1].imm = HALF
  BY <1>2, <1>3, AsksAnyOf, AsksAnyWith, AsksOnto, AsksOntoWith
<1>6. Emit(Name(7), m, at) = Execute(Execute(m, block[at]), block[at + 1])
  BY <1>4, <1>5, SameP6, Table DEF Emit, emit_pattern_6
<1>. QED
  BY <1>1, <1>6 DEF After

LEMMA CodeP21 ==
    ASSUME Arithmetic, MarksType, NEW m, IsMachine(m), NEW at \in Nat, Occurs(8, at),
           \A k \in Places : IsInstr(block[k])
    PROVE  PatternLen(8) = 2 /\ Emit(Name(8), m, at) = After(m, at, 2)
<1>1. PatternLen(8) = 2
  BY Table DEF PatternLen, p_21_elem
<1>2. /\ at + 0 \in Places /\ Asks(AnyWith("SLLI", HALF), block[at + 0], at)
      /\ at + 1 \in Places /\ Asks(Onto("SRLI", 0), block[at + 1], at)
  <2>1. 8 \in 1..Len(patterns) /\ 0 \in 0..PatternLen(8) - 1 /\ 1 \in 0..PatternLen(8) - 1
    BY <1>1, PatternCount
  <2>2. Elements(8)[1] = AnyWith("SLLI", HALF) /\ Elements(8)[2] = Onto("SRLI", 0)
    BY Table DEF p_21_elem
  <2>3. at + 0 \in Places /\ Asks(Elements(8)[0 + 1], block[at + 0], at)
    BY <2>1, OccursAsks DEF MarksType
  <2>4. at + 1 \in Places /\ Asks(Elements(8)[1 + 1], block[at + 1], at)
    BY <2>1, OccursAsks DEF MarksType
  <2>. QED
    BY <2>2, <2>3, <2>4
<1>3. at + 0 = at
  OBVIOUS
<1>4. IsInstr(block[at]) /\ IsInstr(block[at + 1])
  BY <1>2, <1>3
<1>5. /\ block[at].mnem = "SLLI" /\ block[at + 1].mnem = "SRLI"
      /\ block[at + 1].rs1 = block[at].rd /\ block[at + 1].rd = block[at].rd
      /\ block[at].imm = HALF
  BY <1>2, <1>3, AsksAnyOf, AsksAnyWith, AsksOnto, AsksOntoWith
<1>6. Emit(Name(8), m, at) = Execute(Execute(m, block[at]), block[at + 1])
  BY <1>4, <1>5, SameP21, Table DEF Emit, emit_pattern_21
<1>. QED
  BY <1>1, <1>6 DEF After

LEMMA CodeP19 ==
    ASSUME Arithmetic, MarksType, NEW m, IsMachine(m), NEW at \in Nat, Occurs(9, at),
           \A k \in Places : IsInstr(block[k])
    PROVE  PatternLen(9) = 2 /\ Emit(Name(9), m, at) = After(m, at, 2)
<1>1. PatternLen(9) = 2
  BY Table DEF PatternLen, p_19_elem
<1>2. /\ at + 0 \in Places /\ Asks(AnyOf("LUI"), block[at + 0], at)
      /\ at + 1 \in Places /\ Asks(Onto("ADDI", 0), block[at + 1], at)
  <2>1. 9 \in 1..Len(patterns) /\ 0 \in 0..PatternLen(9) - 1 /\ 1 \in 0..PatternLen(9) - 1
    BY <1>1, PatternCount
  <2>2. Elements(9)[1] = AnyOf("LUI") /\ Elements(9)[2] = Onto("ADDI", 0)
    BY Table DEF p_19_elem
  <2>3. at + 0 \in Places /\ Asks(Elements(9)[0 + 1], block[at + 0], at)
    BY <2>1, OccursAsks DEF MarksType
  <2>4. at + 1 \in Places /\ Asks(Elements(9)[1 + 1], block[at + 1], at)
    BY <2>1, OccursAsks DEF MarksType
  <2>. QED
    BY <2>2, <2>3, <2>4
<1>3. at + 0 = at
  OBVIOUS
<1>4. IsInstr(block[at]) /\ IsInstr(block[at + 1])
  BY <1>2, <1>3
<1>5. /\ block[at].mnem = "LUI" /\ block[at + 1].mnem = "ADDI"
      /\ block[at + 1].rs1 = block[at].rd /\ block[at + 1].rd = block[at].rd
  BY <1>2, <1>3, AsksAnyOf, AsksAnyWith, AsksOnto, AsksOntoWith
<1>6. Emit(Name(9), m, at) = Execute(Execute(m, block[at]), block[at + 1])
  BY <1>4, <1>5, SameP19, Table DEF Emit, emit_pattern_19_LI
<1>. QED
  BY <1>1, <1>6 DEF After

LEMMA CodeP23 ==
    ASSUME Arithmetic, MarksType, NEW m, IsMachine(m), NEW at \in Nat, Occurs(10, at),
           \A k \in Places : IsInstr(block[k])
    PROVE  PatternLen(10) = 2 /\ Emit(Name(10), m, at) = After(m, at, 2)
<1>1. PatternLen(10) = 2
  BY Table DEF PatternLen, p_23_elem
<1>2. /\ at + 0 \in Places /\ Asks(AnyOf("ADDIW"), block[at + 0], at)
      /\ at + 1 \in Places /\ Asks(OntoWith("ANDI", 0, FF), block[at + 1], at)
  <2>1. 10 \in 1..Len(patterns) /\ 0 \in 0..PatternLen(10) - 1 /\ 1 \in 0..PatternLen(10) - 1
    BY <1>1, PatternCount
  <2>2. Elements(10)[1] = AnyOf("ADDIW") /\ Elements(10)[2] = OntoWith("ANDI", 0, FF)
    BY Table DEF p_23_elem
  <2>3. at + 0 \in Places /\ Asks(Elements(10)[0 + 1], block[at + 0], at)
    BY <2>1, OccursAsks DEF MarksType
  <2>4. at + 1 \in Places /\ Asks(Elements(10)[1 + 1], block[at + 1], at)
    BY <2>1, OccursAsks DEF MarksType
  <2>. QED
    BY <2>2, <2>3, <2>4
<1>3. at + 0 = at
  OBVIOUS
<1>4. IsInstr(block[at]) /\ IsInstr(block[at + 1])
  BY <1>2, <1>3
<1>5. /\ block[at].mnem = "ADDIW" /\ block[at + 1].mnem = "ANDI"
      /\ block[at + 1].rs1 = block[at].rd /\ block[at + 1].rd = block[at].rd
      /\ block[at + 1].imm = FF
  BY <1>2, <1>3, AsksAnyOf, AsksAnyWith, AsksOnto, AsksOntoWith
<1>6. Emit(Name(10), m, at) = Execute(Execute(m, block[at]), block[at + 1])
  BY <1>4, <1>5, SameP23, Table DEF Emit, emit_pattern_23
<1>. QED
  BY <1>1, <1>6 DEF After

LEMMA CodeP7 ==
    ASSUME Arithmetic, MarksType, NEW m, IsMachine(m), NEW at \in Nat, Occurs(3, at),
           \A k \in Places : IsInstr(block[k])
    PROVE  PatternLen(3) = 3 /\ Emit(Name(3), m, at) = After(m, at, 3)
<1>1. PatternLen(3) = 3
  BY Table DEF PatternLen, p_7_elem
<1>2. /\ at + 0 \in Places /\ Asks(AnyOf("ADDIW"), block[at + 0], at)
      /\ at + 1 \in Places /\ Asks(OntoWith("SLLI", 0, HALF), block[at + 1], at)
      /\ at + 2 \in Places /\ Asks(OntoWith("SRLI", 0, HALF), block[at + 2], at)
  <2>1. 3 \in 1..Len(patterns) /\ 0 \in 0..PatternLen(3) - 1 /\ 1 \in 0..PatternLen(3) - 1
        /\ 2 \in 0..PatternLen(3) - 1
    BY <1>1, PatternCount
  <2>2. /\ Elements(3)[1] = AnyOf("ADDIW") /\ Elements(3)[2] = OntoWith("SLLI", 0, HALF)
        /\ Elements(3)[3] = OntoWith("SRLI", 0, HALF)
    BY Table DEF p_7_elem
  <2>3. at + 0 \in Places /\ Asks(Elements(3)[0 + 1], block[at + 0], at)
    BY <2>1, OccursAsks DEF MarksType
  <2>4. at + 1 \in Places /\ Asks(Elements(3)[1 + 1], block[at + 1], at)
    BY <2>1, OccursAsks DEF MarksType
  <2>5. at + 2 \in Places /\ Asks(Elements(3)[2 + 1], block[at + 2], at)
    BY <2>1, OccursAsks DEF MarksType
  <2>. QED
    BY <2>2, <2>3, <2>4, <2>5
<1>3. at + 0 = at
  OBVIOUS
<1>4. IsInstr(block[at]) /\ IsInstr(block[at + 1]) /\ IsInstr(block[at + 2])
  BY <1>2, <1>3
<1>5. /\ block[at].mnem = "ADDIW"
      /\ block[at + 1].mnem = "SLLI" /\ block[at + 1].imm = HALF
      /\ block[at + 1].rs1 = block[at].rd /\ block[at + 1].rd = block[at].rd
      /\ block[at + 2].mnem = "SRLI" /\ block[at + 2].imm = HALF
      /\ block[at + 2].rs1 = block[at].rd /\ block[at + 2].rd = block[at].rd
  BY <1>2, <1>3, AsksAnyOf, AsksOntoWith
<1>6. Emit(Name(3), m, at)
      = Execute(Execute(Execute(m, block[at]), block[at + 1]), block[at + 2])
  BY <1>4, <1>5, SameP7, Table DEF Emit, emit_pattern_7
<1>. QED
  BY <1>1, <1>6 DEF After

\* SLTZ is left out, and SEXTW where it writes x0.
LEMMA CodeOfOne ==
    ASSUME Arithmetic, MarksType, NEW m, IsMachine(m), NEW at \in Nat,
           NEW p \in 11..22, Occurs(p, at), IsInstr(block[at]),
           block[at].mnem = "SLT" => block[at].rs2 # x0,
           block[at].mnem = "ADDIW" /\ block[at].imm = 0 => block[at].rd # x0
    PROVE  PatternLen(p) = 1 /\ Emit(Name(p), m, at) = After(m, at, 1)
<1>. DEFINE b == block[at]
<1>1. PatternLen(p) = 1
  BY TableOfOne DEF PatternLen
<1>2. Asks(Elements(p)[1], b, at)
  <2>1. p \in 1..Len(patterns) /\ 0 \in 0..PatternLen(p) - 1
    BY <1>1, PatternCount
  <2>2. Asks(Elements(p)[0 + 1], block[at + 0], at)
    BY <2>1, OccursAsks DEF MarksType
  <2>. QED
    BY <2>2
<1>3. After(m, at, 1) = Execute(m, b)
  BY DEF After
<1>4. IsInstr(b) /\ (b.mnem = "SLT" => b.rs2 # x0)
      /\ (b.mnem = "ADDIW" /\ b.imm = 0 => b.rd # x0)
  OBVIOUS
<1>5. Emit(Name(p), m, at) = Execute(m, b)
  <2>1. CASE p = 11
    <3>1. Asks(AnyWith("ADDI", 0), b, at)
      BY <2>1, <1>2, TableOfOne
    <3>2. b.mnem = "ADDI" /\ b.imm = 0
      BY <3>1, AsksAnyWith
    <3>. QED
      BY <2>1, <3>2, <1>4, SameMoves, TableOfOne DEF Emit, emit_pattern_11_MV
  <2>2. CASE p = 12
    <3>1. Asks(Zero1("ADDI"), b, at)
      BY <2>2, <1>2, TableOfOne
    <3>2. b.mnem = "ADDI" /\ b.rs1 = x0
      BY <3>1, AsksZero
    <3>. QED
      BY <2>2, <3>2, <1>4, SameMoves, TableOfOne DEF Emit, emit_pattern_20_small_LI
  <2>3. CASE p = 13
    <3>1. Asks(AnyWith("ADDIW", 0), b, at)
      BY <2>3, <1>2, TableOfOne
    <3>2. b.mnem = "ADDIW" /\ b.imm = 0
      BY <3>1, AsksAnyWith
    <3>. QED
      BY <2>3, <3>2, <1>4, SameSEXTW, TableOfOne DEF Emit, emit_pattern_8_SEXTW
  <2>4. CASE p = 14
    <3>1. Asks(AnyWith("ANDI", FF), b, at)
      BY <2>4, <1>2, TableOfOne
    <3>2. b.mnem = "ANDI" /\ b.imm = FF
      BY <3>1, AsksAnyWith
    <3>. QED
      BY <2>4, <3>2, <1>4, SameZEXTB, TableOfOne DEF Emit, emit_pattern_22
  <2>5. CASE p = 15
    <3>1. Asks(Element("ADDI", x0, DONT_CARE, x0, 0, 0, 1, 0), b, at)
      BY <2>5, <1>2, TableOfOne
    <3>2. b.mnem = "ADDI" /\ b.rd = x0
      BY <3>1, AsksZero
    <3>. QED
      BY <2>5, <3>2, <1>4, SameMoves, TableOfOne DEF Emit, emit_pattern_10_NOP
  <2>6. CASE p = 16
    <3>1. Asks(AnyWith("XORI", -1), b, at)
      BY <2>6, <1>2, TableOfOne
    <3>2. b.mnem = "XORI" /\ b.imm = -1
      BY <3>1, AsksAnyWith
    <3>. QED
      BY <2>6, <3>2, <1>4, SameNOT, TableOfOne DEF Emit, emit_pattern_12_NOT
  <2>7. CASE p = 17
    <3>1. Asks(Zero1("SUB"), b, at)
      BY <2>7, <1>2, TableOfOne
    <3>2. b.mnem = "SUB" /\ b.rs1 = x0
      BY <3>1, AsksZero
    <3>. QED
      BY <2>7, <3>2, <1>4, SameMoves, TableOfOne DEF Emit, emit_pattern_13_NEG
  <2>8. CASE p = 18
    <3>1. Asks(Zero1("SUBW"), b, at)
      BY <2>8, <1>2, TableOfOne
    <3>2. b.mnem = "SUBW" /\ b.rs1 = x0
      BY <3>1, AsksZero
    <3>. QED
      BY <2>8, <3>2, <1>4, SameMoves, TableOfOne DEF Emit, emit_pattern_14_NEGW
  <2>9. CASE p = 19
    <3>1. Asks(AnyWith("SLTIU", 1), b, at)
      BY <2>9, <1>2, TableOfOne
    <3>2. b.mnem = "SLTIU" /\ b.imm = 1
      BY <3>1, AsksAnyWith
    <3>. QED
      BY <2>9, <3>2, <1>4, SameTests, TableOfOne DEF Emit, emit_pattern_15_SEQZ
  <2>10. CASE p = 20
    <3>1. Asks(Zero1("SLTU"), b, at)
      BY <2>10, <1>2, TableOfOne
    <3>2. b.mnem = "SLTU" /\ b.rs1 = x0
      BY <3>1, AsksZero
    <3>. QED
      BY <2>10, <3>2, <1>4, SameTests, TableOfOne DEF Emit, emit_pattern_16_SNEZ
  <2>11. CASE p = 22
    <3>1. Asks(Zero1("SLT"), b, at)
      BY <2>11, <1>2, TableOfOne
    <3>2. b.mnem = "SLT" /\ b.rs1 = x0
      BY <3>1, AsksZero
    <3>. QED
      BY <2>11, <3>2, <1>4, SameTests, TableOfOne DEF Emit, emit_pattern_18_SGTZ
  <2>12. CASE p = 21
    <3>1. Asks(Zero2("SLT"), b, at)
      BY <2>12, <1>2, TableOfOne
    <3>. QED
      BY <3>1, <1>4, AsksZero
  <2>. QED
    BY <2>1, <2>2, <2>3, <2>4, <2>5, <2>6, <2>7, <2>8, <2>9, <2>10, <2>11, <2>12
<1>. QED
  BY <1>1, <1>3, <1>5

\* The code of every pattern but the two of Equivalent is that of its instructions.
LEMMA CodeRight ==
    ASSUME Arithmetic, MarksType, Equivalent, NEW m, IsMachine(m), NEW at \in Places,
           NEW p \in 1..Len(patterns), Occurs(p, at), \A k \in Places : IsInstr(block[k])
    PROVE  PatternLen(p) \in 1..3 /\ Emit(Name(p), m, at) = After(m, at, PatternLen(p))
<1>1. at \in Nat /\ at \in DOMAIN block /\ IsInstr(block[at])
  BY DEF Places, MarksType
<1>2. p \notin {1, 2}
  <2>1. p \in DOMAIN patterns
    BY DEF patterns
  <2>. QED
    BY <1>1, <2>1, Table DEF Equivalent
<1>3. CASE p \in 3..10
  BY <1>1, <1>3, CodeP7, CodeP3, CodeP4, CodeP5, CodeP6, CodeP21, CodeP19, CodeP23
<1>4. CASE p \in 11..22
  BY <1>1, <1>4, CodeOfOne DEF Equivalent
<1>. QED
  BY <1>2, <1>3, <1>4, PatternCount

-----------------------------------------------------------------------------
(* Guest and host. *)

LEMMA ElementsParsed ==
    ASSUME NEW p \in 1..Len(patterns), NEW k \in 1..PatternLen(p)
    PROVE  Elements(p)[k].mnem \in Mnemonics
<1>1. p \in 1..22
  BY PatternCount
<1>2. \A n, v, h : /\ AnyOf(n).mnem = n /\ AnyWith(n, v).mnem = n /\ Onto(n, h).mnem = n
                   /\ OntoWith(n, h, v).mnem = n /\ Zero1(n).mnem = n /\ Zero2(n).mnem = n
  BY DEF AnyOf, AnyWith, Onto, OntoWith, Zero1, Zero2, Element
<1>3. CASE p \in 1..10
  <2>1. CASE p = 1
    <3>1. Elements(1) = p_2_elem
      BY DEF Elements, patterns
    <3>. QED
      BY <2>1, <3>1, <1>2 DEF PatternLen, p_2_elem, Element, Mnemonics
  <2>2. CASE p = 2
    <3>1. Elements(2) = p_9_elem
      BY DEF Elements, patterns
    <3>. QED
      BY <2>2, <3>1, <1>2 DEF PatternLen, p_9_elem, Element, Mnemonics
  <2>3. CASE p = 3
    BY <2>3, Table, <1>2 DEF PatternLen, p_7_elem, Mnemonics
  <2>4. CASE p = 4
    BY <2>4, Table, <1>2 DEF PatternLen, p_3_elem, Mnemonics
  <2>5. CASE p = 5
    BY <2>5, Table, <1>2 DEF PatternLen, p_4_elem, Mnemonics
  <2>6. CASE p = 6
    BY <2>6, Table, <1>2 DEF PatternLen, p_5_elem, Mnemonics
  <2>7. CASE p = 7
    BY <2>7, Table, <1>2 DEF PatternLen, p_6_elem, Mnemonics
  <2>8. CASE p = 8
    BY <2>8, Table, <1>2 DEF PatternLen, p_21_elem, Mnemonics
  <2>9. CASE p = 9
    BY <2>9, Table, <1>2 DEF PatternLen, p_19_elem, Mnemonics
  <2>10. CASE p = 10
    BY <2>10, Table, <1>2 DEF PatternLen, p_23_elem, Mnemonics
  <2>. QED
    BY <1>3, <2>1, <2>2, <2>3, <2>4, <2>5, <2>6, <2>7, <2>8, <2>9, <2>10
<1>4. CASE p \in 11..22
  BY <1>4, TableOfOne, <1>2 DEF PatternLen, Element, Mnemonics
<1>. QED
  BY <1>1, <1>3, <1>4

\* The buffer holds what was parsed, and marks where a pattern occurs in it.
Buffered == \A k \in Places :
    /\ mnem[k] \in {block[k].mnem, "PATTERN_EMIT", "SILENT_NOP"}
    /\ mnem[k] = "PATTERN_EMIT" => Occurs(optype[k], k)

\* The host is ahead of the guest by the instructions that are still silent.
AheadBy(e) == ReachesTo(e) /\ e - t \in 0..2 /\ host = After(guest, t, e - t)
InSync == phase # "match" =>
    /\ IsMachine(guest)
    /\ Equivalent => \E e \in t..len : AheadBy(e)

EffectInv == MarksInv /\ Buffered /\ InSync

LEMMA BlockTyped ==
    ASSUME BlocksAssumption, MarksType
    PROVE  \A k \in Places : IsInstr(block[k])
BY DEF BlocksAssumption, MarksType, IsInstr

LEMMA EffectInit ==
    ASSUME BlocksAssumption, Init
    PROVE  EffectInv
<1>1. MarksInv
  BY MarksInit
<1>2. Buffered
  <2>1. \A k \in Places : mnem[k] = block[k].mnem /\ block[k].mnem \in Mnemonics
    BY <1>1, BlockPlaces DEF Init, MarksInv, MarksType
  <2>. QED
    BY <2>1, ParsedIsUnmarked DEF Buffered
<1>. QED
  BY <1>1, <1>2 DEF EffectInv, InSync, Init

LEMMA MarkOccurs ==
    ASSUME EffectInv, Mark
    PROVE  Occurs(i, j)
<1>1. PatternLen(i) \in 1..5 /\ i \in 1..Len(patterns)
  BY PatternLenType, PatternCount DEF MarksType, Mark, EffectInv, MarksInv
<1>2. j < len - PatternLen(i) /\ phase = "match" /\ Matches(i, j)
  BY DEF Mark, InBounds
<1>3. len \in Nat /\ j \in Nat /\ DOMAIN block = Places
  BY DEF MarksType, EffectInv, MarksInv
<1>4. ASSUME NEW k \in 0..PatternLen(i) - 1
      PROVE  mnem[j + k] = [l \in DOMAIN block |-> block[l].mnem][j + k]
  <2>1. j + k \in Places
    BY <1>1, <1>2, <1>3 DEF Places
  <2>2. mnem[j + k] = Elements(i)[k + 1].mnem
    BY <1>2 DEF Matches, Fits
  <2>3. mnem[j + k] \in Mnemonics
    BY <2>2, <1>1, ElementsParsed
  <2>. QED
    BY <2>1, <2>3, <1>3, ParsedIsUnmarked DEF EffectInv, Buffered
<1>5. Fits(i, [l \in DOMAIN block |-> block[l].mnem], j)
  BY <1>2, <1>4 DEF Matches, Fits
<1>. QED
  BY <1>1, <1>2, <1>3, <1>5 DEF Occurs

\* What is said of the block alone stays as it is.
LEMMA BlockKept ==
    ASSUME UNCHANGED block
    PROVE  /\ len' = len /\ Places' = Places
           /\ Equivalent' = Equivalent
           /\ \A p, at : Occurs(p, at)' = Occurs(p, at)
           /\ \A m, a, n : After(m, a, n)' = After(m, a, n)
<1>1. len' = len /\ Places' = Places
  BY DEF len, Places
<1>2. \A p, at : Occurs(p, at)' = Occurs(p, at)
  BY <1>1 DEF Occurs, Fits, RegAsked, ImmAsked
<1>3. Equivalent' = Equivalent
  BY <1>2 DEF Equivalent
<1>4. \A m, a, n : After(m, a, n)' = After(m, a, n)
  BY DEF After
<1>. QED
  BY <1>1, <1>2, <1>3, <1>4

LEMMA EffectMark ==
    ASSUME EffectInv, Mark
    PROVE  EffectInv'
<1>1. MarksInv'
  BY MarkStep DEF EffectInv
<1>2. UNCHANGED <<block, phase>> /\ phase = "match" /\ Places' = Places
      /\ \A p, at : Occurs(p, at)' = Occurs(p, at)
  BY BlockKept DEF Mark
<1>3. \A k \in Places : k # j => mnem'[k] = mnem[k] /\ optype'[k] = optype[k]
  BY DEF EffectInv, MarksInv, MarksType, Mark
<1>4. j \in Places => mnem'[j] = "PATTERN_EMIT" /\ optype'[j] = i
  BY DEF EffectInv, MarksInv, MarksType, Mark
<1>5. Buffered'
  <2>. SUFFICES ASSUME NEW k \in Places
                PROVE  /\ mnem'[k] \in {block[k].mnem, "PATTERN_EMIT", "SILENT_NOP"}
                       /\ mnem'[k] = "PATTERN_EMIT" => Occurs(optype'[k], k)
    BY <1>2 DEF Buffered
  <2>1. CASE k = j
    BY <2>1, <1>4, MarkOccurs
  <2>2. CASE k # j
    BY <2>2, <1>3 DEF EffectInv, Buffered
  <2>. QED
    BY <2>1, <2>2
<1>. QED
  BY <1>1, <1>2, <1>5 DEF EffectInv, InSync

LEMMA EnterMachine ==
    ASSUME Arithmetic, NEW f \in Files, NEW m, m = [regs |-> f, mem |-> <<>>]
    PROVE  IsMachine(m)
BY DEF IsMachine, Arithmetic, FusionAssumption

LEMMA EffectOther ==
    ASSUME Arithmetic, EffectInv, Mismatch \/ NextPattern \/ Enter \/ Leave \/ UNCHANGED vars
    PROVE  EffectInv'
<1>1. MarksInv'
  BY OtherStep DEF EffectInv
<1>2. UNCHANGED <<block, mnem, optype, t, times>>
  BY DEF Mismatch, NextPattern, Enter, Leave, vars
<1>3. len' = len /\ Places' = Places /\ Equivalent' = Equivalent
      /\ (\A p, at : Occurs(p, at)' = Occurs(p, at))
      /\ \A m, a, n : After(m, a, n)' = After(m, a, n)
  BY <1>2, BlockKept
<1>4. Buffered'
  BY <1>2, <1>3 DEF EffectInv, Buffered
<1>5. \A e : ReachesTo(e)' = ReachesTo(e)
  BY <1>2, <1>3 DEF ReachesTo
<1>6. InSync'
  <2>1. CASE Enter
    <3>1. PICK f \in Files : guest' = [regs |-> f, mem |-> <<>>]
      BY <2>1 DEF Enter
    <3>2. IsMachine(guest') /\ host' = guest'
      BY <2>1, <3>1, EnterMachine DEF Enter
    <3>3. IsMachine(guest)'
      BY <3>2 DEF IsMachine
    <3>4. t = 0 /\ ReachesTo(0) /\ 0 \in t..len
      BY <2>1 DEF Enter, EffectInv, MarksInv, NotYet, ReachesTo, MarksType, Places
    <3>5. After(guest', t, 0) = guest' /\ 0 - t = 0
      BY <3>4 DEF After
    <3>6. AheadBy(0)'
      BY <3>2, <3>4, <3>5, <1>2, <1>3, <1>5 DEF AheadBy
    <3>. QED
      BY <3>3, <3>4, <3>6, <1>2, <1>3 DEF InSync
  <2>2. CASE ~Enter
    <3>1. UNCHANGED <<guest, host>> /\ (phase' # "match" => phase # "match")
      BY <2>2 DEF Mismatch, NextPattern, Leave, vars
    <3>2. ASSUME NEW e, AheadBy(e)
          PROVE  AheadBy(e)'
      BY <3>1, <3>2, <1>2, <1>3, <1>5 DEF AheadBy
    <3>3. IsMachine(guest)' <=> IsMachine(guest)
      BY <3>1 DEF IsMachine
    <3>. QED
      BY <3>1, <3>2, <3>3, <1>2, <1>3 DEF EffectInv, InSync
  <2>. QED
    BY <2>1, <2>2
<1>. QED
  BY <1>1, <1>4, <1>6 DEF EffectInv

\* One instruction later, the host is ahead by one less.
LEMMA AfterNext ==
    ASSUME NEW m, NEW a \in Nat, NEW n \in 0..2
    PROVE  After(Execute(m, block[a]), a + 1, n) = After(m, a, n + 1)
BY DEF After

LEMMA EffectAdvance ==
    ASSUME Arithmetic, BlocksAssumption, EffectInv, Advance
    PROVE  /\ UNCHANGED <<block, optype, phase>> /\ phase = "emit"
           /\ t \in Places /\ t \in Nat /\ t' = t + 1 /\ t' \in 0..len
           /\ guest' = Execute(guest, block[t])
           /\ IsMachine(guest) /\ IsMachine(guest') /\ IsMachine(guest)'
<1>1. UNCHANGED <<block, optype, phase>> /\ phase = "emit" /\ t \in Places /\ t' = t + 1
      /\ t' \in 0..len
  BY AdvanceKeeps DEF EffectInv
<1>2. guest' = Execute(guest, block[t])
  BY DEF Advance
<1>3. IsMachine(guest) /\ IsInstr(block[t])
  BY <1>1, BlockTyped DEF EffectInv, InSync, MarksInv
<1>4. IsMachine(guest')
  BY <1>2, <1>3, ExecuteType
<1>5. IsMachine(guest)'
  BY <1>4 DEF IsMachine
<1>. QED
  BY <1>1, <1>2, <1>3, <1>4, <1>5 DEF Places

LEMMA EffectEmit ==
    ASSUME Arithmetic, BlocksAssumption, EffectInv, translate_pattern_emit
    PROVE  EffectInv'
<1>0. Advance /\ mnem[t] = "PATTERN_EMIT" /\ host' = Emit(Name(optype[t]), host, t)
      /\ mnem' = Silenced
  BY DEF translate_pattern_emit
<1>1. /\ UNCHANGED <<block, optype, phase>> /\ phase = "emit"
      /\ t \in Places /\ t \in Nat /\ t' = t + 1 /\ t' \in 0..len
      /\ guest' = Execute(guest, block[t])
      /\ IsMachine(guest) /\ IsMachine(guest)'
  BY <1>0, EffectAdvance
<1>2. len' = len /\ Places' = Places /\ Equivalent' = Equivalent
      /\ (\A p, at : Occurs(p, at)' = Occurs(p, at))
      /\ \A m, a, n : After(m, a, n)' = After(m, a, n)
  BY <1>1, BlockKept
<1>3. /\ MarksInv' /\ \A e \in Nat : ReachesTo(e) => e <= t
      /\ \E e \in 0..len : e = t + PatternLen(optype[t]) /\ ReachesTo(e)'
  BY EmitStep DEF EffectInv
<1>4. Buffered'
  <2>. SUFFICES ASSUME NEW k \in Places
                PROVE  /\ mnem'[k] \in {block[k].mnem, "PATTERN_EMIT", "SILENT_NOP"}
                       /\ mnem'[k] = "PATTERN_EMIT" => Occurs(optype[k], k)
    BY <1>1, <1>2 DEF Buffered
  <2>1. mnem'[k] = mnem[k] \/ mnem'[k] = "SILENT_NOP"
    BY <1>0 DEF Silenced, EffectInv, MarksInv, MarksType
  <2>. QED
    BY <2>1 DEF EffectInv, Buffered
<1>5. ASSUME Equivalent
      PROVE  \E e \in 0..len : e >= t + 1 /\ AheadBy(e)'
  <2>1. PICK e0 \in t..len : AheadBy(e0)
    BY <1>1, <1>5 DEF EffectInv, InSync
  <2>2. e0 = t /\ host = guest
    <3>1. e0 = t
      BY <2>1, <1>1, <1>3 DEF AheadBy, EffectInv, MarksInv, MarksType
    <3>2. e0 - t = 0
      BY <3>1, <1>1
    <3>. QED
      BY <3>1, <3>2, <2>1 DEF AheadBy, After
  <2>3. Occurs(optype[t], t) /\ optype[t] \in 1..Len(patterns)
    BY <1>0, <1>1 DEF EffectInv, Buffered, MarksInv, MarksInside, MarkAt, MarksType
  <2>4. /\ PatternLen(optype[t]) \in 1..3
        /\ Emit(Name(optype[t]), guest, t) = After(guest, t, PatternLen(optype[t]))
    BY <2>3, <1>1, <1>5, CodeRight, BlockTyped DEF EffectInv, MarksInv
  <2>5. PICK e \in 0..len : e = t + PatternLen(optype[t]) /\ ReachesTo(e)'
    BY <1>3
  <2>6. PICK n \in 0..2 : PatternLen(optype[t]) = n + 1
    <3>. DEFINE l == PatternLen(optype[t])
    <3>. HIDE DEF l
    <3>1. l \in 1..3 => l - 1 \in 0..2 /\ l = (l - 1) + 1
      OBVIOUS
    <3>. QED
      BY <3>1, <2>4 DEF l
  <2>7. host' = After(guest', t', n)
    BY <1>0, <1>1, <2>2, <2>4, <2>6, AfterNext
  <2>8. e - t' = n /\ e >= t + 1
    BY <2>5, <2>6, <1>1
  <2>9. AheadBy(e)'
    BY <2>5, <2>7, <2>8, <1>2 DEF AheadBy
  <2>. QED
    BY <2>8, <2>9
<1>6. InSync'
  BY <1>1, <1>2, <1>5 DEF InSync
<1>. QED
  BY <1>3, <1>4, <1>6 DEF EffectInv

LEMMA EffectSilent ==
    ASSUME Arithmetic, BlocksAssumption, EffectInv, translate_SILENT_NOP
    PROVE  EffectInv'
<1>0. Advance /\ UNCHANGED <<mnem, host>>
  BY DEF translate_SILENT_NOP
<1>1. /\ UNCHANGED <<block, optype, phase>> /\ phase = "emit"
      /\ t \in Places /\ t \in Nat /\ t' = t + 1 /\ t' \in 0..len
      /\ guest' = Execute(guest, block[t])
      /\ IsMachine(guest) /\ IsMachine(guest)'
  BY <1>0, EffectAdvance
<1>2. len' = len /\ Places' = Places /\ Equivalent' = Equivalent
      /\ (\A p, at : Occurs(p, at)' = Occurs(p, at))
      /\ \A m, a, n : After(m, a, n)' = After(m, a, n)
  BY <1>1, BlockKept
<1>3. MarksInv' /\ \A e \in Nat : ReachesTo(e) => e > t /\ ReachesTo(e)'
  BY SilentStep DEF EffectInv
<1>4. Buffered'
  BY <1>0, <1>1, <1>2 DEF EffectInv, Buffered
<1>5. ASSUME Equivalent
      PROVE  \E e \in 0..len : e >= t + 1 /\ AheadBy(e)'
  <2>1. PICK e \in t..len : AheadBy(e)
    BY <1>1, <1>5 DEF EffectInv, InSync
  <2>2. e \in Nat /\ e > t /\ ReachesTo(e)' /\ len \in Nat
    BY <2>1, <1>1, <1>3 DEF AheadBy, EffectInv, MarksInv, MarksType
  <2>3. PICK n \in 0..2 : e - t = n + 1
    <3>1. e - t \in 1..2 /\ (e - t) - 1 \in 0..2 /\ e - t = ((e - t) - 1) + 1
      BY <2>1, <2>2, <1>1 DEF AheadBy
    <3>. QED
      BY <3>1
  <2>4. host' = After(guest', t', n)
    BY <1>0, <1>1, <2>1, <2>3, AfterNext DEF AheadBy
  <2>5. e - t' = n /\ e >= t + 1 /\ e \in 0..len
    BY <2>1, <2>2, <2>3, <1>1
  <2>6. AheadBy(e)'
    BY <2>2, <2>4, <2>5, <1>2 DEF AheadBy
  <2>. QED
    BY <2>5, <2>6
<1>6. InSync'
  BY <1>1, <1>2, <1>5 DEF InSync
<1>. QED
  BY <1>3, <1>4, <1>6 DEF EffectInv

LEMMA EffectPlain ==
    ASSUME Arithmetic, BlocksAssumption, EffectInv, TranslatePlain
    PROVE  EffectInv'
<1>0. Advance /\ mnem' = mnem /\ host' = Execute(host, block[t])
  BY DEF TranslatePlain
<1>1. /\ UNCHANGED <<block, optype, phase>> /\ phase = "emit"
      /\ t \in Places /\ t \in Nat /\ t' = t + 1 /\ t' \in 0..len
      /\ guest' = Execute(guest, block[t])
      /\ IsMachine(guest) /\ IsMachine(guest)'
  BY <1>0, EffectAdvance
<1>2. len' = len /\ Places' = Places /\ Equivalent' = Equivalent
      /\ (\A p, at : Occurs(p, at)' = Occurs(p, at))
      /\ \A m, a, n : After(m, a, n)' = After(m, a, n)
  BY <1>1, BlockKept
<1>3. /\ MarksInv' /\ \A e \in Nat : ReachesTo(e) => e <= t
      /\ \A e \in Nat : e = t + 1 => ReachesTo(e)'
  BY PlainStep DEF EffectInv
<1>4. Buffered'
  BY <1>0, <1>1, <1>2 DEF EffectInv, Buffered
<1>5. ASSUME Equivalent
      PROVE  \E e \in 0..len : e >= t + 1 /\ AheadBy(e)'
  <2>1. PICK e0 \in t..len : AheadBy(e0)
    BY <1>1, <1>5 DEF EffectInv, InSync
  <2>2. host = guest
    <3>1. e0 = t
      BY <2>1, <1>1, <1>3 DEF AheadBy, EffectInv, MarksInv, MarksType
    <3>2. e0 - t = 0
      BY <3>1, <1>1
    <3>. QED
      BY <3>1, <3>2, <2>1 DEF AheadBy, After
  <2>3. PICK e \in 0..len : e = t + 1
    BY <1>1
  <2>4. ReachesTo(e)' /\ e - t' = 0 /\ e >= t + 1
    BY <2>3, <1>1, <1>3
  <2>5. host' = After(guest', t', 0)
    BY <1>0, <1>1, <2>2 DEF After
  <2>6. AheadBy(e)'
    BY <2>4, <2>5, <1>2 DEF AheadBy
  <2>. QED
    BY <2>4, <2>6
<1>6. InSync'
  BY <1>1, <1>2, <1>5 DEF InSync
<1>. QED
  BY <1>3, <1>4, <1>6 DEF EffectInv

\* In a block without the patterns of Equivalent, the emitted code leaves all
\* registers and the memory as the block's instructions do, for any block, any
\* contents of the registers and any width of the words.
THEOREM SameEffectHolds ==
    ASSUME FusionAssumption, BlocksAssumption, WidthAssumption, PowersOf2, BitFacts
    PROVE  Spec => []SameEffectElsewhere
<1>. Arithmetic
  BY DEF Arithmetic
<1>1. Init => EffectInv
  BY EffectInit
<1>2. EffectInv /\ [Next]_vars => EffectInv'
  BY EffectMark, EffectOther, EffectEmit, EffectSilent, EffectPlain DEF Next
<1>3. EffectInv => SameEffectElsewhere
  <2>. SUFFICES ASSUME EffectInv, Equivalent, phase = "done"
                PROVE  host = guest
    BY DEF SameEffectElsewhere, SameEffect
  <2>1. t = len /\ len \in Nat
    BY DEF EffectInv, MarksInv, MarksType
  <2>2. PICK e \in t..len : AheadBy(e)
    BY DEF EffectInv, InSync
  <2>3. e - t = 0
    BY <2>1
  <2>. QED
    BY <2>2, <2>3 DEF AheadBy, After
<1>. QED
  BY <1>1, <1>2, <1>3, PTL DEF Spec

=============================================================================
