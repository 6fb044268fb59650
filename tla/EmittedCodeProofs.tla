------------------------- MODULE EmittedCodeProofs -------------------------
(***************************************************************************)
(* Proofs about IntegerCode, for any width of the words, any mapping, any  *)
(* operands and any places they share: the code emitted for an integer     *)
(* instruction computes what the guest instruction does, changes no other  *)
(* register, and traps only for a signed division that overflows.  At the  *)
(* end, for FloatCode: what the code of a floating point instruction may   *)
(* write.                                                                  *)
(***************************************************************************)
EXTENDS IntegerCode, FiniteSetTheorems, SequenceTheorems, TLAPS

-----------------------------------------------------------------------------
(* Division, and numbers cut to a width. *)

LEMMA DivMod ==
    ASSUME NEW p \in Nat \ {0}, NEW a \in Int
    PROVE  a = (p * (a \div p)) + (a % p) /\ a \div p \in Int /\ a % p \in 0 .. p - 1
OBVIOUS

LEMMA DivModUnique ==
    ASSUME NEW p \in Nat \ {0}, NEW q \in Int, NEW r \in 0 .. p - 1, NEW a \in Int, a = (p * q) + r
    PROVE  a % p = r /\ a \div p = q
OBVIOUS

\* Multiples of p do not change what is left modulo p.
LEMMA Congruent ==
    ASSUME NEW p \in Nat \ {0}, NEW a \in Int, NEW b \in Int, NEW k \in Int, a = b + (p * k)
    PROVE  a % p = b % p /\ a \div p = (b \div p) + k
<1> DEFINE q == b \div p
           r == b % p
<1>1. b = (p * q) + r /\ q \in Int /\ r \in 0 .. p - 1
  BY DivMod
<1> HIDE DEF q, r
<1> DEFINE n == q + k
<1>2. a = (p * n) + r /\ n \in Int
  BY <1>1
<1> HIDE DEF n
<1>3. a % p = r /\ a \div p = n
  BY <1>1, <1>2, DivModUnique
<1>. QED
  BY <1>3 DEF q, r, n

LEMMA ModTwice ==
    ASSUME NEW h \in Nat \ {0}, NEW g \in Nat \ {0}, NEW a \in Int
    PROVE  (a % (h * g)) % h = a % h
<1> DEFINE n == h * g
           q == a \div n
           r == a % n
<1>0. n = h * g
  OBVIOUS
<1>1. n \in Nat \ {0}
  OBVIOUS
<1> HIDE DEF n
<1>2. a = (n * q) + r /\ q \in Int /\ r \in Int
  BY <1>1, DivMod
<1> HIDE DEF q, r
<1> DEFINE k == g * q
<1>3. a = r + (h * k) /\ k \in Int
  BY <1>0, <1>2
<1> HIDE DEF k
<1>4. a % h = r % h
  BY <1>2, <1>3, Congruent
<1>. QED
  BY <1>4 DEF r, n

LEMMA ModSmall ==
    ASSUME NEW p \in Nat \ {0}, NEW a \in 0 .. p - 1
    PROVE  a % p = a /\ a \div p = 0
<1>1. a = (p * 0) + a
  OBVIOUS
<1>. QED
  BY <1>1, DivModUnique

Widths == {BYTE, SHORT, HALF, XLEN}

LEMMA Sizes ==
    ASSUME SizeFacts, NEW w \in Widths
    PROVE  /\ w \in 1 .. XLEN /\ 2^w \in Nat \ {0} /\ 2^(w - 1) \in Nat \ {0} /\ 2^XLEN \in Nat \ {0}
           /\ 2^w = 2 * 2^(w - 1)
           /\ 2^(XLEN - w) \in Nat \ {0} /\ 2^XLEN = 2^w * 2^(XLEN - w)
<1>1. w \in 1 .. XLEN /\ XLEN \in Nat
  BY WidthAssumption, SizesAssumption DEF Widths
<1>2. /\ w \in 0 .. XLEN /\ w - 1 \in 0 .. XLEN /\ XLEN - w \in 0 .. XLEN - w /\ XLEN - w \in 0 .. XLEN
      /\ 1 \in 0 .. XLEN /\ w - 1 \in 0 .. XLEN - 1 /\ XLEN \in 0 .. XLEN
      /\ 1 + (w - 1) = w /\ w + (XLEN - w) = XLEN
  BY <1>1
<1>3. 2^(1 + (w - 1)) = 2^1 * 2^(w - 1)
  BY <1>2 DEF SizeFacts
<1>4. 2^(w + (XLEN - w)) = 2^w * 2^(XLEN - w)
  BY <1>2 DEF SizeFacts
<1>. QED
  BY <1>1, <1>2, <1>3, <1>4 DEF SizeFacts

LEMMA TruncType ==
    ASSUME SizeFacts, NEW w \in Widths, NEW a \in Int
    PROVE  /\ Trunc(a, w) \in 0 .. 2^w - 1 /\ Trunc(a, w) \in Word /\ Trunc(a, w) \in Int
           /\ a \in 0 .. 2^w - 1 => Trunc(a, w) = a
           /\ \E k \in Int : a = Trunc(a, w) + (2^w * k)
           /\ 0 .. 2^w - 1 \subseteq Word
<1> DEFINE p == 2^w
           g == 2^(XLEN - w)
           x == 2^XLEN
<1>1. p \in Nat \ {0} /\ g \in Nat \ {0} /\ x = p * g /\ x \in Nat
  BY Sizes
<1> HIDE DEF p, g, x
<1>2. p <= x
  BY <1>1
<1>3. a % p \in 0 .. p - 1 /\ a = (p * (a \div p)) + (a % p) /\ a \div p \in Int
  BY <1>1, DivMod
<1>4. a \in 0 .. p - 1 => a % p = a
  BY <1>1, ModSmall
<1>5. 0 .. p - 1 \subseteq 0 .. x - 1
  BY <1>1, <1>2
<1>6. Trunc(a, w) = a % p /\ Word = 0 .. x - 1
  BY DEF Trunc, Word, p, x
<1>7. a = (a % p) + (p * (a \div p))
  BY <1>1, <1>3
<1>. QED
  BY <1>3, <1>4, <1>5, <1>6, <1>7 DEF p

LEMMA TruncCongruent ==
    ASSUME SizeFacts, NEW w \in Widths, NEW a \in Int, NEW b \in Int, NEW k \in Int, a = b + (2^w * k)
    PROVE  Trunc(a, w) = Trunc(b, w)
BY Sizes, Congruent DEF Trunc

LEMMA SameWhole ==
    ASSUME SizeFacts, NEW w \in Widths, NEW a \in Int, NEW b \in Int, Trunc(a, w) = Trunc(b, w)
    PROVE  \E k \in Int : a = b + (2^w * k)
<1> DEFINE p == 2^w
<1>0. p \in Nat \ {0}
  BY Sizes
<1>1. PICK i \in Int : a = Trunc(a, w) + (p * i)
  BY TruncType
<1>2. PICK j \in Int : b = Trunc(b, w) + (p * j)
  BY TruncType
<1>3. Trunc(a, w) \in Int
  BY TruncType
<1> HIDE DEF p
<1>4. a = b + (p * (i - j)) /\ i - j \in Int
  BY <1>0, <1>1, <1>2, <1>3
<1>. QED
  BY <1>4 DEF p

LEMMA TruncSame ==
    ASSUME SizeFacts, NEW w \in Widths, NEW a \in Int
    PROVE  Trunc(Trunc(a, w), w) = Trunc(a, w) /\ Trunc(W(a), w) = Trunc(a, w)
<1>1. Trunc(Trunc(a, w), w) = Trunc(a, w)
  BY TruncType
<1> DEFINE p == 2^w
           g == 2^(XLEN - w)
<1>2. p \in Nat \ {0} /\ g \in Nat \ {0} /\ 2^XLEN = p * g
  BY Sizes
<1> HIDE DEF p, g
<1>3. (a % (p * g)) % p = a % p
  BY <1>2, ModTwice
<1>. QED
  BY <1>1, <1>2, <1>3 DEF Trunc, W, p

\* Sums, differences and products of what is cut to a width.
LEMMA TruncAlu ==
    ASSUME SizeFacts, NEW w \in Widths, NEW a \in Int, NEW b \in Int, NEW c \in Int, NEW d \in Int,
           Trunc(a, w) = Trunc(c, w), Trunc(b, w) = Trunc(d, w)
    PROVE  /\ Trunc(a + b, w) = Trunc(c + d, w)
           /\ Trunc(a - b, w) = Trunc(c - d, w)
           /\ Trunc(a * b, w) = Trunc(c * d, w)
<1> DEFINE p == 2^w
<1>0. p \in Nat \ {0}
  BY Sizes
<1>1. PICK i \in Int : a = c + (p * i)
  BY SameWhole
<1>2. PICK j \in Int : b = d + (p * j)
  BY SameWhole
<1> HIDE DEF p
<1>3. a + b = (c + d) + (p * (i + j)) /\ i + j \in Int
  BY <1>0, <1>1, <1>2
<1>4. a - b = (c - d) + (p * (i - j)) /\ i - j \in Int
  BY <1>0, <1>1, <1>2
<1> DEFINE n == ((c * j) + (i * d)) + (p * (i * j))
<1>5. a * b = (c * d) + (p * n) /\ n \in Int
  BY <1>0, <1>1, <1>2
<1> HIDE DEF n
<1>6. a + b \in Int /\ c + d \in Int /\ a - b \in Int /\ c - d \in Int /\ a * b \in Int /\ c * d \in Int
  OBVIOUS
<1>7. Trunc(a + b, w) = Trunc(c + d, w)
  BY <1>3, <1>6, TruncCongruent DEF p
<1>8. Trunc(a - b, w) = Trunc(c - d, w)
  BY <1>4, <1>6, TruncCongruent DEF p
<1>9. Trunc(a * b, w) = Trunc(c * d, w)
  BY <1>5, <1>6, TruncCongruent DEF p
<1>. QED
  BY <1>7, <1>8, <1>9

LEMMA SignedType ==
    ASSUME SizeFacts, NEW w \in Widths, NEW a \in Int
    PROVE  /\ SignedOf(a, w) \in -(2^(w - 1)) .. 2^(w - 1) - 1 /\ SignedOf(a, w) \in Int
           /\ Trunc(SignedOf(a, w), w) = Trunc(a, w)
           /\ a \in -(2^(w - 1)) .. 2^(w - 1) - 1 => SignedOf(a, w) = a
           /\ SignedOf(a, w) = Trunc(a, w) \/ SignedOf(a, w) = Trunc(a, w) - 2^w
           /\ SignedOf(a, w) >= 0 <=> SignedOf(a, w) = Trunc(a, w)
<1> DEFINE p == 2^w
           h == 2^(w - 1)
           u == Trunc(a, w)
           s == SignedOf(a, w)
<1>1. p \in Nat \ {0} /\ h \in Nat \ {0} /\ p = 2 * h
  BY Sizes
<1>2. u \in 0 .. p - 1
  BY TruncType
<1>3. s = IF u < h THEN u ELSE u - p
  BY DEF SignedOf, Trunc
<1> HIDE DEF p, h, u, s
<1>4. s \in -h .. h - 1 /\ s \in Int /\ (s >= 0 <=> s = u) /\ (s = u \/ s = u - p)
  BY <1>1, <1>2, <1>3
<1>5. Trunc(s, w) = Trunc(u, w)
  <2>1. CASE s = u
    BY <2>1
  <2>2. CASE s = u - p
    <3>1. s = u + (p * (-1)) /\ -1 \in Int /\ u \in Int
      BY <2>2, <1>1, <1>2
    <3>. QED
      BY <3>1, <1>4, TruncCongruent DEF p
  <2>. QED
    BY <1>4, <2>1, <2>2
<1>6. Trunc(u, w) = u
  BY TruncSame DEF u
<1>7. ASSUME a \in -h .. h - 1
      PROVE  s = a
  <2>1. CASE a >= 0
    <3>1. a \in 0 .. p - 1
      BY <1>1, <1>7, <2>1
    <3>2. u = a
      BY <3>1, TruncType DEF u, p
    <3>. QED
      BY <1>1, <1>3, <1>7, <3>2
  <2>2. CASE a < 0
    <3>1. a + p \in 0 .. p - 1 /\ a + p >= h
      BY <1>1, <1>7, <2>2
    <3>2. a + p = a + (p * 1) /\ a + p \in Int
      BY <1>1
    <3>3. Trunc(a + p, w) = Trunc(a, w)
      BY <3>2, TruncCongruent DEF p
    <3>4. u = a + p
      BY <3>1, <3>2, <3>3, TruncType DEF u, p
    <3>. QED
      BY <1>1, <1>3, <3>1, <3>4
  <2>. QED
    BY <2>1, <2>2
<1>. QED
  BY <1>4, <1>5, <1>6, <1>7 DEF p, h, u, s

LEMMA SignedSame ==
    ASSUME NEW w, NEW a, NEW b, Trunc(a, w) = Trunc(b, w)
    PROVE  SignedOf(a, w) = SignedOf(b, w)
BY DEF SignedOf, Trunc


-----------------------------------------------------------------------------
(* Single host instructions. *)

State(s) == DOMAIN s = {"reg", "mem", "flags", "fault"} /\ s.reg \in [Hosts -> Word]

\* From s to t, register d gets the value v, and nothing else of the guest's changes.
Writes(s, t, d, v) ==
    /\ State(t) /\ t.mem = s.mem /\ t.fault = s.fault
    /\ t.reg[d] = v /\ \A h \in Hosts \ {d} : t.reg[h] = s.reg[h]

Compares(s, t, x, y, w) ==
    /\ State(t) /\ t.mem = s.mem /\ t.fault = s.fault /\ t.reg = s.reg
    /\ t.flags = [x |-> x, y |-> y, w |-> w]

\* The memory word at a changes from c to v.
Stores(s, t, a, v) ==
    /\ State(t) /\ t.fault = s.fault /\ t.reg = s.reg
    /\ t.mem = [s.mem EXCEPT ![a] = v]

LEMMA HostNames ==
    /\ NONE \notin Hosts
    /\ \A r \in gp_mapped : gp_map[r] \in Hosts \ {"AX", "DX", "CX", "SP", "SWAP", "FILE"}
    /\ {"AX", "DX", "CX", "SP", "SWAP", "FILE"} \subseteq Hosts
BY MapAssumption DEF Hosts, NONE

LEMMA Words ==
    ASSUME SizeFacts, NEW s, State(s), NEW h \in Hosts
    PROVE  /\ s.reg[h] \in Word /\ s.reg[h] \in Int /\ s.reg[h] \in 0 .. 2^XLEN - 1
           /\ Trunc(s.reg[h], XLEN) = s.reg[h] /\ W(s.reg[h]) = s.reg[h]
<1>1. XLEN \in Widths /\ 2^XLEN \in Nat \ {0}
  BY Sizes DEF Widths
<1>2. s.reg[h] \in Word /\ s.reg[h] \in Int /\ s.reg[h] \in 0 .. 2^XLEN - 1
  BY <1>1 DEF State, Word
<1>. QED
  BY <1>1, <1>2, TruncType DEF Trunc, W

LEMMA SetWrites ==
    ASSUME NEW s, State(s), NEW d \in Hosts, NEW v \in Word
    PROVE  Writes(s, Set(s, d, v), d, v)
BY DEF State, Writes, Set

LEMMA WritesTwice ==
    ASSUME NEW s, NEW t, NEW u, NEW d, NEW v, NEW x, Writes(s, t, d, v), Writes(t, u, d, x)
    PROVE  Writes(s, u, d, x)
BY DEF Writes

LEMMA WritesState ==
    ASSUME NEW s, NEW t, NEW d, NEW v, Writes(s, t, d, v)
    PROVE  State(t)
BY DEF Writes

LEMMA WritesNothing ==
    ASSUME NEW s, State(s), NEW d \in Hosts
    PROVE  Writes(s, s, d, s.reg[d])
BY DEF Writes

LEMMA ShiftAmount ==
    ASSUME SizeFacts, NEW w \in Widths, NEW y \in Int
    PROVE  y % w \in 0 .. w - 1 /\ 2^(y % w) \in Nat \ {0}
<1>1. w \in Nat \ {0} /\ w \in 1 .. XLEN
  BY Sizes
<1>2. y % w \in 0 .. w - 1
  BY <1>1, DivMod
<1>3. y % w \in 0 .. XLEN
  BY <1>1, <1>2, WidthAssumption
<1>. QED
  BY <1>2, <1>3 DEF SizeFacts

LEMMA ShiftedRight ==
    ASSUME NEW k \in Nat \ {0}, NEW p \in Nat, NEW a \in 0 .. p - 1
    PROVE  a \div k \in 0 .. p - 1
<1> DEFINE q == a \div k
           r == a % k
<1>1. a = (k * q) + r /\ q \in Int /\ r \in 0 .. k - 1
  BY DivMod
<1> HIDE DEF q, r
<1>2. q >= 0
  <2>1. CASE q <= -1
    <3>1. k * q <= k * (-1)
      BY <1>1, <2>1
    <3>. QED
      BY <1>1, <3>1
  <2>. QED
    BY <1>1, <2>1
<1>3. q <= k * q
  BY <1>1, <1>2
<1>. QED
  BY <1>1, <1>2, <1>3 DEF q

LEMMA AluType ==
    ASSUME SizeFacts, NEW op \in AluOps, NEW w \in Widths, NEW x \in 0 .. 2^w - 1, NEW y \in 0 .. 2^w - 1
    PROVE  Alu(op, w, x, y) \in Word
<1> DEFINE n == y % w
<1>1. 2^w \in Nat \ {0} /\ x \in Int /\ y \in Int /\ x \in Word /\ y \in Word
  BY Sizes, TruncType
<1>2. 2^n \in Nat \ {0}
  BY <1>1, ShiftAmount
<1> HIDE DEF n
<1>3. \A a \in Int : Trunc(a, w) \in Word
  BY TruncType
<1>4. And(x, y) \in Word /\ Or(x, y) \in Word /\ Xor(x, y) \in Word
  BY <1>1 DEF SizeFacts
<1>5. x \div 2^n \in 0 .. 2^w - 1
  BY <1>1, <1>2, ShiftedRight
<1>6. x \div 2^n \in Word
  BY <1>5, TruncType
<1>7. x + y \in Int /\ x - y \in Int /\ x * y \in Int /\ x * 2^n \in Int
  BY <1>1, <1>2
<1>8. SignedOf(x, w) \div 2^n \in Int
  <2>1. SignedOf(x, w) \in Int
    BY <1>1, SignedType
  <2>. QED
    BY <2>1, <1>2, DivMod
<1>9. Trunc(SignedOf(x, w) \div 2^n, w) \in Word
  BY <1>3, <1>8
<1>10. Trunc(x + y, w) \in Word /\ Trunc(x - y, w) \in Word /\ Trunc(x * y, w) \in Word
       /\ Trunc(x * 2^n, w) \in Word
  BY <1>3, <1>7
<1>. QED
  BY <1>1, <1>4, <1>6, <1>9, <1>10 DEF Alu, AluOps, ShiftRightArithmetic, n

LEMMA PerformAlu ==
    ASSUME NEW s, NEW e, e.op \in AluOps
    PROVE  Perform(s, e) = Set(s, e.d, Alu(e.op, e.w, Trunc(s.reg[e.d], e.w), Source(s, e)))
BY DEF Perform, AluOps

LEMMA AluStep ==
    ASSUME SizeFacts, NEW s, State(s), NEW op \in AluOps, NEW w \in Widths, NEW d \in Hosts,
           NEW r \in Hosts \cup {NONE}, NEW i \in Int
    PROVE  Writes(s, Perform(s, Ins(op, w, d, r, i)), d,
                  Alu(op, w, Trunc(s.reg[d], w), Trunc(IF r = NONE THEN i ELSE s.reg[r], w)))
<1> DEFINE e == Ins(op, w, d, r, i)
           y == IF r = NONE THEN i ELSE s.reg[r]
           v == Alu(op, w, Trunc(s.reg[d], w), Trunc(y, w))
<1>1. y \in Int /\ s.reg[d] \in Int
  BY Words
<1>2. Trunc(y, w) \in 0 .. 2^w - 1 /\ Trunc(s.reg[d], w) \in 0 .. 2^w - 1
  BY <1>1, TruncType
<1>3. v \in Word
  BY <1>2, AluType
<1>4. e.op = op /\ e.w = w /\ e.d = d /\ e.s = r /\ e.i = i
  BY DEF Ins
<1> HIDE DEF e
<1>5. Perform(s, e) = Set(s, d, v)
  BY <1>4, PerformAlu DEF Source
<1> HIDE DEF v
<1>6. Writes(s, Perform(s, e), d, v)
  BY <1>3, <1>5, SetWrites
<1>. QED
  BY <1>6 DEF e, v


LEMMA Performs ==
    ASSUME NEW s, NEW e
    PROVE  /\ e.op = "NEG" => Perform(s, e) = Set(s, e.d, Trunc(0 - s.reg[e.d], e.w))
           /\ e.op = "MOVSX" => Perform(s, e) = Set(s, e.d, W(SignedOf(s.reg[e.s], e.w)))
           /\ e.op = "MOVZX" => Perform(s, e) = Set(s, e.d, Trunc(s.reg[e.s], e.w))
           /\ e.op = "LEA" => Perform(s, e) = Set(s, e.d, Trunc(s.reg[e.s] + e.i, e.w))
           /\ e.op = "LEA_SUM" => Perform(s, e) = Set(s, e.d, Trunc(s.reg[e.s[1]] + s.reg[e.s[2]], e.w))
           /\ e.op = "LEA_SCALED" => Perform(s, e) = Set(s, e.d, Trunc(s.reg[e.s] * e.i, e.w))
           /\ e.op \in {"CMP", "TEST"} => Perform(s, e) =
                 [s EXCEPT !.flags = [x |-> Trunc(s.reg[e.d], e.w), w |-> e.w,
                                      y |-> IF e.op = "TEST" THEN 0 ELSE Source(s, e)]]
           /\ e.op \in {"SETL", "SETC"} => Perform(s, e) =
                 Set(s, e.d, s.reg[e.d] - Trunc(s.reg[e.d], BYTE)
                             + If(Holds(IF e.op = "SETL" THEN "L" ELSE "C", s.flags)))
           /\ e.op = "CMOV" =>
                 Perform(s, e) = Set(s, e.d, Trunc(s.reg[IF Holds(e.i, s.flags) THEN e.s ELSE e.d], e.w))
           /\ e.op \in {"IMUL1", "MUL1"} => Perform(s, e) = Multiply(s, e)
           /\ e.op \in {"IDIV", "DIV"} => Perform(s, e) = Divide(s, e)
           /\ e.op = "SEP" => Perform(s, e) =
                 Set(s, "DX", Trunc(0 - If(SignedOf(s.reg["AX"], e.w) < 0), e.w))
           /\ e.op = "LOAD" => Perform(s, e) = Set(s, e.d, LoadAt(s, e.s, e.i, e.w))
           /\ e.op = "LOADSX" => Perform(s, e) = Set(s, e.d, W(SignedOf(LoadAt(s, e.s, e.i, e.w), e.w)))
           /\ e.op = "STORE" => Perform(s, e) = StoreAt(s, e.d, e.i, e.w, s.reg[e.s])
           /\ e.op = "RMW" => Perform(s, e) =
                 StoreAt(s, e.d, 0, e.w, Alu(e.i, e.w, LoadAt(s, e.d, 0, e.w), Trunc(s.reg[e.s], e.w)))
BY DEF Perform, AluOps

LEMMA WordOf ==
    ASSUME SizeFacts, NEW a \in Int
    PROVE  W(a) \in Word /\ W(a) \in Int /\ W(a) = Trunc(a, XLEN)
BY TruncType DEF W, Trunc, Widths

LEMMA MoveExtended ==
    ASSUME SizeFacts, NEW s, State(s), NEW w \in Widths, NEW d \in Hosts, NEW r \in Hosts
    PROVE  /\ Writes(s, Perform(s, RR("MOVSX", w, d, r)), d, W(SignedOf(s.reg[r], w)))
           /\ Writes(s, Perform(s, RR("MOVZX", w, d, r)), d, Trunc(s.reg[r], w))
<1>1. s.reg[r] \in Int
  BY Words
<1>2. W(SignedOf(s.reg[r], w)) \in Word /\ Trunc(s.reg[r], w) \in Word
  BY <1>1, SignedType, TruncType, WordOf
<1>3. ASSUME NEW op, NEW e, e = RR(op, w, d, r)
      PROVE  e.op = op /\ e.w = w /\ e.d = d /\ e.s = r
  BY <1>3 DEF RR, Ins
<1>4. Perform(s, RR("MOVSX", w, d, r)) = Set(s, d, W(SignedOf(s.reg[r], w)))
  BY <1>3, Performs
<1>5. Perform(s, RR("MOVZX", w, d, r)) = Set(s, d, Trunc(s.reg[r], w))
  BY <1>3, Performs
<1>. QED
  BY <1>2, <1>4, <1>5, SetWrites

LEMMA MoveStep ==
    ASSUME SizeFacts, NEW s, State(s), NEW w \in Widths, NEW d \in Hosts, NEW r \in Hosts
    PROVE  Writes(s, Perform(s, RR("MOV", w, d, r)), d, Trunc(s.reg[r], w))
<1>1. "MOV" \in AluOps /\ r # NONE
  BY HostNames DEF AluOps
<1>2. Writes(s, Perform(s, Ins("MOV", w, d, r, 0)), d,
             Alu("MOV", w, Trunc(s.reg[d], w), Trunc(IF r = NONE THEN 0 ELSE s.reg[r], w)))
  BY <1>1, AluStep
<1>3. \A x, y : Alu("MOV", w, x, y) = y
  BY DEF Alu
<1>. QED
  BY <1>1, <1>2, <1>3 DEF RR

LEMMA LeaStep ==
    ASSUME SizeFacts, NEW s, State(s), NEW w \in Widths, NEW d \in Hosts, NEW r \in Hosts, NEW i \in Int
    PROVE  /\ Writes(s, Perform(s, Ins("LEA", w, d, r, i)), d, Trunc(s.reg[r] + i, w))
           /\ Writes(s, Perform(s, Ins("LEA_SCALED", w, d, r, i)), d, Trunc(s.reg[r] * i, w))
<1>1. s.reg[r] \in Int /\ s.reg[r] + i \in Int /\ s.reg[r] * i \in Int
  BY Words
<1>2. Trunc(s.reg[r] + i, w) \in Word /\ Trunc(s.reg[r] * i, w) \in Word
  BY <1>1, TruncType
<1>3. ASSUME NEW op, NEW e, e = Ins(op, w, d, r, i)
      PROVE  e.op = op /\ e.w = w /\ e.d = d /\ e.s = r /\ e.i = i
  BY <1>3 DEF Ins
<1>4. Perform(s, Ins("LEA", w, d, r, i)) = Set(s, d, Trunc(s.reg[r] + i, w))
  BY <1>3, Performs
<1>5. Perform(s, Ins("LEA_SCALED", w, d, r, i)) = Set(s, d, Trunc(s.reg[r] * i, w))
  BY <1>3, Performs
<1>. QED
  BY <1>2, <1>4, <1>5, SetWrites

LEMMA SumStep ==
    ASSUME SizeFacts, NEW s, State(s), NEW w \in Widths, NEW d \in Hosts, NEW r1 \in Hosts, NEW r2 \in Hosts
    PROVE  Writes(s, Perform(s, Ins("LEA_SUM", w, d, <<r1, r2>>, 0)), d, Trunc(s.reg[r1] + s.reg[r2], w))
<1>1. s.reg[r1] + s.reg[r2] \in Int
  BY Words
<1>2. Trunc(s.reg[r1] + s.reg[r2], w) \in Word
  BY <1>1, TruncType
<1>3. ASSUME NEW e, e = Ins("LEA_SUM", w, d, <<r1, r2>>, 0)
      PROVE  e.op = "LEA_SUM" /\ e.w = w /\ e.d = d /\ e.s[1] = r1 /\ e.s[2] = r2
  BY <1>3 DEF Ins
<1>4. Perform(s, Ins("LEA_SUM", w, d, <<r1, r2>>, 0)) = Set(s, d, Trunc(s.reg[r1] + s.reg[r2], w))
  BY <1>3, Performs
<1>. QED
  BY <1>2, <1>4, SetWrites

LEMMA NegStep ==
    ASSUME SizeFacts, NEW s, State(s), NEW w \in Widths, NEW d \in Hosts
    PROVE  Writes(s, Perform(s, R1("NEG", w, d)), d, Trunc(0 - s.reg[d], w))
<1>1. 0 - s.reg[d] \in Int
  BY Words
<1>2. Trunc(0 - s.reg[d], w) \in Word
  BY <1>1, TruncType
<1>3. ASSUME NEW e, e = R1("NEG", w, d)
      PROVE  e.op = "NEG" /\ e.w = w /\ e.d = d
  BY <1>3 DEF R1, Ins
<1>4. Perform(s, R1("NEG", w, d)) = Set(s, d, Trunc(0 - s.reg[d], w))
  BY <1>3, Performs
<1>. QED
  BY <1>2, <1>4, SetWrites

LEMMA CompareStep ==
    ASSUME SizeFacts, NEW s, State(s), NEW w \in Widths, NEW d \in Hosts, NEW r \in Hosts \cup {NONE}, NEW i \in Int
    PROVE  /\ Compares(s, Perform(s, Ins("CMP", w, d, r, i)), Trunc(s.reg[d], w),
                       Trunc(IF r = NONE THEN i ELSE s.reg[r], w), w)
           /\ Compares(s, Perform(s, R1("TEST", w, d)), Trunc(s.reg[d], w), 0, w)
<1>1. ASSUME NEW e, e = Ins("CMP", w, d, r, i)
      PROVE  e.op = "CMP" /\ e.w = w /\ e.d = d /\ e.s = r /\ e.i = i
  BY <1>1 DEF Ins
<1>2. ASSUME NEW e, e = R1("TEST", w, d)
      PROVE  e.op = "TEST" /\ e.w = w /\ e.d = d
  BY <1>2 DEF R1, Ins
<1> DEFINE y == Trunc(IF r = NONE THEN i ELSE s.reg[r], w)
<1>3. ASSUME NEW e, e = Ins("CMP", w, d, r, i)
      PROVE  Perform(s, e) = [s EXCEPT !.flags = [x |-> Trunc(s.reg[d], w), w |-> w, y |-> y]]
  <2>1. e.op = "CMP" /\ e.w = w /\ e.d = d /\ Source(s, e) = y
    BY <1>1, <1>3 DEF Source
  <2> HIDE DEF y
  <2>. QED
    BY <2>1, Performs
<1>4. ASSUME NEW e, e = R1("TEST", w, d)
      PROVE  Perform(s, e) = [s EXCEPT !.flags = [x |-> Trunc(s.reg[d], w), w |-> w, y |-> 0]]
  <2>1. e.op = "TEST" /\ e.w = w /\ e.d = d
    BY <1>2, <1>4
  <2>. QED
    BY <2>1, Performs
<1> HIDE DEF y
<1>5. ASSUME NEW t, NEW x, NEW z, t = [s EXCEPT !.flags = [x |-> x, w |-> w, y |-> z]]
      PROVE  Compares(s, t, x, z, w)
  BY <1>5 DEF Compares, State
<1>6. Compares(s, Perform(s, Ins("CMP", w, d, r, i)), Trunc(s.reg[d], w), y, w)
  <2>1. Perform(s, Ins("CMP", w, d, r, i)) = [s EXCEPT !.flags = [x |-> Trunc(s.reg[d], w), w |-> w, y |-> y]]
    BY <1>3
  <2>. QED
    BY <2>1, <1>5
<1>7. Compares(s, Perform(s, R1("TEST", w, d)), Trunc(s.reg[d], w), 0, w)
  <2>1. Perform(s, R1("TEST", w, d)) = [s EXCEPT !.flags = [x |-> Trunc(s.reg[d], w), w |-> w, y |-> 0]]
    BY <1>4
  <2>. QED
    BY <2>1, <1>5
<1>. QED
  BY <1>6, <1>7 DEF y


-----------------------------------------------------------------------------
(* Code without jumps: up to seven instructions, one after the other. *)

\* Every operation but the jumps and the divisions, which may trap.
PlainOps == AluOps \cup {"NEG", "MOVSX", "MOVZX", "LEA", "LEA_SUM", "LEA_SCALED", "CMP", "TEST", "SETL", "SETC",
                        "CMOV", "IMUL1", "MUL1", "SEP", "LOAD", "LOADSX", "STORE", "RMW"}

IsCode(c) == \E S : c \in Seq(S)

After(c, s, k) ==
    LET s1 == Perform(s, c[1])
        s2 == Perform(s1, c[2])
        s3 == Perform(s2, c[3])
        s4 == Perform(s3, c[4])
        s5 == Perform(s4, c[5])
        s6 == Perform(s5, c[6])
        s7 == Perform(s6, c[7])
    IN  CASE k = 0 -> s [] k = 1 -> s1 [] k = 2 -> s2 [] k = 3 -> s3 [] k = 4 -> s4
          [] k = 5 -> s5 [] k = 6 -> s6 [] k = 7 -> s7

Straight(c, n) ==
    /\ IsCode(c) /\ Len(c) \in 0 .. n
    /\ \A k \in 1 .. Len(c) : c[k].op \in PlainOps
Final(c, s) == After(c, s, Len(c))

\* At most n plain instructions, which leave v in register d and change
\* nothing else; and the same for a v whose lower w bits are those of x.
Gives(c, n, s, d, v) == Straight(c, n) /\ Writes(s, Final(c, s), d, v)
Leaves(c, n, s, d, w, x) == \E v \in Word : Gives(c, n, s, d, v) /\ Trunc(v, w) = Trunc(x, w)

LEMMA AfterNext ==
    ASSUME NEW c, NEW s, NEW k \in 0 .. 6
    PROVE  After(c, s, k + 1) = Perform(After(c, s, k), c[k + 1])
<1>1. k = 0 \/ k = 1 \/ k = 2 \/ k = 3 \/ k = 4 \/ k = 5 \/ k = 6
  OBVIOUS
<1>. QED
  BY <1>1 DEF After

LEMMA AfterSame ==
    ASSUME NEW c, NEW e, NEW s, NEW k \in 0 .. 7, \A j \in 1 .. k : c[j] = e[j]
    PROVE  After(c, s, k) = After(e, s, k)
<1>1. k = 0 \/ k = 1 \/ k = 2 \/ k = 3 \/ k = 4 \/ k = 5 \/ k = 6 \/ k = 7
  OBVIOUS
<1>2. /\ k >= 1 => c[1] = e[1]
      /\ k >= 2 => c[2] = e[2]
      /\ k >= 3 => c[3] = e[3]
      /\ k >= 4 => c[4] = e[4]
      /\ k >= 5 => c[5] = e[5]
      /\ k >= 6 => c[6] = e[6]
      /\ k >= 7 => c[7] = e[7]
  OBVIOUS
<1>. QED
  BY <1>1, <1>2 DEF After

LEMMA Joined ==
    ASSUME NEW c, IsCode(c), NEW e
    PROVE  /\ IsCode(c \o <<e>>) /\ Len(c \o <<e>>) = Len(c) + 1 /\ Len(c) \in Nat
           /\ \A k \in 1 .. Len(c) : (c \o <<e>>)[k] = c[k]
           /\ (c \o <<e>>)[Len(c) + 1] = e
<1>1. PICK S : c \in Seq(S)
  BY DEF IsCode
<1> DEFINE U == S \cup {e}
<1>2. c \in Seq(U) /\ <<e>> \in Seq(U)
  <2>1. S \subseteq U
    OBVIOUS
  <2>. QED
    BY <1>1, <2>1
<1>3. c \o <<e>> \in Seq(U)
  BY <1>2
<1>4. /\ Len(c \o <<e>>) = Len(c) + 1 /\ Len(c) \in Nat
      /\ \A k \in 1 .. Len(c) : (c \o <<e>>)[k] = c[k]
      /\ (c \o <<e>>)[Len(c) + 1] = e
  BY <1>2
<1>5. IsCode(c \o <<e>>)
  BY <1>3 DEF IsCode
<1>. QED
  BY <1>4, <1>5

LEMMA StraightJoined ==
    ASSUME NEW n \in 0 .. 6, NEW c, Straight(c, n), NEW e, e.op \in PlainOps, NEW s
    PROVE  /\ Straight(c \o <<e>>, n + 1)
           /\ Final(c \o <<e>>, s) = Perform(Final(c, s), e)
<1> DEFINE u == c \o <<e>>
           l == Len(c)
<1>1. /\ IsCode(u) /\ Len(u) = l + 1 /\ l \in 0 .. n
      /\ (\A k \in 1 .. l : u[k] = c[k]) /\ u[l + 1] = e
  BY Joined DEF Straight
<1>2. \A k \in 1 .. l : c[k].op \in PlainOps
  BY DEF Straight
<1> HIDE DEF u, l
<1>3. l \in 0 .. 6 /\ l \in 0 .. 7 /\ l + 1 \in 0 .. n + 1
  BY <1>1
<1>4. \A k \in 1 .. l + 1 : k \in 1 .. l \/ k = l + 1
  BY <1>3
<1>5. \A k \in 1 .. l + 1 : u[k].op \in PlainOps
  BY <1>1, <1>2, <1>4
<1>6. After(u, s, l + 1) = Perform(After(u, s, l), u[l + 1])
  BY <1>3, AfterNext
<1>7. After(u, s, l) = After(c, s, l)
  BY <1>1, <1>3, AfterSame
<1>8. Straight(u, n + 1)
  BY <1>1, <1>3, <1>5 DEF Straight
<1>9. Final(u, s) = Perform(Final(c, s), e)
  BY <1>1, <1>6, <1>7 DEF Final, l
<1>. QED
  BY <1>8, <1>9 DEF u

LEMMA StraightEmpty ==
    ASSUME NEW n \in Nat, NEW s
    PROVE  Straight(<<>>, n) /\ Final(<<>>, s) = s
<1>1. <<>> \in Seq({}) /\ Len(<<>>) = 0
  OBVIOUS
<1>. QED
  BY <1>1 DEF Straight, IsCode, Final, After

LEMMA StraightOne ==
    ASSUME NEW e, e.op \in PlainOps, NEW s
    PROVE  Straight(<<e>>, 1) /\ Final(<<e>>, s) = Perform(s, e)
<1>1. <<e>> \in Seq({e}) /\ Len(<<e>>) = 1 /\ <<e>>[1] = e
  OBVIOUS
<1>2. Straight(<<e>>, 1)
  <2>1. IsCode(<<e>>)
    BY <1>1 DEF IsCode
  <2> DEFINE c == <<e>>
  <2>2. Len(c) \in 0 .. 1 /\ (\A k \in 1 .. Len(c) : c[k].op \in PlainOps)
    BY <1>1
  <2> HIDE DEF c
  <2>3. Straight(c, 1)
    BY <2>1, <2>2 DEF Straight, c
  <2>. QED
    BY <2>3 DEF c
<1>3. After(<<e>>, s, 1) = Perform(s, e)
  BY <1>1 DEF After
<1>. QED
  BY <1>1, <1>2, <1>3 DEF Final

LEMMA GivesMore ==
    ASSUME NEW n \in 0 .. 6, NEW k \in 0 .. 7, n <= k, NEW c, NEW s, NEW d, NEW v, Gives(c, n, s, d, v)
    PROVE  Gives(c, k, s, d, v)
BY DEF Gives, Straight

LEMMA GivesNothing ==
    ASSUME NEW s, State(s), NEW d \in Hosts
    PROVE  Gives(<<>>, 0, s, d, s.reg[d])
BY StraightEmpty, WritesNothing DEF Gives

LEMMA GivesOne ==
    ASSUME NEW s, NEW e, e.op \in PlainOps, NEW d, NEW v, Writes(s, Perform(s, e), d, v)
    PROVE  Gives(<<e>>, 1, s, d, v)
BY StraightOne DEF Gives

LEMMA GivesNext ==
    ASSUME NEW n \in 0 .. 6, NEW c, NEW s, NEW d, NEW v, Gives(c, n, s, d, v),
           NEW e, e.op \in PlainOps, NEW x,
           \A t : Writes(s, t, d, v) => Writes(t, Perform(t, e), d, x)
    PROVE  Gives(c \o <<e>>, n + 1, s, d, x)
<1> DEFINE t == Final(c, s)
<1>1. Writes(s, t, d, v) /\ Straight(c, n)
  BY DEF Gives
<1>2. Writes(t, Perform(t, e), d, x)
  BY <1>1
<1>3. Writes(s, Perform(t, e), d, x)
  BY <1>1, <1>2, WritesTwice
<1>. QED
  BY <1>1, <1>3, StraightJoined DEF Gives

\* Results: of the width of the words, and of half of it, sign-extended.
LEMMA WholeResult ==
    ASSUME SizeFacts, NEW n, NEW c, NEW s, NEW d, NEW x \in Int, Leaves(c, n, s, d, XLEN, x)
    PROVE  Gives(c, n, s, d, W(SignedOf(x, XLEN)))
<1>1. PICK v \in Word : Gives(c, n, s, d, v) /\ Trunc(v, XLEN) = Trunc(x, XLEN)
  BY DEF Leaves
<1>2. XLEN \in Widths /\ 2^XLEN \in Nat \ {0}
  BY Sizes DEF Widths
<1>3. v \in 0 .. 2^XLEN - 1 /\ v \in Int
  BY <1>2 DEF Word
<1>4. Trunc(v, XLEN) = v
  BY <1>2, <1>3, TruncType
<1>5. SignedOf(x, XLEN) \in Int /\ Trunc(SignedOf(x, XLEN), XLEN) = Trunc(x, XLEN)
  BY <1>2, SignedType
<1>6. W(SignedOf(x, XLEN)) = v
  BY <1>1, <1>4, <1>5, WordOf
<1>. QED
  BY <1>1, <1>6

LEMMA HalfResult ==
    ASSUME SizeFacts, NEW n \in 0 .. 6, NEW c, NEW s, NEW d \in Hosts, NEW x,
           Leaves(c, n, s, d, HALF, x)
    PROVE  Gives(c \o SignExtend(d), n + 1, s, d, W(SignedOf(x, HALF)))
<1>1. PICK v \in Word : Gives(c, n, s, d, v) /\ Trunc(v, HALF) = Trunc(x, HALF)
  BY DEF Leaves
<1> DEFINE e == RR("MOVSX", HALF, d, d)
<1>2. HALF \in Widths /\ e.op \in PlainOps
  BY DEF Widths, RR, Ins, PlainOps, AluOps
<1>3. ASSUME NEW t, Writes(s, t, d, v)
      PROVE  Writes(t, Perform(t, e), d, W(SignedOf(v, HALF)))
  <2>1. State(t) /\ t.reg[d] = v
    BY <1>3 DEF Writes
  <2>2. Writes(t, Perform(t, e), d, W(SignedOf(t.reg[d], HALF)))
    BY <1>2, <2>1, MoveExtended
  <2>. QED
    BY <2>1, <2>2
<1> HIDE DEF e
<1>4. Gives(c \o <<e>>, n + 1, s, d, W(SignedOf(v, HALF)))
  BY <1>1, <1>2, <1>3, GivesNext
<1>5. SignedOf(v, HALF) = SignedOf(x, HALF)
  BY <1>1, SignedSame
<1>. QED
  BY <1>4, <1>5 DEF SignExtend, e

-----------------------------------------------------------------------------
(* Immediate and register operations. *)

\* The numbers that a w bit operation is given.
Reads(s, r, i) == IF r = NONE THEN i ELSE s.reg[r]

\* A move to d, if it is another register, and an operation on d.
LEMMA MoveOp ==
    ASSUME SizeFacts, NEW s, State(s), NEW op \in AluOps, NEW w \in Widths, NEW x \in {w, XLEN},
           NEW d \in Hosts, NEW s1 \in Hosts, NEW r \in Hosts \cup {NONE}, NEW i \in Int, r = d => d = s1
    PROVE  Gives(MoveIfOther(x, d, s1) \o <<Ins(op, w, d, r, i)>>, 2, s, d,
                 Alu(op, w, Trunc(s.reg[s1], w), Trunc(Reads(s, r, i), w)))
<1> DEFINE e == Ins(op, w, d, r, i)
           v == Alu(op, w, Trunc(s.reg[s1], w), Trunc(Reads(s, r, i), w))
<1>1. e.op \in PlainOps
  BY DEF Ins, PlainOps, AluOps
<1>2. ASSUME NEW u, Trunc(u, w) = Trunc(s.reg[s1], w), d = s1 => u = s.reg[s1], NEW t, Writes(s, t, d, u)
      PROVE  Writes(t, Perform(t, e), d, v)
  <2>1. State(t) /\ t.reg[d] = u /\ \A h \in Hosts \ {d} : t.reg[h] = s.reg[h]
    BY <1>2 DEF Writes
  <2>2. Writes(t, Perform(t, e), d, Alu(op, w, Trunc(t.reg[d], w), Trunc(Reads(t, r, i), w)))
    BY <2>1, AluStep DEF Reads
  <2>3. Reads(t, r, i) = Reads(s, r, i)
    BY <1>2, <2>1 DEF Reads
  <2>. QED
    BY <1>2, <2>1, <2>2, <2>3
<1> HIDE DEF e, v
<1>3. CASE d = s1
  <2>1. Writes(s, s, d, s.reg[s1])
    BY <1>3, WritesNothing
  <2>2. Writes(s, Perform(s, e), d, v)
    BY <1>2, <2>1
  <2>3. Gives(<<e>>, 1, s, d, v)
    BY <1>1, <2>2, GivesOne
  <2>4. Gives(<<>> \o <<e>>, 1, s, d, v)
    BY <2>3
  <2>5. Gives(<<>> \o <<e>>, 2, s, d, v)
    BY <2>4, GivesMore
  <2>. QED
    BY <1>3, <2>5 DEF MoveIfOther, e, v
<1>4. CASE d # s1
  <2> DEFINE a == RR("MOV", x, d, s1)
             u == Trunc(s.reg[s1], x)
  <2>1. x \in Widths /\ a.op \in PlainOps
    BY DEF Widths, RR, Ins, PlainOps, AluOps
  <2>2. Writes(s, Perform(s, a), d, u)
    BY <2>1, MoveStep
  <2>3. Trunc(u, w) = Trunc(s.reg[s1], w)
    BY Words, TruncSame DEF W, Trunc
  <2> HIDE DEF a, u
  <2>4. Gives(<<a>>, 1, s, d, u)
    BY <2>1, <2>2, GivesOne
  <2>5. \A t : Writes(s, t, d, u) => Writes(t, Perform(t, e), d, v)
    BY <1>2, <1>4, <2>3
  <2>6. Gives(<<a>> \o <<e>>, 1 + 1, s, d, v)
    BY <1>1, <2>4, <2>5, GivesNext
  <2>7. Gives(<<a>> \o <<e>>, 2, s, d, v)
    BY <2>6
  <2>. QED
    BY <1>4, <2>7 DEF MoveIfOther, e, v, a
<1>. QED
  BY <1>3, <1>4

\* The widths are divisors of what their registers hold.
LEMMA WidthDivides ==
    ASSUME SizeFacts, NEW w \in {HALF, XLEN}
    PROVE  /\ \E g \in Nat \ {0} : 2^w = w * g
           /\ w < 2^w
<1> DEFINE p == 2^HALF
           q == p \div XLEN
<1>1. HALF \in Nat \ {0} /\ XLEN = 2 * HALF
  BY WidthAssumption
<1>2. p \in Nat \ {0} /\ p % XLEN = 0
  BY Sizes DEF SizeFacts, Widths
<1>3. 2^XLEN = p * p
  <2>1. HALF \in 0 .. XLEN /\ HALF \in 0 .. XLEN - HALF /\ HALF + HALF = XLEN
    BY <1>1
  <2>2. 2^(HALF + HALF) = 2^HALF * 2^HALF
    BY <2>1 DEF SizeFacts
  <2>. QED
    BY <2>1, <2>2
<1> HIDE DEF p
<1>4. p = XLEN * q /\ q \in Int
  <2>1. XLEN \in Nat \ {0} /\ p \in Int
    BY <1>1, <1>2
  <2>2. p = (XLEN * (p \div XLEN)) + (p % XLEN) /\ p \div XLEN \in Int
    BY <2>1, DivMod
  <2>3. XLEN * (p \div XLEN) \in Int
    BY <2>1, <2>2
  <2>. QED
    BY <1>2, <2>2, <2>3
<1> HIDE DEF q
<1>5. q > 0
  <2>1. CASE q <= 0
    <3>1. XLEN * q <= 0
      BY <1>1, <1>4, <2>1
    <3>. QED
      BY <1>2, <1>4, <3>1
  <2>. QED
    BY <1>4, <2>1
<1>6. p >= XLEN
  BY <1>1, <1>4, <1>5
<1>7. CASE w = HALF
  <2>1. p = HALF * (2 * q) /\ 2 * q \in Nat \ {0}
    BY <1>1, <1>4, <1>5
  <2>. QED
    BY <1>1, <1>6, <1>7, <2>1 DEF p
<1>8. CASE w = XLEN
  <2> DEFINE g == q * p
  <2>0. g \in Nat \ {0} /\ p * p = (XLEN * q) * p
    BY <1>2, <1>4, <1>5
  <2>1. p * p = XLEN * g
    BY <1>1, <1>2, <1>4, <2>0
  <2>2. p * p >= p * 2
    <3>1. p >= 2
      <4>1. p \in Nat /\ XLEN >= 2 /\ XLEN \in Nat
        BY <1>1, <1>2
      <4>. QED
        BY <4>1, <1>6
    <3>. QED
      BY <1>2, <3>1
  <2>3. p * p > XLEN
    BY <1>2, <1>1, <1>6, <2>2
  <2>. QED
    BY <1>3, <1>8, <2>0, <2>1, <2>3
<1>. QED
  BY <1>7, <1>8

\* Shift amounts may be cut to the width, and be taken modulo it before.
LEMMA SameShift ==
    ASSUME SizeFacts, NEW w \in {HALF, XLEN}, NEW i \in Int
    PROVE  Trunc(i, w) % w = i % w /\ Trunc(i % w, w) % w = i % w /\ i % w \in 0 .. w - 1
<1>1. w \in Nat \ {0} /\ w \in Widths
  BY WidthAssumption DEF Widths
<1>2. PICK g \in Nat \ {0} : 2^w = w * g
  BY WidthDivides
<1>3. (i % (w * g)) % w = i % w
  BY <1>1, <1>2, ModTwice
<1>4. i % w \in 0 .. w - 1
  BY <1>1, DivMod
<1>5. 2^w \in Nat /\ i % w \in Int /\ w < 2^w
  BY <1>1, <1>4, Sizes, WidthDivides
<1>6. i % w \in 0 .. 2^w - 1
  BY <1>1, <1>4, <1>5
<1>7. Trunc(i % w, w) = i % w
  BY <1>1, <1>5, <1>6, TruncType
<1>8. (i % w) % w = i % w
  BY <1>1, <1>4, ModSmall
<1>. QED
  BY <1>2, <1>3, <1>4, <1>7, <1>8 DEF Trunc

\* The host's operation for the guest's.
AluFor(mn) ==
    CASE mn \in {"ADD", "ADDI"} -> "ADD" [] mn = "SUB" -> "SUB" [] mn \in {"XOR", "XORI"} -> "XOR"
      [] mn \in {"OR", "ORI"} -> "OR" [] mn \in {"AND", "ANDI"} -> "AND" [] mn = "MUL" -> "IMUL"
      [] mn \in {"SLL", "SLLI"} -> "SHL" [] mn \in {"SRL", "SRLI"} -> "SHR"
      [] mn \in {"SRA", "SRAI"} -> "SAR"
AluMnems == {"ADD", "ADDI", "SUB", "XOR", "XORI", "OR", "ORI", "AND", "ANDI", "MUL",
             "SLL", "SLLI", "SRL", "SRLI", "SRA", "SRAI"}

LEMMA AluComputes ==
    ASSUME SizeFacts, NEW w \in {HALF, XLEN}, NEW a \in 0 .. 2^w - 1, NEW b \in 0 .. 2^w - 1,
           NEW mn \in AluMnems
    PROVE  /\ AluFor(mn) \in AluOps
           /\ Trunc(Alu(AluFor(mn), w, a, b), w) = Trunc(Computes(mn, a, b, w), w)
           /\ Computes(mn, a, b, w) \in Int
<1> DEFINE n == b % w
           sa == SignedOf(a, w)
           sb == SignedOf(b, w)
<1>1. w \in Widths /\ 2^w \in Nat \ {0} /\ a \in Int /\ b \in Int /\ a \in Word /\ b \in Word
  <2>1. w \in Widths
    BY DEF Widths
  <2>2. 2^w \in Nat \ {0}
    BY <2>1, Sizes
  <2>3. a \in Int /\ b \in Int
    BY <2>2
  <2>. QED
    BY <2>1, <2>2, <2>3, TruncType
<1>2. 2^n \in Nat \ {0}
  BY <1>1, ShiftAmount
<1>3. sa \in Int /\ sb \in Int /\ Trunc(sa, w) = Trunc(a, w) /\ Trunc(sb, w) = Trunc(b, w)
  BY <1>1, SignedType
<1>4. Xor(a, b) \in Int /\ Or(a, b) \in Int /\ And(a, b) \in Int
  <2>1. Word \subseteq Int
    BY Sizes DEF Word, Widths
  <2>. QED
    BY <1>1, <2>1 DEF SizeFacts
<1>5. a \div 2^n \in Int /\ sa \div 2^n \in Int /\ a * 2^n \in Int /\ a + b \in Int /\ a - b \in Int
      /\ a * b \in Int /\ sa * sb \in Int
  <2> DEFINE k == 2^n
  <2>0. k \in Nat \ {0}
    BY <1>2
  <2> HIDE DEF k, n, sa, sb
  <2>1. a \div k \in Int /\ sa \div k \in Int
    BY <2>0, <1>1, <1>3, DivMod
  <2>2. a * k \in Int /\ a + b \in Int /\ a - b \in Int /\ a * b \in Int /\ sa * sb \in Int
    BY <2>0, <1>1, <1>3
  <2>. QED
    BY <2>1, <2>2 DEF k
<1>6. \A x \in Int : Trunc(Trunc(x, w), w) = Trunc(x, w)
  BY <1>1, TruncSame
<1>7. Trunc(a * b, w) = Trunc(sa * sb, w)
  BY <1>1, <1>3, TruncAlu
<1>8. /\ \A x, y : Alu("ADD", w, x, y) = Trunc(x + y, w)
      /\ \A x, y : Alu("SUB", w, x, y) = Trunc(x - y, w)
      /\ \A x, y : Alu("AND", w, x, y) = And(x, y)
      /\ \A x, y : Alu("OR", w, x, y) = Or(x, y)
      /\ \A x, y : Alu("XOR", w, x, y) = Xor(x, y)
      /\ \A x, y : Alu("IMUL", w, x, y) = Trunc(x * y, w)
      /\ Alu("SHL", w, a, b) = Trunc(a * 2^n, w)
      /\ Alu("SHR", w, a, b) = a \div 2^n
      /\ Alu("SAR", w, a, b) = Trunc(sa \div 2^n, w)
  BY DEF Alu, ShiftRightArithmetic
<1>9. /\ mn \in {"ADD", "ADDI"} => Computes(mn, a, b, w) = a + b /\ AluFor(mn) = "ADD"
      /\ mn = "SUB" => Computes(mn, a, b, w) = a - b /\ AluFor(mn) = "SUB"
      /\ mn \in {"XOR", "XORI"} => Computes(mn, a, b, w) = Xor(a, b) /\ AluFor(mn) = "XOR"
      /\ mn \in {"OR", "ORI"} => Computes(mn, a, b, w) = Or(a, b) /\ AluFor(mn) = "OR"
      /\ mn \in {"AND", "ANDI"} => Computes(mn, a, b, w) = And(a, b) /\ AluFor(mn) = "AND"
      /\ mn \in {"SLL", "SLLI"} => Computes(mn, a, b, w) = a * 2^n /\ AluFor(mn) = "SHL"
      /\ mn \in {"SRL", "SRLI"} => Computes(mn, a, b, w) = a \div 2^n /\ AluFor(mn) = "SHR"
      /\ mn \in {"SRA", "SRAI"} => Computes(mn, a, b, w) = sa \div 2^n /\ AluFor(mn) = "SAR"
      /\ mn = "MUL" => Computes(mn, a, b, w) = sa * sb /\ AluFor(mn) = "IMUL"
  BY DEF Computes, AluFor
<1> HIDE DEF n, sa, sb
<1>. QED
  BY <1>4, <1>5, <1>6, <1>7, <1>8, <1>9 DEF AluMnems, AluOps

\* The code leaves in d what the guest's mn computes of u and v.
Right(c, n, s, d, w, mn, u, v) == Leaves(c, n, s, d, w, Computes(mn, Trunc(u, w), Trunc(v, w), w))

LEMMA RightMore ==
    ASSUME NEW n \in 0 .. 6, NEW k \in 0 .. 7, n <= k, NEW c, NEW s, NEW d, NEW w, NEW mn, NEW u, NEW v,
           Right(c, n, s, d, w, mn, u, v)
    PROVE  Right(c, k, s, d, w, mn, u, v)
BY GivesMore DEF Right, Leaves

\* A move and the operation that mn is translated into.
LEMMA MoveOpRight ==
    ASSUME SizeFacts, NEW s, State(s), NEW w \in {HALF, XLEN}, NEW x \in {w, XLEN},
           NEW mn \in AluMnems, NEW op, op = AluFor(mn),
           NEW d \in Hosts, NEW s1 \in Hosts, NEW r \in Hosts \cup {NONE}, NEW i \in Int, r = d => d = s1
    PROVE  Right(MoveIfOther(x, d, s1) \o <<Ins(op, w, d, r, i)>>, 2, s, d, w, mn,
                 s.reg[s1], Reads(s, r, i))
<1> DEFINE a == Trunc(s.reg[s1], w)
           b == Trunc(Reads(s, r, i), w)
           c == MoveIfOther(x, d, s1) \o <<Ins(op, w, d, r, i)>>
           v == Alu(op, w, a, b)
<1>1. s.reg[s1] \in Int /\ Reads(s, r, i) \in Int
  BY Words DEF Reads
<1>2. a \in 0 .. 2^w - 1 /\ b \in 0 .. 2^w - 1 /\ w \in Widths
  BY <1>1, TruncType DEF Widths
<1>3. op \in AluOps /\ Trunc(v, w) = Trunc(Computes(mn, a, b, w), w)
  BY <1>2, AluComputes
<1>4. v \in Word
  BY <1>2, <1>3, AluType
<1>5. Gives(c, 2, s, d, v)
  BY <1>2, <1>3, MoveOp
<1>. QED
  BY <1>3, <1>4, <1>5 DEF Right, Leaves

LEMMA RightOne ==
    ASSUME NEW s, NEW e, e.op \in PlainOps, NEW d, NEW v \in Word, Writes(s, Perform(s, e), d, v),
           NEW w, NEW mn, NEW a, NEW b, Trunc(v, w) = Trunc(Computes(mn, Trunc(a, w), Trunc(b, w), w), w)
    PROVE  Right(<<e>>, 1, s, d, w, mn, a, b)
BY GivesOne DEF Right, Leaves

\* An addition, a subtraction, a shift to the left of what is cut to the width.
LEMMA ComputesCut ==
    ASSUME SizeFacts, NEW w \in {HALF, XLEN}, NEW a \in Int, NEW b \in Int
    PROVE  LET x == Trunc(a, w)
               y == Trunc(b, w)
           IN  /\ Trunc(Trunc(a + b, w), w) = Trunc(Computes("ADD", x, y, w), w)
               /\ Trunc(Trunc(a + b, w), w) = Trunc(Computes("ADDI", x, y, w), w)
               /\ Trunc(Trunc(a - b, w), w) = Trunc(Computes("SUB", x, y, w), w)
               /\ Trunc(Trunc(a * 2^(b % w), w), w) = Trunc(Computes("SLLI", x, y, w), w)
<1> DEFINE x == Trunc(a, w)
           y == Trunc(b, w)
           k == 2^(b % w)
<1>1. w \in Widths
  BY DEF Widths
<1>2. x \in Int /\ y \in Int /\ Trunc(x, w) = Trunc(a, w) /\ Trunc(y, w) = Trunc(b, w)
  BY <1>1, TruncType, TruncSame
<1>3. k \in Nat \ {0} /\ y % w = b % w
  BY <1>1, ShiftAmount, SameShift
<1>4. /\ Computes("ADD", x, y, w) = x + y /\ Computes("ADDI", x, y, w) = x + y
      /\ Computes("SUB", x, y, w) = x - y /\ Computes("SLLI", x, y, w) = x * k
  BY <1>3 DEF Computes
<1> HIDE DEF x, y, k
<1>5. a + b \in Int /\ a - b \in Int /\ a * k \in Int /\ k \in Int
  BY <1>3
<1>6. \A n \in Int : Trunc(Trunc(n, w), w) = Trunc(n, w)
  BY <1>1, TruncSame
<1>7. Trunc(a + b, w) = Trunc(x + y, w) /\ Trunc(a - b, w) = Trunc(x - y, w)
  BY <1>1, <1>2, TruncAlu
<1>8. Trunc(a * k, w) = Trunc(x * k, w)
  <2>0. k \in Int
    BY <1>3
  <2> DEFINE p == 2^w
  <2>1. PICK i \in Int : a = x + (p * i)
    BY <1>1, <1>2, SameWhole
  <2>2. p \in Int
    BY <1>1, Sizes
  <2> HIDE DEF p
  <2>3. a * k = (x * k) + (p * (i * k)) /\ i * k \in Int /\ a * k \in Int /\ x * k \in Int
    BY <1>2, <2>0, <2>1, <2>2
  <2>. QED
    BY <1>1, <2>3, TruncCongruent DEF p
<1>. QED
  BY <1>4, <1>5, <1>6, <1>7, <1>8 DEF x, y, k

LEMMA AddImmRight ==
    ASSUME SizeFacts, NEW s, State(s), NEW w \in {HALF, XLEN}, NEW d \in Hosts, NEW s1 \in Hosts, NEW imm \in Int
    PROVE  Right(AddImm(w, d, s1, imm), 2, s, d, w, "ADDI", s.reg[s1], imm)
<1> DEFINE u == s.reg[s1]
<1>1. w \in Widths /\ u \in Int /\ u \in Word
  BY Words DEF Widths
<1>2. CASE d # s1
  <2> DEFINE e == Ins("LEA", w, d, s1, imm)
             v == Trunc(u + imm, w)
  <2>1. e.op \in PlainOps
    BY DEF Ins, PlainOps, AluOps
  <2>2. Writes(s, Perform(s, e), d, v)
    BY <1>1, LeaStep
  <2>3. u + imm \in Int
    BY <1>1
  <2>4. v \in Word
    BY <1>1, <2>3, TruncType
  <2>5. Trunc(v, w) = Trunc(Computes("ADDI", Trunc(u, w), Trunc(imm, w), w), w)
    BY <1>1, ComputesCut
  <2> HIDE DEF e, v, u
  <2>6. Right(<<e>>, 1, s, d, w, "ADDI", u, imm)
    BY <2>1, <2>2, <2>4, <2>5, RightOne
  <2>7. Right(<<e>>, 2, s, d, w, "ADDI", u, imm)
    BY <2>6, RightMore
  <2>. QED
    BY <1>2, <2>7 DEF AddImm, e, u
<1>3. CASE d = s1 /\ imm # 0
  <2>1. "ADDI" \in AluMnems /\ "ADD" = AluFor("ADDI") /\ NONE # d
    BY HostNames DEF AluMnems, AluFor
  <2>2. Right(MoveIfOther(w, d, s1) \o <<Ins("ADD", w, d, NONE, imm)>>, 2, s, d, w, "ADDI", u, Reads(s, NONE, imm))
    BY <2>1, MoveOpRight
  <2>3. MoveIfOther(w, d, s1) \o <<Ins("ADD", w, d, NONE, imm)>> = <<Ins("ADD", w, d, NONE, imm)>>
    BY <1>3 DEF MoveIfOther
  <2>4. Reads(s, NONE, imm) = imm
    BY DEF Reads
  <2>. QED
    BY <1>3, <2>2, <2>3, <2>4 DEF AddImm, RI
<1>4. CASE d = s1 /\ imm = 0
  <2>1. Gives(<<>>, 0, s, d, u)
    BY <1>4, GivesNothing
  <2>2. Gives(<<>>, 2, s, d, u)
    BY <2>1, GivesMore
  <2>3. u + imm = u
    BY <1>1, <1>4
  <2>4. Trunc(Trunc(u, w), w) = Trunc(Computes("ADDI", Trunc(u, w), Trunc(imm, w), w), w)
    <3>1. Trunc(Trunc(u + imm, w), w) = Trunc(Computes("ADDI", Trunc(u, w), Trunc(imm, w), w), w)
      BY <1>1, ComputesCut
    <3>. QED
      BY <2>3, <3>1
  <2>5. Trunc(Trunc(u, w), w) = Trunc(u, w)
    BY <1>1, TruncSame
  <2>. QED
    BY <1>1, <1>4, <2>2, <2>4, <2>5 DEF AddImm, Right, Leaves
<1>. QED
  BY <1>2, <1>3, <1>4

LEMMA ShiftLeftImmRight ==
    ASSUME SizeFacts, NEW s, State(s), NEW w \in {HALF, XLEN}, NEW d \in Hosts, NEW s1 \in Hosts, NEW imm \in Int
    PROVE  Right(ShiftLeftImm(w, d, s1, imm % w), 2, s, d, w, "SLLI", s.reg[s1], imm)
<1> DEFINE u == s.reg[s1]
           n == imm % w
<1>1. w \in Widths /\ u \in Int /\ u \in Word
  BY Words DEF Widths
<1>2. n \in Int /\ 2^n \in Nat \ {0}
  BY <1>1, ShiftAmount, SameShift
<1>3. CASE d # s1 /\ n \in {1, 2, 3}
  <2> DEFINE e == Ins("LEA_SCALED", w, d, s1, 2^n)
             v == Trunc(u * 2^n, w)
  <2>1. e.op \in PlainOps
    BY DEF Ins, PlainOps, AluOps
  <2>2. Writes(s, Perform(s, e), d, v)
    BY <1>1, <1>2, LeaStep
  <2>3. u * 2^n \in Int
    BY <1>1, <1>2
  <2>4. v \in Word
    BY <1>1, <2>3, TruncType
  <2>5. Trunc(v, w) = Trunc(Computes("SLLI", Trunc(u, w), Trunc(imm, w), w), w)
    BY <1>1, ComputesCut
  <2>6. ShiftLeftImm(w, d, s1, n) = <<e>>
    BY <1>3 DEF ShiftLeftImm
  <2> HIDE DEF e, v, u
  <2>7. Right(<<e>>, 1, s, d, w, "SLLI", u, imm)
    BY <2>1, <2>2, <2>4, <2>5, RightOne
  <2>8. Right(<<e>>, 2, s, d, w, "SLLI", u, imm)
    BY <2>7, RightMore
  <2>. QED
    BY <2>6, <2>8 DEF u
<1>4. CASE ~(d # s1 /\ n \in {1, 2, 3})
  <2>1. "SLLI" \in AluMnems /\ "SHL" = AluFor("SLLI") /\ NONE # d
    BY HostNames DEF AluMnems, AluFor
  <2> DEFINE c == MoveIfOther(w, d, s1) \o <<Ins("SHL", w, d, NONE, n)>>
  <2>2. Right(c, 2, s, d, w, "SLLI", u, Reads(s, NONE, n))
    BY <1>2, <2>1, MoveOpRight
  <2>3. Computes("SLLI", Trunc(u, w), Trunc(n, w), w) = Computes("SLLI", Trunc(u, w), Trunc(imm, w), w)
    <3>1. Trunc(n, w) % w = Trunc(imm, w) % w
      BY SameShift
    <3> HIDE DEF u, n
    <3>. QED
      BY <3>1 DEF Computes
  <2>4. ShiftLeftImm(w, d, s1, n) = c
    BY <1>4 DEF ShiftLeftImm, RI
  <2>5. Reads(s, NONE, n) = n
    BY DEF Reads
  <2> HIDE DEF c, u, n
  <2>. QED
    BY <2>2, <2>3, <2>4, <2>5 DEF Right, u, n
<1>. QED
  BY <1>3, <1>4

\* A shift to the right by an immediate.
LEMMA ShiftRightImmRight ==
    ASSUME SizeFacts, NEW s, State(s), NEW w \in {HALF, XLEN}, NEW d \in Hosts, NEW s1 \in Hosts, NEW imm \in Int,
           NEW mn \in {"SRLI", "SRAI"}, NEW op, op = AluFor(mn)
    PROVE  Right(OpImm(op, w, d, s1, imm % w), 2, s, d, w, mn, s.reg[s1], imm)
<1> DEFINE u == s.reg[s1]
           n == imm % w
<1>1. w \in Widths /\ n \in Int
  BY SameShift DEF Widths
<1>2. mn \in AluMnems /\ NONE # d
  BY HostNames DEF AluMnems
<1>3. Right(MoveIfOther(w, d, s1) \o <<Ins(op, w, d, NONE, n)>>, 2, s, d, w, mn, u, Reads(s, NONE, n))
  BY <1>1, <1>2, MoveOpRight
<1>4. Trunc(n, w) % w = Trunc(imm, w) % w
  BY SameShift
<1> HIDE DEF u, n
<1>5. Computes(mn, Trunc(u, w), Trunc(n, w), w) = Computes(mn, Trunc(u, w), Trunc(imm, w), w)
  BY <1>4 DEF Computes
<1>6. OpImm(op, w, d, s1, n) = MoveIfOther(w, d, s1) \o <<Ins(op, w, d, NONE, n)>>
  BY DEF OpImm, RI
<1>7. Reads(s, NONE, n) = n
  BY DEF Reads
<1>. QED
  BY <1>3, <1>5, <1>6, <1>7 DEF Right, u, n

LEMMA OpImmRight ==
    ASSUME SizeFacts, NEW s, State(s), NEW w \in {HALF, XLEN}, NEW d \in Hosts, NEW s1 \in Hosts, NEW imm \in Int,
           NEW mn \in AluMnems, NEW op, op = AluFor(mn)
    PROVE  Right(OpImm(op, w, d, s1, imm), 2, s, d, w, mn, s.reg[s1], imm)
<1>1. NONE # d
  BY HostNames
<1>2. Right(MoveIfOther(w, d, s1) \o <<Ins(op, w, d, NONE, imm)>>, 2, s, d, w, mn, s.reg[s1], Reads(s, NONE, imm))
  BY <1>1, MoveOpRight
<1>3. Reads(s, NONE, imm) = imm
  BY DEF Reads
<1>. QED
  BY <1>2, <1>3 DEF OpImm, RI

LEMMA AndImmRight ==
    ASSUME SizeFacts, NEW s, State(s), NEW d \in Hosts, NEW s1 \in Hosts, NEW imm \in Int
    PROVE  Right(AndImm(d, s1, imm), 2, s, d, XLEN, "ANDI", s.reg[s1], imm)
<1> DEFINE u == s.reg[s1]
           v == W(imm)
<1>1. "ANDI" \in AluMnems /\ "AND" = AluFor("ANDI") /\ "AND" \in AluOps /\ NONE # d /\ Reads(s, NONE, imm) = imm
  BY HostNames DEF AluMnems, AluFor, AluOps, Reads
<1>2. u \in Word /\ u \in Int /\ Trunc(u, XLEN) = u /\ v \in Word /\ v \in Int /\ Trunc(imm, XLEN) = v
  BY Words, WordOf
<1>3. CASE v < 2^HALF
  <2> DEFINE c == MoveIfOther(HALF, d, s1) \o <<Ins("AND", HALF, d, NONE, imm)>>
  <2>1. HALF \in Widths /\ 2^HALF \in Nat \ {0} /\ v \in 0 .. 2^HALF - 1
    <3>1. HALF \in Widths
      BY DEF Widths
    <3>2. 2^HALF \in Nat \ {0} /\ 2^XLEN \in Nat \ {0}
      BY <3>1, Sizes
    <3>3. v >= 0
      BY <1>2, <3>2 DEF Word
    <3>. QED
      BY <1>2, <1>3, <3>1, <3>2, <3>3
  <2>2. Gives(c, 2, s, d, Alu("AND", HALF, Trunc(u, HALF), Trunc(Reads(s, NONE, imm), HALF)))
    BY <1>1, <2>1, MoveOp
  <2>3. Trunc(imm, HALF) = v
    BY <1>2, <2>1, TruncType, TruncSame
  <2>4. Alu("AND", HALF, Trunc(u, HALF), v) = And(Low(u), v)
    BY DEF Alu, Low, Trunc
  <2>5. And(u, v) = And(Low(u), v)
    BY <1>2, <2>1 DEF SizeFacts
  <2>6. And(u, v) \in Word
    BY <1>2 DEF SizeFacts
  <2>7. Computes("ANDI", u, v, XLEN) = And(u, v)
    BY DEF Computes
  <2>8. AndImm(d, s1, imm) = c
    BY <1>3 DEF AndImm, RI
  <2> HIDE DEF c, u, v
  <2>9. Gives(c, 2, s, d, And(u, v))
    BY <1>1, <2>2, <2>3, <2>4, <2>5
  <2>. QED
    BY <1>2, <2>6, <2>7, <2>8, <2>9 DEF Right, Leaves, u
<1>4. CASE ~(v < 2^HALF)
  <2> DEFINE c == MoveIfOther(XLEN, d, s1) \o <<Ins("AND", XLEN, d, NONE, imm)>>
  <2>1. Right(c, 2, s, d, XLEN, "ANDI", u, Reads(s, NONE, imm))
    BY <1>1, MoveOpRight
  <2>2. AndImm(d, s1, imm) = c
    BY <1>4 DEF AndImm, RI
  <2>. QED
    BY <1>1, <2>1, <2>2
<1>. QED
  BY <1>3, <1>4

\* A byte written over the lowest bits of a word, which are then extended by zeros.
LEMMA ByteOver ==
    ASSUME SizeFacts, NEW u \in Word, NEW b \in {0, 1}
    PROVE  (u - Trunc(u, BYTE)) + b \in Word /\ Trunc((u - Trunc(u, BYTE)) + b, BYTE) = b
<1> DEFINE p == 2^BYTE
           h == 2^(BYTE - 1)
           g == 2^(XLEN - BYTE)
           q == u \div p
           r == u % p
<1>1. BYTE \in Widths
  BY DEF Widths
<1>2. p \in Nat \ {0} /\ g \in Nat \ {0} /\ h \in Nat \ {0} /\ p = 2 * h /\ 2^XLEN = p * g
  BY <1>1, Sizes
<1> HIDE DEF p, g, h
<1>3. u \in 0 .. (p * g) - 1
  BY <1>2 DEF Word
<1>4. u \in Int
  BY <1>2, <1>3
<1>5. u = (p * q) + r /\ q \in Int /\ r \in 0 .. p - 1
  BY <1>2, <1>4, DivMod
<1>6. Trunc(u, BYTE) = r
  BY DEF Trunc, p
<1> HIDE DEF q, r
<1>7. p >= 2 /\ b \in 0 .. p - 1
  BY <1>2
<1>8. p * q >= 0
  <2>1. CASE q <= -1
    <3>1. p * q <= p * (-1)
      BY <1>2, <1>5, <2>1
    <3>. QED
      BY <1>2, <1>3, <1>5, <3>1
  <2>2. CASE q >= 0
    BY <1>2, <2>2, <1>5
  <2>. QED
    BY <1>5, <2>1, <2>2
<1>9. p * q <= (p * g) - p
  <2>1. CASE q >= g
    <3>1. p * q >= p * g
      BY <1>2, <1>5, <2>1
    <3>. QED
      BY <1>2, <1>3, <1>5, <3>1
  <2>2. CASE q <= g - 1
    <3>1. p * q <= p * (g - 1)
      BY <1>2, <1>5, <2>2
    <3>. QED
      BY <1>2, <3>1
  <2>. QED
    BY <1>2, <1>5, <2>1, <2>2
<1> DEFINE n == p * q
<1>10. n \in Int /\ u - r = n
  BY <1>2, <1>5
<1>11. n + b \in 0 .. 2^XLEN - 1
  <2> DEFINE x == p * g
  <2>1. x \in Int /\ 2^XLEN = x /\ n >= 0 /\ n <= x - p
    BY <1>2, <1>8, <1>9
  <2> HIDE DEF n, x
  <2>. QED
    BY <1>2, <1>7, <1>10, <2>1
<1>12. (n + b) % p = b
  <2>1. n + b \in Int
    BY <1>7, <1>10
  <2>. QED
    BY <1>2, <1>5, <1>7, <2>1, DivModUnique
<1> HIDE DEF n
<1>. QED
  BY <1>6, <1>10, <1>11, <1>12 DEF Word, Trunc, p

LEMMA StraightThree ==
    ASSUME NEW a, NEW b, NEW c, a.op \in PlainOps, b.op \in PlainOps, c.op \in PlainOps, NEW s
    PROVE  /\ Straight(<<a, b, c>>, 3)
           /\ Final(<<a, b, c>>, s) = Perform(Perform(Perform(s, a), b), c)
<1> DEFINE u == <<a, b, c>>
<1>1. u \in Seq({a, b, c}) /\ Len(u) = 3 /\ u[1] = a /\ u[2] = b /\ u[3] = c
  OBVIOUS
<1> HIDE DEF u
<1>2. IsCode(u)
  BY <1>1 DEF IsCode
<1>3. \A k \in 1 .. Len(u) : k = 1 \/ k = 2 \/ k = 3
  BY <1>1
<1>4. Straight(u, 3)
  BY <1>1, <1>2, <1>3 DEF Straight
<1>5. Final(u, s) = Perform(Perform(Perform(s, a), b), c)
  BY <1>1 DEF Final, After
<1>. QED
  BY <1>4, <1>5 DEF u

LEMMA ThreeJoined ==
    ASSUME NEW a, NEW b, NEW c
    PROVE  <<a>> \o <<b, c>> = <<a, b, c>>
<1> DEFINE S == {a, b, c}
           x == <<a>>
           y == <<b, c>>
           z == <<a, b, c>>
<1>1. /\ x \in Seq(S) /\ Len(x) = 1 /\ x[1] = a
      /\ y \in Seq(S) /\ Len(y) = 2 /\ y[1] = b /\ y[2] = c
      /\ z \in Seq(S) /\ Len(z) = 3 /\ z[1] = a /\ z[2] = b /\ z[3] = c
  OBVIOUS
<1> HIDE DEF x, y, z, S
<1>2. /\ x \o y \in Seq(S) /\ Len(x \o y) = 3
      /\ \A i \in 1 .. 3 : (x \o y)[i] = IF i <= 1 THEN x[i] ELSE y[i - 1]
  <2>1. Len(x) + Len(y) = 3
    BY <1>1
  <2>2. /\ x \o y \in Seq(S) /\ Len(x \o y) = Len(x) + Len(y)
        /\ \A i \in 1 .. Len(x) + Len(y) : (x \o y)[i] = IF i <= Len(x) THEN x[i] ELSE y[i - Len(x)]
    BY <1>1, ConcatProperties, Zenon
  <2>. QED
    BY <1>1, <2>1, <2>2
<1>3. (x \o y)[1] = x[1] /\ (x \o y)[2] = y[1] /\ (x \o y)[3] = y[2]
  BY <1>2
<1>4. \A i \in 1 .. 3 : i = 1 \/ i = 2 \/ i = 3
  OBVIOUS
<1>5. \A i \in 1 .. 3 : (x \o y)[i] = z[i]
  BY <1>1, <1>3, <1>4
<1>6. x \o y = z
  BY <1>1, <1>2, <1>5, SeqEqual
<1>. QED
  BY <1>6 DEF x, y, z

\* SETx and MOVZX after a comparison.
LEMMA SetIfGives ==
    ASSUME SizeFacts, NEW s, State(s), NEW e, e.op \in PlainOps, NEW x, NEW y,
           Compares(s, Perform(s, e), x, y, XLEN), NEW set \in {"SETL", "SETC"}, NEW d \in Hosts
    PROVE  Gives(<<e>> \o SetIf(set, d), 3, s, d,
                 If(IF set = "SETL" THEN SignedOf(x, XLEN) < SignedOf(y, XLEN) ELSE x < y))
<1> DEFINE t == Perform(s, e)
           a == R1(set, BYTE, d)
           z == RR("MOVZX", BYTE, d, d)
           b == If(IF set = "SETL" THEN SignedOf(x, XLEN) < SignedOf(y, XLEN) ELSE x < y)
           u == t.reg[d]
           v == (u - Trunc(u, BYTE)) + b
           t1 == Perform(t, a)
           t2 == Perform(t1, z)
<1>1. /\ State(t) /\ t.mem = s.mem /\ t.fault = s.fault /\ t.reg = s.reg
      /\ t.flags.x = x /\ t.flags.y = y /\ t.flags.w = XLEN
  BY DEF Compares
<1>2. Holds(IF set = "SETL" THEN "L" ELSE "C", t.flags)
         = (IF set = "SETL" THEN SignedOf(x, XLEN) < SignedOf(y, XLEN) ELSE x < y)
  BY <1>1 DEF Holds
<1>3. a.op = set /\ a.w = BYTE /\ a.d = d /\ a.op \in PlainOps /\ z.op \in PlainOps
  BY DEF R1, RR, Ins, PlainOps, AluOps
<1>4. b \in {0, 1} /\ u \in Word /\ BYTE \in Widths
  BY <1>1, Words DEF If, Widths
<1>5. v \in Word /\ Trunc(v, BYTE) = b
  BY <1>4, ByteOver
<1> HIDE DEF a, t
<1>6. t1 = Set(t, d, v)
  <2>1. a.op \in {"SETL", "SETC"}
    BY <1>3
  <2>2. Perform(t, a) = Set(t, a.d, (t.reg[a.d] - Trunc(t.reg[a.d], BYTE))
             + If(Holds(IF a.op = "SETL" THEN "L" ELSE "C", t.flags)))
    BY <2>1, Performs
  <2>. QED
    BY <1>2, <1>3, <2>2
<1> HIDE DEF v, b, u, t1
<1>7. Writes(t, t1, d, v)
  BY <1>1, <1>5, <1>6, SetWrites
<1>8. Writes(t1, t2, d, b)
  <2>1. State(t1) /\ t1.reg[d] = v
    BY <1>7 DEF Writes
  <2>2. Writes(t1, t2, d, Trunc(t1.reg[d], BYTE))
    BY <1>4, <2>1, MoveExtended
  <2>. QED
    BY <1>5, <2>1, <2>2
<1> HIDE DEF z, t2
<1>9. Writes(t, t2, d, b)
  BY <1>7, <1>8, WritesTwice
<1>10. Writes(s, t2, d, b)
  BY <1>1, <1>9 DEF Writes
<1>11. Straight(<<e, a, z>>, 3) /\ Final(<<e, a, z>>, s) = t2
  BY <1>3, StraightThree DEF t, t1, t2
<1>12. <<e>> \o SetIf(set, d) = <<e, a, z>>
  <2>1. SetIf(set, d) = <<a, z>>
    BY DEF SetIf, a, z
  <2>2. <<e>> \o <<a, z>> = <<e, a, z>>
    BY ThreeJoined
  <2>. QED
    BY <2>1, <2>2
<1>. QED
  BY <1>10, <1>11, <1>12 DEF Gives, b

LEMMA TwoJoined ==
    ASSUME NEW a, NEW b
    PROVE  <<a>> \o <<b>> = <<a, b>>
<1> DEFINE S == {a, b}
           x == <<a>>
           y == <<b>>
           z == <<a, b>>
<1>1. /\ x \in Seq(S) /\ Len(x) = 1 /\ x[1] = a
      /\ y \in Seq(S) /\ Len(y) = 1 /\ y[1] = b
      /\ z \in Seq(S) /\ Len(z) = 2 /\ z[1] = a /\ z[2] = b
  OBVIOUS
<1> HIDE DEF x, y, z, S
<1>2. /\ x \o y \in Seq(S) /\ Len(x \o y) = 2
      /\ \A i \in 1 .. 2 : (x \o y)[i] = IF i <= 1 THEN x[i] ELSE y[i - 1]
  <2>1. Len(x) + Len(y) = 2
    BY <1>1
  <2>2. /\ x \o y \in Seq(S) /\ Len(x \o y) = Len(x) + Len(y)
        /\ \A i \in 1 .. Len(x) + Len(y) : (x \o y)[i] = IF i <= Len(x) THEN x[i] ELSE y[i - Len(x)]
    BY <1>1, ConcatProperties, Zenon
  <2>. QED
    BY <1>1, <2>1, <2>2
<1>3. (x \o y)[1] = x[1] /\ (x \o y)[2] = y[1]
  BY <1>2
<1>4. \A i \in 1 .. 2 : i = 1 \/ i = 2
  OBVIOUS
<1>5. \A i \in 1 .. 2 : (x \o y)[i] = z[i]
  BY <1>1, <1>3, <1>4
<1>6. x \o y = z
  BY <1>1, <1>2, <1>5, SeqEqual
<1>. QED
  BY <1>6 DEF x, y, z

LEMMA CompareRight ==
    ASSUME SizeFacts, NEW s, State(s), NEW d \in Hosts, NEW s1 \in Hosts,
           NEW r \in Hosts \cup {NONE}, NEW i \in Int, NEW mn \in {"SLT", "SLTI", "SLTU", "SLTIU"},
           NEW set, set = IF mn \in {"SLT", "SLTI"} THEN "SETL" ELSE "SETC"
    PROVE  Right(<<Ins("CMP", XLEN, s1, r, i)>> \o SetIf(set, d), 3, s, d, XLEN, mn,
                 s.reg[s1], Reads(s, r, i))
<1> DEFINE e == Ins("CMP", XLEN, s1, r, i)
           x == Trunc(s.reg[s1], XLEN)
           y == Trunc(Reads(s, r, i), XLEN)
           b == If(IF set = "SETL" THEN SignedOf(x, XLEN) < SignedOf(y, XLEN) ELSE x < y)
<1>1. e.op \in PlainOps /\ XLEN \in Widths
  BY DEF Ins, PlainOps, AluOps, Widths
<1>2. Compares(s, Perform(s, e), x, y, XLEN)
  BY <1>1, CompareStep DEF Reads
<1>3. Computes(mn, x, y, XLEN) = b
  BY DEF Computes
<1>4. b \in Word
  <2>1. 2^XLEN \in Nat \ {0} /\ 2^XLEN = 2 * 2^(XLEN - 1) /\ 2^(XLEN - 1) \in Nat \ {0}
    BY <1>1, Sizes
  <2> DEFINE n == 2^XLEN
             h == 2^(XLEN - 1)
  <2> HIDE DEF n, h
  <2>2. 0 \in 0 .. n - 1 /\ 1 \in 0 .. n - 1
    BY <2>1 DEF n, h
  <2>. QED
    BY <2>2 DEF Word, n, If
<1> HIDE DEF e, x, y
<1>5. set \in {"SETL", "SETC"}
  OBVIOUS
<1>6. Gives(<<e>> \o SetIf(set, d), 3, s, d, b)
  BY <1>1, <1>2, <1>5, SetIfGives
<1> HIDE DEF b
<1>7. Leaves(<<e>> \o SetIf(set, d), 3, s, d, XLEN, b)
  BY <1>4, <1>6 DEF Leaves
<1>. QED
  BY <1>3, <1>7 DEF Right, e, x, y

Commutative == {"ADD", "XOR", "OR", "AND", "MUL"}

LEMMA ComputesEither ==
    ASSUME SizeFacts, NEW w \in {HALF, XLEN}, NEW u \in Int, NEW v \in Int, NEW mn \in Commutative
    PROVE  Computes(mn, Trunc(u, w), Trunc(v, w), w) = Computes(mn, Trunc(v, w), Trunc(u, w), w)
<1> DEFINE a == Trunc(u, w)
           b == Trunc(v, w)
<1>1. w \in Widths
  BY DEF Widths
<1>2. a \in Word /\ b \in Word /\ a \in Int /\ b \in Int /\ SignedOf(a, w) \in Int /\ SignedOf(b, w) \in Int
  BY <1>1, TruncType, SignedType
<1>3. And(a, b) = And(b, a) /\ Or(a, b) = Or(b, a) /\ Xor(a, b) = Xor(b, a)
  BY <1>2 DEF SizeFacts
<1> HIDE DEF a, b
<1>4. a + b = b + a /\ SignedOf(a, w) * SignedOf(b, w) = SignedOf(b, w) * SignedOf(a, w)
  BY <1>2
<1>5. Computes(mn, a, b, w) = Computes(mn, b, a, w)
  BY <1>3, <1>4 DEF Commutative, Computes
<1>. QED
  BY <1>5 DEF a, b

LEMMA doArithmRight ==
    ASSUME SizeFacts, NEW s, State(s), NEW w \in {HALF, XLEN}, NEW d \in Hosts, NEW s1 \in Hosts, NEW s2 \in Hosts,
           NEW mn \in Commutative \cup {"SUB"}, mn = "SUB" => d # s2, NEW op, op = AluFor(mn)
    PROVE  Right(doArithmCommutative(op, w, d, s1, s2), 2, s, d, w, mn, s.reg[s1], s.reg[s2])
<1>1. mn \in AluMnems /\ s1 # NONE /\ s2 # NONE /\ Reads(s, s1, 0) = s.reg[s1] /\ Reads(s, s2, 0) = s.reg[s2]
      /\ 0 \in Int /\ s1 \in Hosts \cup {NONE} /\ s2 \in Hosts \cup {NONE} /\ w \in {w, XLEN} /\ XLEN \in {w, XLEN}
  BY HostNames DEF Commutative, AluMnems, Reads
<1>2. CASE d = s1
  <2>1. Right(MoveIfOther(w, d, s1) \o <<Ins(op, w, d, s2, 0)>>, 2, s, d, w, mn, s.reg[s1], Reads(s, s2, 0))
    BY <1>1, <1>2, MoveOpRight
  <2>2. MoveIfOther(w, d, s1) \o <<Ins(op, w, d, s2, 0)>> = <<Ins(op, w, d, s2, 0)>>
    BY <1>2 DEF MoveIfOther
  <2>. QED
    BY <1>1, <1>2, <2>1, <2>2 DEF doArithmCommutative, RR
<1>3. CASE d # s1 /\ d = s2
  <2>1. Right(MoveIfOther(w, d, s2) \o <<Ins(op, w, d, s1, 0)>>, 2, s, d, w, mn, s.reg[s2], Reads(s, s1, 0))
    BY <1>1, <1>3, MoveOpRight
  <2>2. MoveIfOther(w, d, s2) \o <<Ins(op, w, d, s1, 0)>> = <<Ins(op, w, d, s1, 0)>>
    BY <1>3 DEF MoveIfOther
  <2>3. s.reg[s1] \in Int /\ s.reg[s2] \in Int /\ mn \in Commutative
    BY <1>3, Words
  <2>4. Computes(mn, Trunc(s.reg[s1], w), Trunc(s.reg[s2], w), w) = Computes(mn, Trunc(s.reg[s2], w), Trunc(s.reg[s1], w), w)
    BY <2>3, ComputesEither
  <2>5. doArithmCommutative(op, w, d, s1, s2) = <<Ins(op, w, d, s1, 0)>>
    BY <1>3 DEF doArithmCommutative, RR
  <2>. QED
    BY <1>1, <2>1, <2>2, <2>4, <2>5 DEF Right
<1>4. CASE d # s1 /\ d # s2
  <2>1. Right(MoveIfOther(XLEN, d, s1) \o <<Ins(op, w, d, s2, 0)>>, 2, s, d, w, mn, s.reg[s1], Reads(s, s2, 0))
    BY <1>1, <1>4, MoveOpRight
  <2>2. doArithmCommutative(op, w, d, s1, s2) = MoveIfOther(XLEN, d, s1) \o <<Ins(op, w, d, s2, 0)>>
    <3> DEFINE a == RR("MOV", XLEN, d, s1)
               b == RR(op, w, d, s2)
    <3>1. doArithmCommutative(op, w, d, s1, s2) = <<a, b>>
      BY <1>4 DEF doArithmCommutative
    <3>2. MoveIfOther(XLEN, d, s1) \o <<Ins(op, w, d, s2, 0)>> = <<a>> \o <<b>>
      BY <1>4 DEF MoveIfOther, RR
    <3> HIDE DEF a, b
    <3>3. <<a>> \o <<b>> = <<a, b>>
      BY TwoJoined
    <3>. QED
      BY <3>1, <3>2, <3>3
  <2>. QED
    BY <1>1, <2>1, <2>2
<1>. QED
  BY <1>2, <1>3, <1>4

LEMMA AddRight ==
    ASSUME SizeFacts, NEW s, State(s), NEW w \in {HALF, XLEN}, NEW d \in Hosts, NEW s1 \in Hosts, NEW s2 \in Hosts
    PROVE  Right(Add(w, d, s1, s2), 2, s, d, w, "ADD", s.reg[s1], s.reg[s2])
<1>1. CASE d \notin {s1, s2}
  <2> DEFINE e == Ins("LEA_SUM", w, d, <<s1, s2>>, 0)
             v == Trunc(s.reg[s1] + s.reg[s2], w)
  <2>1. w \in Widths /\ e.op \in PlainOps
    BY DEF Widths, Ins, PlainOps, AluOps
  <2>2. s.reg[s1] \in Int /\ s.reg[s2] \in Int /\ s.reg[s1] + s.reg[s2] \in Int
    BY Words
  <2>3. Writes(s, Perform(s, e), d, v)
    BY <2>1, SumStep
  <2>4. v \in Word
    BY <2>1, <2>2, TruncType
  <2>5. Trunc(v, w) = Trunc(Computes("ADD", Trunc(s.reg[s1], w), Trunc(s.reg[s2], w), w), w)
    BY <2>2, ComputesCut
  <2> HIDE DEF e, v
  <2>6. Right(<<e>>, 1, s, d, w, "ADD", s.reg[s1], s.reg[s2])
    BY <2>1, <2>3, <2>4, <2>5, RightOne
  <2>7. Right(<<e>>, 2, s, d, w, "ADD", s.reg[s1], s.reg[s2])
    BY <2>6, RightMore
  <2>. QED
    BY <1>1, <2>7 DEF Add, e
<1>2. CASE d \in {s1, s2}
  <2>1. "ADD" \in Commutative /\ "ADD" = AluFor("ADD")
    BY DEF Commutative, AluFor
  <2>2. Right(doArithmCommutative("ADD", w, d, s1, s2), 2, s, d, w, "ADD", s.reg[s1], s.reg[s2])
    BY <2>1, doArithmRight
  <2>. QED
    BY <1>2, <2>2 DEF Add
<1>. QED
  BY <1>1, <1>2

LEMMA TruncLess ==
    ASSUME SizeFacts, NEW w \in Widths, NEW z \in Int, NEW v \in Int, NEW y \in Int, Trunc(v, w) = Trunc(y, w)
    PROVE  Trunc(z - v, w) = Trunc(z - y, w)
<1> DEFINE p == 2^w
<1>1. PICK i \in Int : v = y + (p * i)
  BY SameWhole
<1>2. p \in Int
  BY Sizes
<1> HIDE DEF p
<1>3. z - v = (z - y) + (p * (-i)) /\ -i \in Int /\ z - v \in Int /\ z - y \in Int
  BY <1>1, <1>2
<1>. QED
  BY <1>3, TruncCongruent DEF p

LEMMA SubtractRight ==
    ASSUME SizeFacts, NEW s, State(s), NEW w \in {HALF, XLEN}, NEW d \in Hosts, NEW s1 \in Hosts, NEW s2 \in Hosts
    PROVE  Right(Subtract(w, d, s1, s2), 2, s, d, w, "SUB", s.reg[s1], s.reg[s2])
<1> DEFINE u == s.reg[s1]
           v == s.reg[s2]
           x == Trunc(u, w)
           y == Trunc(v, w)
<1>1. w \in Widths /\ HALF \in Widths /\ u \in Int /\ v \in Int
  BY Words DEF Widths
<1>2. x \in Int /\ y \in Int /\ Trunc(x, w) = x /\ Trunc(y, w) = y /\ Computes("SUB", x, y, w) = x - y
  BY <1>1, TruncType, TruncSame DEF Computes
<1>3. CASE d # s2
  <2>1. "SUB" = AluFor("SUB")
    BY DEF AluFor
  <2>2. Right(doArithmCommutative("SUB", w, d, s1, s2), 2, s, d, w, "SUB", s.reg[s1], s.reg[s2])
    BY <1>3, <2>1, doArithmRight
  <2>. QED
    BY <1>3, <2>2 DEF Subtract
<1>4. CASE d = s2 /\ d = s1
  <2> DEFINE e == RR("XOR", HALF, d, d)
             n == Trunc(s.reg[d], HALF)
  <2>1. e.op \in PlainOps /\ "XOR" \in AluOps /\ d # NONE /\ 0 \in Int
    BY HostNames DEF RR, Ins, PlainOps, AluOps
  <2>2. Writes(s, Perform(s, Ins("XOR", HALF, d, d, 0)), d,
               Alu("XOR", HALF, n, Trunc(IF d = NONE THEN 0 ELSE s.reg[d], HALF)))
    BY <1>1, <2>1, AluStep
  <2>3. n \in Word
    BY <1>1, <1>4, TruncType
  <2>4. Alu("XOR", HALF, n, n) = 0
    BY <2>3 DEF Alu, SizeFacts
  <2>5. Writes(s, Perform(s, e), d, 0)
    BY <2>1, <2>2, <2>4 DEF RR
  <2>6. 0 \in Word
    BY <2>3, <2>4, <1>1, Sizes DEF Word
  <2>7. x - y = 0
    BY <1>2, <1>4
  <2>8. Trunc(0, w) = Trunc(Computes("SUB", x, y, w), w)
    BY <1>2, <2>7
  <2> HIDE DEF e, u, v
  <2>9. Right(<<e>>, 1, s, d, w, "SUB", u, v)
    BY <2>1, <2>5, <2>6, <2>8, RightOne
  <2>10. Right(<<e>>, 2, s, d, w, "SUB", u, v)
    BY <2>9, RightMore
  <2>. QED
    BY <1>4, <2>10 DEF Subtract, e, u, v
<1>5. CASE d = s2 /\ d # s1
  <2> DEFINE e == R1("NEG", w, d)
             f == RR("ADD", w, d, s1)
             a == Trunc(0 - v, w)
             b == Trunc(a + x, w)
  <2>1. e.op \in PlainOps /\ f.op \in PlainOps /\ "ADD" \in AluOps /\ s1 # NONE /\ 0 \in Int
    BY HostNames DEF RR, R1, Ins, PlainOps, AluOps
  <2>2. Writes(s, Perform(s, e), d, a)
    BY <1>1, <1>5, NegStep
  <2>3. 0 - v \in Int /\ a \in Int /\ a \in Word /\ Trunc(a, w) = a
    <3> DEFINE z == 0 - v
    <3>1. z \in Int
      BY <1>1
    <3> HIDE DEF z
    <3>2. Trunc(z, w) \in Int /\ Trunc(z, w) \in Word /\ Trunc(Trunc(z, w), w) = Trunc(z, w)
      BY <1>1, <3>1, TruncType, TruncSame
    <3>. QED
      BY <3>1, <3>2 DEF z
  <2>4. ASSUME NEW t, Writes(s, t, d, a)
        PROVE  Writes(t, Perform(t, f), d, b)
    <3>1. State(t) /\ t.reg[d] = a /\ t.reg[s1] = u
      BY <1>5, <2>4 DEF Writes
    <3>2. Writes(t, Perform(t, Ins("ADD", w, d, s1, 0)), d,
                 Alu("ADD", w, Trunc(t.reg[d], w), Trunc(IF s1 = NONE THEN 0 ELSE t.reg[s1], w)))
      BY <1>1, <2>1, <3>1, AluStep
    <3>3. Alu("ADD", w, a, x) = b
      BY DEF Alu
    <3>4. Trunc(IF s1 = NONE THEN 0 ELSE t.reg[s1], w) = x
      BY <2>1, <3>1
    <3> HIDE DEF a, b, x
    <3>. QED
      BY <2>3, <3>1, <3>2, <3>3, <3>4 DEF RR
  <2>5. b \in Word
    BY <1>1, <1>2, <2>3, TruncType
  <2>6. Trunc(b, w) = Trunc(x - y, w)
    <3>0. PICK z \in Int : z = 0
      OBVIOUS
    <3>1. Trunc(0 - v, w) = Trunc(0 - y, w)
      <4>1. Trunc(z, w) = Trunc(z, w) /\ Trunc(v, w) = Trunc(y, w)
        BY <1>2
      <4> HIDE DEF v, y
      <4>2. Trunc(z - v, w) = Trunc(z - y, w)
        BY <1>1, <1>2, <4>1, TruncLess
      <4>. QED
        BY <3>0, <4>2
    <3>2. Trunc(a, w) = Trunc(0 - y, w) /\ Trunc(x, w) = Trunc(x, w) /\ 0 - y \in Int
      BY <1>2, <2>3, <3>1
    <3> HIDE DEF a, x, y
    <3>3. Trunc(a + x, w) = Trunc((0 - y) + x, w)
      BY <1>1, <1>2, <2>3, <3>2, TruncAlu
    <3>4. (0 - y) + x = x - y /\ a + x \in Int
      BY <1>2, <2>3
    <3>. QED
      BY <1>1, <3>3, <3>4, TruncSame
  <2> HIDE DEF e, f, a, b
  <2>7. Gives(<<e>>, 1, s, d, a)
    BY <2>1, <2>2, GivesOne
  <2>8. Gives(<<e>> \o <<f>>, 1 + 1, s, d, b)
    BY <2>1, <2>4, <2>7, GivesNext
  <2>9. Gives(<<e, f>>, 2, s, d, b)
    <3>1. Gives(<<e>> \o <<f>>, 2, s, d, b)
      BY <2>8
    <3>. QED
      BY <3>1, TwoJoined
  <2>10. Subtract(w, d, s1, s2) = <<e, f>>
    BY <1>5 DEF Subtract, e, f
  <2>. QED
    BY <1>2, <2>5, <2>6, <2>9, <2>10 DEF Right, Leaves
<1>. QED
  BY <1>3, <1>4, <1>5

\* What the guest instruction mn computes of the numbers u and v.
Computed(mn, u, v) ==
    LET w == Width(mn)
    IN  W(SignedOf(Computes(Plain(mn), Trunc(u, w), Trunc(v, w), w), w))

LEMMA RightGives ==
    ASSUME SizeFacts, NEW n \in 0 .. 3, NEW c, NEW s, NEW d \in Hosts, NEW u \in Int, NEW v \in Int,
           NEW mn, NEW pm, pm = Plain(mn), pm \in AluMnems \cup {"SLT", "SLTI", "SLTU", "SLTIU"},
           Right(c, n, s, d, Width(mn), pm, u, v)
    PROVE  /\ mn \notin WOps => Gives(c, n, s, d, Computed(mn, u, v))
           /\ mn \in WOps => Gives(c \o SignExtend(d), n + 1, s, d, Computed(mn, u, v))
<1>1. CASE mn \notin WOps
  <2> DEFINE a == Trunc(u, XLEN)
             b == Trunc(v, XLEN)
  <2>1. Width(mn) = XLEN /\ XLEN \in Widths
    BY <1>1 DEF Width, Widths
  <2>2. a \in 0 .. 2^XLEN - 1 /\ b \in 0 .. 2^XLEN - 1
    BY <2>1, TruncType
  <2>3. Computes(pm, a, b, XLEN) \in Int
    <3>1. CASE pm \in AluMnems
      BY <2>2, <3>1, AluComputes
    <3>2. CASE pm \in {"SLT", "SLTI", "SLTU", "SLTIU"}
      BY <3>2 DEF Computes, If
    <3>. QED
      BY <3>1, <3>2
  <2> HIDE DEF a, b
  <2>4. Leaves(c, n, s, d, XLEN, Computes(pm, a, b, XLEN))
    BY <2>1 DEF Right, a, b
  <2>5. Gives(c, n, s, d, W(SignedOf(Computes(pm, a, b, XLEN), XLEN)))
    BY <2>3, <2>4, WholeResult
  <2>. QED
    BY <1>1, <2>1, <2>5 DEF Computed, a, b
<1>2. CASE mn \in WOps
  <2>1. Width(mn) = HALF /\ n \in 0 .. 6
    BY <1>2 DEF Width
  <2>2. Leaves(c, n, s, d, HALF, Computes(pm, Trunc(u, HALF), Trunc(v, HALF), HALF))
    BY <2>1 DEF Right
  <2>3. Gives(c \o SignExtend(d), n + 1, s, d, W(SignedOf(Computes(pm, Trunc(u, HALF), Trunc(v, HALF), HALF), HALF)))
    BY <2>1, <2>2, HalfResult
  <2>. QED
    BY <1>2, <2>1, <2>3 DEF Computed
<1>. QED
  BY <1>1, <1>2

WithExtension(mn, c, d) == IF mn \in WOps THEN c \o SignExtend(d) ELSE c

LEMMA RightAtMost3 ==
    ASSUME SizeFacts, NEW n \in {2, 3}, NEW c, NEW s, NEW d \in Hosts, NEW u \in Int, NEW v \in Int,
           NEW mn, mn \in WOps => n = 2, NEW pm, pm = Plain(mn),
           pm \in AluMnems \cup {"SLT", "SLTI", "SLTU", "SLTIU"}, Right(c, n, s, d, Width(mn), pm, u, v)
    PROVE  Gives(WithExtension(mn, c, d), 3, s, d, Computed(mn, u, v))
<1>1. CASE mn \in WOps
  <2>1. Gives(c \o SignExtend(d), n + 1, s, d, Computed(mn, u, v))
    BY <1>1, RightGives
  <2>2. n + 1 = 3
    BY <1>1
  <2>. QED
    BY <1>1, <2>1, <2>2 DEF WithExtension
<1>2. CASE mn \notin WOps
  <2>1. Gives(c, n, s, d, Computed(mn, u, v))
    BY <1>2, RightGives
  <2>2. n \in 0 .. 6 /\ 3 \in 0 .. 7 /\ n <= 3
    OBVIOUS
  <2>3. Gives(c, 3, s, d, Computed(mn, u, v))
    BY <2>1, <2>2, GivesMore
  <2>. QED
    BY <1>2, <2>3 DEF WithExtension
<1>. QED
  BY <1>1, <1>2

LEMMA RightTwo ==
    ASSUME SizeFacts, NEW c, NEW s, NEW d \in Hosts, NEW u \in Int, NEW v \in Int, NEW mn, NEW pm, pm = Plain(mn),
           pm \in AluMnems \cup {"SLT", "SLTI", "SLTU", "SLTIU"}, NEW w, w = Width(mn), Right(c, 2, s, d, w, pm, u, v),
           NEW f, f = WithExtension(mn, c, d)
    PROVE  Gives(f, 3, s, d, Computed(mn, u, v))
<1>1. PICK n \in {2, 3} : n = 2
  OBVIOUS
<1>2. Right(c, n, s, d, Width(mn), pm, u, v)
  BY <1>1
<1>. QED
  BY <1>1, <1>2, RightAtMost3

LEMMA RightThree ==
    ASSUME SizeFacts, NEW c, NEW s, NEW d \in Hosts, NEW u \in Int, NEW v \in Int, NEW mn, mn \notin WOps,
           mn = Plain(mn), mn \in AluMnems \cup {"SLT", "SLTI", "SLTU", "SLTIU"}, Right(c, 3, s, d, XLEN, mn, u, v)
    PROVE  Gives(c, 3, s, d, Computed(mn, u, v))
<1>1. PICK n \in {2, 3} : n = 3
  OBVIOUS
<1>2. Right(c, n, s, d, Width(mn), mn, u, v)
  BY <1>1 DEF Width
<1>3. WithExtension(mn, c, d) = c
  BY DEF WithExtension
<1>. QED
  BY <1>1, <1>2, <1>3, RightAtMost3

LEMMA ComputedCut ==
    ASSUME SizeFacts, NEW mn, NEW u \in Int, NEW i \in Int
    PROVE  Computed(mn, u, W(i)) = Computed(mn, u, i)
<1>1. Width(mn) \in Widths
  BY DEF Width, Widths
<1>2. Trunc(W(i), Width(mn)) = Trunc(i, Width(mn))
  BY <1>1, TruncSame
<1>. QED
  BY <1>2 DEF Computed

LEMMA ImmGives ==
    ASSUME SizeFacts, NEW s, State(s), NEW mn \in ImmOps, NEW d \in Hosts, NEW s1 \in Hosts, NEW imm \in Int
    PROVE  Gives(ImmCode(mn, d, s1, imm), 3, s, d, Computed(mn, s.reg[s1], W(imm)))
<1> DEFINE u == s.reg[s1]
           w == Width(mn)
<1>1. u \in Int /\ w \in {HALF, XLEN}
  BY Words DEF Width
<1>2. SUFFICES Gives(ImmCode(mn, d, s1, imm), 3, s, d, Computed(mn, u, imm))
  BY <1>1, ComputedCut
<1>3. CASE mn \in {"ADDI", "ADDIW"}
  <2>1. Right(AddImm(w, d, s1, imm), 2, s, d, w, "ADDI", u, imm)
    BY <1>1, AddImmRight
  <2>2. Plain(mn) = "ADDI" /\ "ADDI" \in AluMnems
    BY <1>3 DEF Plain, AluMnems
  <2>3. ImmCode(mn, d, s1, imm) = WithExtension(mn, AddImm(w, d, s1, imm), d)
    BY <1>3 DEF ImmCode, WithExtension, Width, WOps
  <2>. QED
    BY <1>1, <2>1, <2>2, <2>3, RightTwo
<1>4. CASE mn \in {"SLTI", "SLTIU"}
  <2> DEFINE set == IF mn \in {"SLT", "SLTI"} THEN "SETL" ELSE "SETC"
             c == <<Ins("CMP", XLEN, s1, NONE, imm)>> \o SetIf(set, d)
  <2>1. mn \in {"SLT", "SLTI", "SLTU", "SLTIU"}
    BY <1>4
  <2>2. Right(c, 3, s, d, XLEN, mn, u, Reads(s, NONE, imm))
    BY <2>1, CompareRight
  <2>3. Reads(s, NONE, imm) = imm
    BY DEF Reads
  <2>4. Plain(mn) = mn /\ mn \notin WOps /\ w = XLEN
    BY <1>4 DEF Plain, WOps, Width
  <2>5. ImmCode(mn, d, s1, imm) = c
    BY <1>4 DEF ImmCode, RI
  <2> HIDE DEF c, u, w
  <2>. QED
    BY <1>1, <2>1, <2>2, <2>3, <2>4, <2>5, RightThree DEF u
<1>5. CASE mn \in {"XORI", "ORI"}
  <2>1. mn \in AluMnems /\ Plain(mn) = mn /\ mn \notin WOps /\ w = XLEN
    BY <1>5 DEF AluMnems, Plain, WOps, Width
  <2>2. Right(OpImm(AluFor(mn), XLEN, d, s1, imm), 2, s, d, XLEN, mn, u, imm)
    BY <2>1, OpImmRight
  <2>3. ImmCode(mn, d, s1, imm) = WithExtension(mn, OpImm(AluFor(mn), XLEN, d, s1, imm), d)
    BY <1>5, <2>1 DEF ImmCode, WithExtension, AluFor
  <2>. QED
    BY <1>1, <2>1, <2>2, <2>3, RightTwo
<1>6. CASE mn = "ANDI"
  <2>1. mn \in AluMnems /\ Plain(mn) = mn /\ mn \notin WOps /\ w = XLEN
    BY <1>6 DEF AluMnems, Plain, WOps, Width
  <2>2. Right(AndImm(d, s1, imm), 2, s, d, XLEN, mn, u, imm)
    BY <1>6, AndImmRight
  <2>3. ImmCode(mn, d, s1, imm) = WithExtension(mn, AndImm(d, s1, imm), d)
    BY <1>6, <2>1 DEF ImmCode, WithExtension
  <2>. QED
    BY <1>1, <2>1, <2>2, <2>3, RightTwo
<1>7. CASE mn \in {"SLLI", "SLLIW"}
  <2>1. Right(ShiftLeftImm(w, d, s1, imm % w), 2, s, d, w, "SLLI", u, imm)
    BY <1>1, ShiftLeftImmRight
  <2>2. Plain(mn) = "SLLI" /\ "SLLI" \in AluMnems
    BY <1>7 DEF Plain, AluMnems
  <2>3. ImmCode(mn, d, s1, imm) = WithExtension(mn, ShiftLeftImm(w, d, s1, imm % w), d)
    BY <1>7 DEF ImmCode, WithExtension, Width, WOps
  <2>. QED
    BY <1>1, <2>1, <2>2, <2>3, RightTwo
<1>8. CASE mn \in {"SRLI", "SRLIW", "SRAI", "SRAIW"}
  <2> DEFINE pm == Plain(mn)
             c == OpImm(AluFor(pm), w, d, s1, imm % w)
  <2>1. pm \in {"SRLI", "SRAI"} /\ pm \in AluMnems
    BY <1>8 DEF Plain, AluMnems
  <2>2. Right(c, 2, s, d, w, pm, u, imm)
    BY <1>1, <2>1, ShiftRightImmRight
  <2>3. ImmCode(mn, d, s1, imm) = WithExtension(mn, c, d)
    BY <1>8 DEF ImmCode, WithExtension, Width, WOps, Plain, AluFor
  <2>. QED
    BY <1>1, <2>1, <2>2, <2>3, RightTwo
<1>. QED
  BY <1>3, <1>4, <1>5, <1>6, <1>7, <1>8 DEF ImmOps

LEMMA RegGives ==
    ASSUME SizeFacts, NEW s, State(s), NEW mn \in RegOps, NEW d \in Hosts, NEW s1 \in Hosts, NEW s2 \in Hosts
    PROVE  Gives(RegCode(mn, d, s1, s2), 3, s, d, Computed(mn, s.reg[s1], s.reg[s2]))
<1> DEFINE u == s.reg[s1]
           v == s.reg[s2]
           w == Width(mn)
<1>1. u \in Int /\ v \in Int /\ w \in {HALF, XLEN}
  BY Words DEF Width
<1>2. CASE mn \in {"ADD", "ADDW"}
  <2>1. Right(Add(w, d, s1, s2), 2, s, d, w, "ADD", u, v)
    BY <1>1, AddRight
  <2>2. Plain(mn) = "ADD" /\ "ADD" \in AluMnems
    BY <1>2 DEF Plain, AluMnems
  <2>3. RegCode(mn, d, s1, s2) = WithExtension(mn, Add(w, d, s1, s2), d)
    BY <1>2 DEF RegCode, WithExtension, Width, WOps
  <2>. QED
    BY <1>1, <2>1, <2>2, <2>3, RightTwo
<1>3. CASE mn \in {"SUB", "SUBW"}
  <2>1. Right(Subtract(w, d, s1, s2), 2, s, d, w, "SUB", u, v)
    BY <1>1, SubtractRight
  <2>2. Plain(mn) = "SUB" /\ "SUB" \in AluMnems
    BY <1>3 DEF Plain, AluMnems
  <2>3. RegCode(mn, d, s1, s2) = WithExtension(mn, Subtract(w, d, s1, s2), d)
    BY <1>3 DEF RegCode, WithExtension, Width, WOps
  <2>. QED
    BY <1>1, <2>1, <2>2, <2>3, RightTwo
<1>4. CASE mn \in {"SLT", "SLTU"}
  <2> DEFINE set == IF mn \in {"SLT", "SLTI"} THEN "SETL" ELSE "SETC"
             c == <<Ins("CMP", XLEN, s1, s2, 0)>> \o SetIf(set, d)
  <2>1. mn \in {"SLT", "SLTI", "SLTU", "SLTIU"} /\ s2 \in Hosts \cup {NONE} /\ 0 \in Int
    BY <1>4
  <2>2. Right(c, 3, s, d, XLEN, mn, u, Reads(s, s2, 0))
    BY <2>1, CompareRight
  <2>3. Reads(s, s2, 0) = v
    BY HostNames DEF Reads
  <2>4. Plain(mn) = mn /\ mn \notin WOps /\ w = XLEN
    BY <1>4 DEF Plain, WOps, Width
  <2>5. RegCode(mn, d, s1, s2) = c
    BY <1>4 DEF RegCode, RR
  <2> HIDE DEF c, u, v, w
  <2>. QED
    BY <1>1, <2>1, <2>2, <2>3, <2>4, <2>5, RightThree DEF u, v
<1>5. CASE mn \in {"XOR", "OR", "AND", "MUL", "MULW"}
  <2> DEFINE pm == Plain(mn)
             c == doArithmCommutative(AluFor(pm), w, d, s1, s2)
  <2>1. pm \in {"XOR", "OR", "AND", "MUL"} /\ pm \in AluMnems /\ pm \in Commutative
    BY <1>5 DEF Plain, AluMnems, Commutative
  <2>2. Right(c, 2, s, d, w, pm, u, v)
    BY <1>1, <2>1, doArithmRight
  <2>3. RegCode(mn, d, s1, s2) = WithExtension(mn, c, d)
    BY <1>5 DEF RegCode, WithExtension, Width, WOps, Plain, AluFor
  <2>. QED
    BY <1>1, <2>1, <2>2, <2>3, RightTwo
<1>. QED
  BY <1>2, <1>3, <1>4, <1>5 DEF RegOps

\* A shift amount in CX is not overwritten by the move to d.
LEMMA ShiftGives ==
    ASSUME SizeFacts, NEW s, State(s), NEW mn \in ShiftOps, NEW d \in Hosts, NEW s1 \in Hosts, NEW s2 \in Hosts,
           d = s2 => d = s1
    PROVE  Gives(ShiftCode(mn, d, s1, s2), 3, s, d, Computed(mn, s.reg[s1], s.reg[s2]))
<1> DEFINE u == s.reg[s1]
           v == s.reg[s2]
           w == Width(mn)
           pm == Plain(mn)
           c == MoveIfOther(w, d, s1) \o <<Ins(AluFor(pm), w, d, s2, 0)>>
<1>1. u \in Int /\ v \in Int /\ w \in {HALF, XLEN} /\ s2 \in Hosts \cup {NONE} /\ 0 \in Int
  BY Words DEF Width
<1>2. pm \in {"SLL", "SRL", "SRA"} /\ pm \in AluMnems /\ ShiftOp(mn) = AluFor(pm)
  BY DEF Plain, AluMnems, ShiftOps, ShiftOp, AluFor
<1>3. Reads(s, s2, 0) = v
  BY HostNames DEF Reads
<1>4. Right(c, 2, s, d, w, pm, u, Reads(s, s2, 0))
  <2> HIDE DEF w, pm
  <2>1. w \in {w, XLEN}
    OBVIOUS
  <2>. QED
    BY <1>1, <1>2, <2>1, MoveOpRight
<1>5. ShiftCode(mn, d, s1, s2) = WithExtension(mn, c, d)
  <2>1. ShiftCode(mn, d, s1, s2) = c \o (IF mn \in WOps THEN SignExtend(d) ELSE <<>>)
    BY <1>2 DEF ShiftCode, RR
  <2>2. c \o <<>> = c
    <3>1. \E S : c \in Seq(S)
      BY <1>4 DEF Right, Leaves, Gives, Straight, IsCode
    <3> HIDE DEF c
    <3>. QED
      BY <3>1, ConcatEmptySeq
  <2>. QED
    BY <2>1, <2>2 DEF WithExtension
<1> HIDE DEF c, w, pm, u, v
<1>6. Gives(WithExtension(mn, c, d), 3, s, d, Computed(mn, u, v))
  <2>1. Right(c, 2, s, d, Width(mn), pm, u, v) /\ pm = Plain(mn)
    BY <1>3, <1>4 DEF w, pm, u, v
  <2>. QED
    BY <1>1, <1>2, <2>1, RightTwo
<1>. QED
  BY <1>5, <1>6 DEF u, v

-----------------------------------------------------------------------------
(* Where the operands are. *)

Scratch == {"SP", "SWAP", "FILE"}

LEMMA AskedThree ==
    ASSUME NEW a, NEW b, NEW c, NEW r
    PROVE  /\ Before(<<a, b, c>>, r) \subseteq {a, b, c} \ {r}
           /\ Before(<<a, b, c>>, a) = {}
<1> DEFINE s == <<a, b, c>>
<1>1. Len(s) = 3 /\ s[1] = a /\ s[2] = b /\ s[3] = c
  OBVIOUS
<1> HIDE DEF s
<1>2. \A k \in 1 .. Len(s) : k = 1 \/ k = 2 \/ k = 3
  BY <1>1
<1>3. Asked(s) = {a, b, c}
  <2>1. 1 \in 1 .. Len(s) /\ 2 \in 1 .. Len(s) /\ 3 \in 1 .. Len(s)
    BY <1>1
  <2>. QED
    BY <1>1, <1>2, <2>1 DEF Asked
<1>4. \A q \in Asked(s) : FirstAt(s, q) \in 1 .. 3
  <2> TAKE q \in Asked(s)
  <2>1. \E k \in 1 .. Len(s) : s[k] = q /\ \A l \in 1 .. k - 1 : s[l] # q
    <3>1. CASE q = a
      <4>1. 1 \in 1 .. Len(s) /\ \A l \in 1 .. 1 - 1 : s[l] # q
        BY <1>1
      <4>. QED
        BY <1>1, <3>1, <4>1
    <3>2. CASE q = b /\ q # a
      <4>1. 2 \in 1 .. Len(s) /\ \A l \in 1 .. 2 - 1 : l = 1
        BY <1>1
      <4>. QED
        BY <1>1, <3>2, <4>1
    <3>3. CASE q = c /\ q # a /\ q # b
      <4>1. 3 \in 1 .. Len(s) /\ \A l \in 1 .. 3 - 1 : l = 1 \/ l = 2
        BY <1>1
      <4>. QED
        BY <1>1, <3>3, <4>1
    <3>. QED
      BY <1>3, <3>1, <3>2, <3>3
  <2>2. FirstAt(s, q) \in 1 .. Len(s)
    BY <2>1 DEF FirstAt
  <2>. QED
    BY <1>1, <2>2
<1>5. FirstAt(s, a) = 1
  <2>1. \E k \in 1 .. Len(s) : s[k] = a /\ \A l \in 1 .. k - 1 : s[l] # a
    <3>1. 1 \in 1 .. Len(s) /\ \A l \in 1 .. 1 - 1 : s[l] # a
      BY <1>1
    <3>. QED
      BY <1>1, <3>1
  <2> DEFINE k == FirstAt(s, a)
  <2>2. k \in 1 .. Len(s) /\ s[k] = a /\ \A l \in 1 .. k - 1 : s[l] # a
    BY <2>1 DEF FirstAt
  <2> HIDE DEF k
  <2>3. k = 1 \/ 1 \in 1 .. k - 1
    BY <1>1, <2>2
  <2>. QED
    BY <1>1, <2>2, <2>3 DEF k
<1>6. Before(s, a) = {}
  <2>1. \A q \in Asked(s) : ~(FirstAt(s, q) < 1)
    BY <1>4
  <2>. QED
    BY <1>5, <2>1 DEF Before
<1>7. Before(s, r) \subseteq {a, b, c} \ {r}
  <2>1. r \notin Before(s, r)
    <3>1. CASE r \in Asked(s)
      <4>1. ~(FirstAt(s, r) < FirstAt(s, r))
        BY <1>4, <3>1
      <4>. QED
        BY <4>1 DEF Before
    <3>. QED
      BY <3>1 DEF Before
  <2>. QED
    BY <1>3, <2>1 DEF Before
<1>. QED
  BY <1>6, <1>7 DEF s

LEMMA AtMostTwo ==
    ASSUME NEW a, NEW b, NEW T, T \subseteq {a, b}
    PROVE  Cardinality(T) \in 0 .. 2
<1>1. IsFiniteSet({a}) /\ Cardinality({a}) = 1
  BY FS_Singleton
<1>2. IsFiniteSet({a} \cup {b}) /\ Cardinality({a} \cup {b}) \in 1 .. 2
  <2>1. IsFiniteSet({a} \cup {b}) /\ Cardinality({a} \cup {b}) = IF b \in {a} THEN Cardinality({a}) ELSE Cardinality({a}) + 1
    BY <1>1, FS_AddElement
  <2>. QED
    BY <1>1, <2>1
<1>3. T \subseteq {a} \cup {b}
  OBVIOUS
<1>4. IsFiniteSet(T) /\ Cardinality(T) <= Cardinality({a} \cup {b})
  BY <1>2, <1>3, FS_Subset
<1>5. Cardinality(T) \in Nat
  BY <1>4, FS_CardinalityType
<1>. QED
  BY <1>2, <1>4, <1>5

LEMMA Placed ==
    ASSUME NEW f \in Forms, NEW r \in {f.rs1, f.rs2, f.rd}, r \notin gp_mapped
    PROVE  /\ Place(f, r) \in {"AX", "DX", "CX"}
           /\ f.mnem \notin ShiftOps => Place(f, f.rs1) = "AX" \/ f.rs1 \in gp_mapped
<1> DEFINE T == Before(Order(f), r)
<1>1. Cardinality(T) \in 0 .. 2
  <2>1. Order(f) = <<f.rs1, f.rs2, f.rd>> \/ Order(f) = <<f.rs2, f.rs1, f.rd>>
    BY DEF Order
  <2>2. T \subseteq {f.rs1, f.rs2, f.rd} \ {r}
    BY <2>1, AskedThree
  <2>3. \E a, b : {f.rs1, f.rs2, f.rd} \ {r} \subseteq {a, b}
    <3>1. CASE r = f.rs1
      BY <3>1
    <3>2. CASE r = f.rs2
      BY <3>2
    <3>3. CASE r = f.rd
      BY <3>3
    <3>. QED
      BY <3>1, <3>2, <3>3
  <2> HIDE DEF T
  <2>. QED
    BY <2>2, <2>3, AtMostTwo
<1>2. Place(f, r) \in {"AX", "DX", "CX"}
  <2> DEFINE n == Cardinality(T) + 1
             z == <<"AX", "DX", "CX">>
  <2>1. n = 1 \/ n = 2 \/ n = 3
    BY <1>1
  <2> HIDE DEF n
  <2>2. z[n] \in {"AX", "DX", "CX"}
    BY <2>1
  <2> HIDE DEF z
  <2>. QED
    BY <2>2 DEF Place, n, z
<1>3. ASSUME f.mnem \notin ShiftOps, f.rs1 \notin gp_mapped
      PROVE  Place(f, f.rs1) = "AX"
  <2>1. Order(f) = <<f.rs1, f.rs2, f.rd>>
    BY <1>3 DEF Order
  <2>2. Before(Order(f), f.rs1) = {}
    BY <2>1, AskedThree
  <2>3. Cardinality(Before(Order(f), f.rs1)) + 1 = 1
    <3>1. Cardinality({}) = 0
      BY FS_EmptySet
    <3>. QED
      BY <2>2, <3>1
  <2>4. <<"AX", "DX", "CX">>[1] = "AX"
    OBVIOUS
  <2>5. f.mnem \in MulHighOps \cup DivOps \cup MinMaxOps => f.rs1 # f.rs2
    BY <1>3, FormsAssumption
  <2>. QED
    BY <1>3, <2>2, <2>3, <2>4, <2>5 DEF Place
<1>. QED
  BY <1>2, <1>3

LEMMA Operands ==
    ASSUME NEW f \in Forms
    PROVE  /\ {regSrc1(f), regSrc2(f), regDest(f)} \subseteq Hosts \ Scratch
           /\ f.mnem \in ShiftOps => (regDest(f) = regSrc2(f) => regDest(f) = regSrc1(f))
           /\ Accesses(f) => regSrc1(f) = IF f.rs1 \in gp_mapped THEN gp_map[f.rs1] ELSE "AX"
<1> DEFINE H == Hosts \ Scratch
<1>1. {"AX", "DX", "CX"} \subseteq H
  BY HostNames DEF Scratch
<1>2. \A r \in gp_mapped : gp_map[r] \in H
  BY HostNames DEF Scratch
<1>3. \A r \in {f.rs1, f.rs2, f.rd} : Place(f, r) \in H
  <2> TAKE r \in {f.rs1, f.rs2, f.rd}
  <2>1. CASE r \in gp_mapped
    BY <1>2, <2>1 DEF Place
  <2>2. CASE r \notin gp_mapped
    BY <1>1, <2>2, Placed
  <2>. QED
    BY <2>1, <2>2
<1> HIDE DEF H
<1>4. regSrc1(f) \in H
  BY <1>1, <1>3 DEF regSrc1
<1>5. regSrc2(f) \in H
  BY <1>1, <1>3 DEF regSrc2
<1>6. regDest(f) \in H
  BY <1>1, <1>3 DEF regDest
<1>7. ASSUME f.mnem \in ShiftOps, regDest(f) = regSrc2(f)
      PROVE  regDest(f) = regSrc1(f)
  <2>1. regSrc2(f) = "CX" /\ regSrc1(f) = Place(f, f.rs1)
    <3>1. f.mnem \notin MulHighOps \cup DivOps /\ f.mnem \notin MinMaxOps
      BY <1>7 DEF ShiftOps, MulHighOps, DivOps, MinMaxOps
    <3>. QED
      BY <1>7, <3>1 DEF regSrc2, regSrc1
  <2>2. regDest(f) = "CX" => f.rd = f.rs1
    BY <1>7 DEF regDest
  <2>3. f.rd = f.rs1 => regDest(f) = Place(f, f.rs1)
    BY DEF regDest
  <2>. QED
    BY <1>7, <2>1, <2>2, <2>3
<1>8. ASSUME Accesses(f)
      PROVE  regSrc1(f) = IF f.rs1 \in gp_mapped THEN gp_map[f.rs1] ELSE "AX"
  <2>1. f.mnem \notin ShiftOps \cup MulHighOps \cup DivOps
    BY <1>8 DEF Accesses, ShiftOps, MulHighOps, DivOps, LoadOps, StoreOps, AmoOps, MinMaxOps
  <2>2. regSrc1(f) = Place(f, f.rs1)
    BY <2>1 DEF regSrc1
  <2>3. CASE f.rs1 \in gp_mapped
    BY <2>2, <2>3 DEF Place
  <2>4. CASE f.rs1 \notin gp_mapped
    BY <2>1, <2>2, <2>4, Placed
  <2>. QED
    BY <2>3, <2>4
<1>. QED
  BY <1>4, <1>5, <1>6, <1>7, <1>8 DEF H

\* The host before the code: the address in the first operand's register is that
\* of the memory word, and rs1 is where MULHSU finds it again.
Entered(f, s) ==
    /\ State(s) /\ ~s.fault
    /\ Accesses(f) => \E c \in Word : s.mem = OneWord(W(s.reg[regSrc1(f)] + f.imm), c)
    /\ f.mnem \in MulHighOps =>
          s.reg[IF f.rs1 \in gp_mapped THEN gp_map[f.rs1] ELSE "FILE"] = s.reg["AX"]

LEMMA EnteredAtFirst ==
    ASSUME SizeFacts, NEW f \in Forms, NEW val \in [{f.rs1, f.rs2, f.rd} -> Values], NEW cell \in Cells
    PROVE  Entered(f, HostWith(f, val, cell))
<1> DEFINE s == HostWith(f, val, cell)
           held(h) == {r \in DOMAIN val : Place(f, r) = h}
           R(h) == CASE h = "AX" /\ regSrc1(f) = "AX" -> val[f.rs1]
                     [] h = "CX" /\ regSrc2(f) = "CX" -> val[f.rs2]
                     [] h = "DX" /\ regSrc2(f) = "DX" -> val[f.rs2]
                     [] h = "FILE" -> val[f.rs1]
                     [] OTHER -> IF held(h) = {} THEN 1 ELSE val[CHOOSE r \in held(h) : TRUE]
<1>1. /\ s.reg = [h \in Hosts |-> R(h)]
      /\ s.mem = IF Accesses(f) THEN OneWord(W(val[f.rs1] + f.imm), cell) ELSE <<>>
      /\ s.fault = FALSE /\ DOMAIN s = {"reg", "mem", "flags", "fault"}
  BY DEF HostWith
<1>2. cell \in Word /\ \A r \in {f.rs1, f.rs2, f.rd} : val[r] \in Word
  BY ValuesAssumption
<1>3. 1 \in Word
  <2>1. XLEN \in Widths
    BY DEF Widths
  <2>2. 2^XLEN \in Nat \ {0} /\ 2^XLEN = 2 * 2^(XLEN - 1) /\ 2^(XLEN - 1) \in Nat \ {0}
    BY <2>1, Sizes
  <2> DEFINE n == 2^XLEN
             k == 2^(XLEN - 1)
  <2>3. n \in Nat /\ n = 2 * k /\ k \in Nat \ {0}
    BY <2>2
  <2> HIDE DEF n, k
  <2>4. 1 \in 0 .. n - 1
    BY <2>3
  <2>. QED
    BY <2>4 DEF Word, n
<1>4. \A h : R(h) \in Word
  <2> TAKE h
  <2>1. held(h) # {} => (CHOOSE r \in held(h) : TRUE) \in {f.rs1, f.rs2, f.rd}
    OBVIOUS
  <2>. QED
    BY <1>2, <1>3, <2>1
<1> HIDE DEF s, R
<1>5. State(s)
  BY <1>1, <1>4 DEF State
<1>6. ASSUME f.rs1 \in gp_mapped
      PROVE  R(gp_map[f.rs1]) = val[f.rs1]
  <2> DEFINE g == gp_map[f.rs1]
  <2>1. g \notin {"AX", "DX", "CX", "FILE"}
    BY <1>6, HostNames
  <2>2. held(g) = {f.rs1}
    <3>1. Place(f, f.rs1) = g /\ f.rs1 \in DOMAIN val
      BY <1>6 DEF Place
    <3>2. ASSUME NEW r \in DOMAIN val, Place(f, r) = g
          PROVE  r = f.rs1
      <4>1. CASE r \in gp_mapped
        BY <1>6, <3>2, <4>1, MapAssumption DEF Place
      <4>2. CASE r \notin gp_mapped
        BY <2>1, <3>2, <4>2, Placed
      <4>. QED
        BY <4>1, <4>2
    <3>. QED
      BY <3>1, <3>2
  <2>. QED
    BY <2>1, <2>2 DEF R
<1>7. R("AX") = val[f.rs1] \/ regSrc1(f) # "AX"
  BY DEF R
<1>8. R("FILE") = val[f.rs1]
  BY DEF R
<1>9. "AX" \in Hosts /\ "FILE" \in Hosts /\ \A r \in gp_mapped : gp_map[r] \in Hosts
  BY HostNames
<1>10. ASSUME Accesses(f)
       PROVE  \E c \in Word : s.mem = OneWord(W(s.reg[regSrc1(f)] + f.imm), c)
  <2>1. regSrc1(f) = IF f.rs1 \in gp_mapped THEN gp_map[f.rs1] ELSE "AX"
    BY <1>10, Operands
  <2>2. s.reg[regSrc1(f)] = val[f.rs1]
    <3>1. CASE f.rs1 \in gp_mapped
      BY <1>1, <1>6, <1>9, <2>1, <3>1
    <3>2. CASE f.rs1 \notin gp_mapped
      BY <1>1, <1>7, <1>9, <2>1, <3>2
    <3>. QED
      BY <3>1, <3>2
  <2>. QED
    BY <1>1, <1>2, <1>10, <2>2
<1>11. ASSUME f.mnem \in MulHighOps
       PROVE  s.reg[IF f.rs1 \in gp_mapped THEN gp_map[f.rs1] ELSE "FILE"] = s.reg["AX"]
  <2>1. regSrc1(f) = "AX"
    BY <1>11 DEF regSrc1
  <2>2. s.reg["AX"] = val[f.rs1]
    BY <1>1, <1>7, <1>9, <2>1
  <2>3. CASE f.rs1 \in gp_mapped
    BY <1>1, <1>6, <1>9, <2>2, <2>3
  <2>4. CASE f.rs1 \notin gp_mapped
    BY <1>1, <1>8, <1>9, <2>2, <2>4
  <2>. QED
    BY <2>3, <2>4
<1>. QED
  BY <1>1, <1>5, <1>10, <1>11 DEF Entered, s

-----------------------------------------------------------------------------
(* Memory. *)

LEMMA OneCell ==
    ASSUME NEW a, NEW c, NEW v
    PROVE  OneWord(a, c)[a] = c /\ [OneWord(a, c) EXCEPT ![a] = v] = OneWord(a, v)
BY DEF OneWord

\* The host's memory is the word c, which register b and i address.
Addressed(s, b, i, a, c) == State(s) /\ b \in Hosts /\ At(s, b, i) = a /\ s.mem = OneWord(a, c) /\ c \in Word

LEMMA SignedWhole ==
    ASSUME SizeFacts, NEW c \in Word
    PROVE  W(SignedOf(c, XLEN)) = c /\ W(c) = c /\ Trunc(c, XLEN) = c /\ c \in Int
<1>1. XLEN \in Widths /\ 2^XLEN \in Nat \ {0}
  BY Sizes DEF Widths
<1>2. c \in 0 .. 2^XLEN - 1 /\ c \in Int
  BY <1>1 DEF Word
<1>3. Trunc(c, XLEN) = c
  BY <1>1, <1>2, TruncType
<1>4. SignedOf(c, XLEN) \in Int /\ Trunc(SignedOf(c, XLEN), XLEN) = Trunc(c, XLEN)
  BY <1>1, <1>2, SignedType
<1>. QED
  BY <1>2, <1>3, <1>4, WordOf

LEMMA LoadStep ==
    ASSUME SizeFacts, NEW s, NEW b, NEW i, NEW a, NEW c, Addressed(s, b, i, a, c), NEW w \in Widths, NEW d \in Hosts
    PROVE  /\ Writes(s, Perform(s, Ins("LOAD", w, d, b, i)), d, Trunc(c, w))
           /\ Writes(s, Perform(s, Ins("LOADSX", w, d, b, i)), d, W(SignedOf(c, w)))
<1>1. LoadAt(s, b, i, w) = Trunc(c, w) /\ State(s)
  BY OneCell DEF LoadAt, Addressed
<1>2. c \in Int
  BY SignedWhole DEF Addressed
<1>3. Trunc(Trunc(c, w), w) = Trunc(c, w) /\ Trunc(c, w) \in Word
  BY <1>2, TruncSame, TruncType
<1>4. SignedOf(Trunc(c, w), w) = SignedOf(c, w) /\ SignedOf(c, w) \in Int
  BY <1>2, <1>3, SignedSame, SignedType
<1>5. W(SignedOf(c, w)) \in Word
  BY <1>4, WordOf
<1>6. ASSUME NEW op, NEW e, e = Ins(op, w, d, b, i)
      PROVE  e.op = op /\ e.w = w /\ e.d = d /\ e.s = b /\ e.i = i
  BY <1>6 DEF Ins
<1>7. Perform(s, Ins("LOAD", w, d, b, i)) = Set(s, d, Trunc(c, w))
  BY <1>1, <1>6, Performs
<1>8. Perform(s, Ins("LOADSX", w, d, b, i)) = Set(s, d, W(SignedOf(c, w)))
  BY <1>1, <1>4, <1>6, Performs
<1>. QED
  BY <1>1, <1>3, <1>5, <1>7, <1>8, SetWrites

\* The w lowest bits of c replaced by those of v.
Merged(c, v, w) == c - Trunc(c, w) + Trunc(v, w)

\* From s to t, only the memory word changes, to v.
Saves(s, t, a, v) == State(t) /\ t.fault = s.fault /\ t.reg = s.reg /\ t.mem = OneWord(a, v)

LEMMA StoreStep ==
    ASSUME SizeFacts, NEW s, NEW b, NEW i \in Int, NEW a, NEW c, Addressed(s, b, i, a, c), NEW w, NEW r
    PROVE  Saves(s, Perform(s, Ins("STORE", w, b, r, i)), a, Merged(c, s.reg[r], w))
<1>1. ASSUME NEW e, e = Ins("STORE", w, b, r, i)
      PROVE  e.op = "STORE" /\ e.w = w /\ e.d = b /\ e.s = r /\ e.i = i
  BY <1>1 DEF Ins
<1>2. Perform(s, Ins("STORE", w, b, r, i)) = StoreAt(s, b, i, w, s.reg[r])
  BY <1>1, Performs
<1>3. ASSUME NEW t, t = StoreAt(s, b, i, w, s.reg[r])
      PROVE  Saves(s, t, a, Merged(c, s.reg[r], w))
  <2>1. t.mem = [s.mem EXCEPT ![a] = s.mem[a] - Trunc(s.mem[a], w) + Trunc(s.reg[r], w)]
    BY <1>3 DEF StoreAt, Addressed, State
  <2>2. t.mem = OneWord(a, Merged(c, s.reg[r], w))
    BY <2>1, OneCell DEF Addressed, Merged
  <2>3. State(t) /\ t.fault = s.fault /\ t.reg = s.reg
    BY <1>3 DEF StoreAt, Addressed, State
  <2>. QED
    BY <2>2, <2>3 DEF Saves
<1>. QED
  BY <1>2, <1>3

LEMMA RmwStep ==
    ASSUME SizeFacts, NEW s, NEW b, NEW a, NEW c, Addressed(s, b, 0, a, c), NEW w, NEW r, NEW op
    PROVE  Saves(s, Perform(s, Ins("RMW", w, b, r, op)), a,
                 Merged(c, Alu(op, w, Trunc(c, w), Trunc(s.reg[r], w)), w))
<1> DEFINE v == Alu(op, w, Trunc(c, w), Trunc(s.reg[r], w))
<1>1. ASSUME NEW e, e = Ins("RMW", w, b, r, op)
      PROVE  e.op = "RMW" /\ e.w = w /\ e.d = b /\ e.s = r /\ e.i = op
  BY <1>1 DEF Ins
<1>2. LoadAt(s, b, 0, w) = Trunc(c, w)
  BY OneCell DEF LoadAt, Addressed
<1> HIDE DEF v
<1>3. Perform(s, Ins("RMW", w, b, r, op)) = StoreAt(s, b, 0, w, v)
  BY <1>1, <1>2, Performs DEF v
<1>4. ASSUME NEW t, t = StoreAt(s, b, 0, w, v)
      PROVE  Saves(s, t, a, Merged(c, v, w))
  <2>1. t.mem = [s.mem EXCEPT ![a] = s.mem[a] - Trunc(s.mem[a], w) + Trunc(v, w)]
    BY <1>4 DEF StoreAt, Addressed, State
  <2>2. t.mem = OneWord(a, Merged(c, v, w))
    BY <2>1, OneCell DEF Addressed, Merged
  <2>3. State(t) /\ t.fault = s.fault /\ t.reg = s.reg
    BY <1>4 DEF StoreAt, Addressed, State
  <2>. QED
    BY <2>2, <2>3 DEF Saves
<1>. QED
  BY <1>3, <1>4 DEF v

\* A conditional move of s or d itself into d.
LEMMA MoveIfStep ==
    ASSUME SizeFacts, NEW s, State(s), NEW w \in Widths, NEW d \in Hosts, NEW r \in Hosts, NEW cc
    PROVE  Writes(s, Perform(s, Ins("CMOV", w, d, r, cc)), d,
                  Trunc(IF Holds(cc, s.flags) THEN s.reg[r] ELSE s.reg[d], w))
<1>1. ASSUME NEW e, e = Ins("CMOV", w, d, r, cc)
      PROVE  e.op = "CMOV" /\ e.w = w /\ e.d = d /\ e.s = r /\ e.i = cc
  BY <1>1 DEF Ins
<1> DEFINE b == Holds(cc, s.flags)
           v == Trunc(IF b THEN s.reg[r] ELSE s.reg[d], w)
<1>2. Perform(s, Ins("CMOV", w, d, r, cc)) = Set(s, d, Trunc(s.reg[IF b THEN r ELSE d], w))
  BY <1>1, Performs
<1> HIDE DEF b
<1>3. Trunc(s.reg[IF b THEN r ELSE d], w) = v
  OBVIOUS
<1>4. v \in Word
  <2>1. s.reg[r] \in Int /\ s.reg[d] \in Int
    BY Words
  <2>. QED
    BY <2>1, TruncType
<1> HIDE DEF v
<1>5. Writes(s, Perform(s, Ins("CMOV", w, d, r, cc)), d, v)
  BY <1>2, <1>3, <1>4, SetWrites
<1>. QED
  BY <1>5 DEF v, b

-----------------------------------------------------------------------------
(* What the code of each kind of instruction brings about. *)

Outcome(t) ==
    /\ ~t.fault
    /\ WritesRd => t.reg[regDest(form)] = Result
    /\ Accesses(form) => t.mem = OneWord(W(Operand1 + form.imm), NewCell)
    /\ \A h \in Relied : t.reg[h] = start.reg[h]

\* The code is plain, and what it ends with is right.
PlainCode == Straight(Emission(form), 7) /\ Outcome(Final(Emission(form), start))

ArithmeticOps == ImmOps \cup RegOps \cup ShiftOps

LEMMA KindsDiffer ==
    ASSUME NEW mn
    PROVE  /\ mn \in ArithmeticOps => mn \notin MulHighOps \cup DivOps \cup LoadOps \cup StoreOps \cup AmoOps \cup MinMaxOps
           /\ mn \in ImmOps => mn \notin RegOps \cup ShiftOps
           /\ mn \in RegOps => mn \notin ShiftOps
           /\ mn \in MulHighOps => mn \notin DivOps \cup LoadOps \cup StoreOps \cup AmoOps \cup MinMaxOps \cup WOps
           /\ mn \in DivOps => mn \notin LoadOps \cup StoreOps \cup AmoOps \cup MinMaxOps
           /\ mn \in LoadOps => mn \notin StoreOps \cup AmoOps \cup MinMaxOps
           /\ mn \in StoreOps => mn \notin AmoOps \cup MinMaxOps
           /\ mn \in AmoOps => mn \notin MinMaxOps
<1>1. mn \in ImmOps => mn \notin RegOps \cup ShiftOps \cup MulHighOps \cup DivOps \cup LoadOps \cup StoreOps \cup AmoOps \cup MinMaxOps
  BY DEF ImmOps, RegOps, ShiftOps, MulHighOps, DivOps, LoadOps, StoreOps, AmoOps, MinMaxOps
<1>2. mn \in RegOps => mn \notin ShiftOps \cup MulHighOps \cup DivOps \cup LoadOps \cup StoreOps \cup AmoOps \cup MinMaxOps
  BY DEF RegOps, ShiftOps, MulHighOps, DivOps, LoadOps, StoreOps, AmoOps, MinMaxOps
<1>3. mn \in ShiftOps => mn \notin MulHighOps \cup DivOps \cup LoadOps \cup StoreOps \cup AmoOps \cup MinMaxOps
  BY DEF ShiftOps, MulHighOps, DivOps, LoadOps, StoreOps, AmoOps, MinMaxOps
<1>4. mn \in MulHighOps => mn \notin DivOps \cup LoadOps \cup StoreOps \cup AmoOps \cup MinMaxOps \cup WOps
  BY DEF MulHighOps, DivOps, LoadOps, StoreOps, AmoOps, MinMaxOps, WOps
<1>5. mn \in DivOps => mn \notin LoadOps \cup StoreOps \cup AmoOps \cup MinMaxOps
  BY DEF DivOps, LoadOps, StoreOps, AmoOps, MinMaxOps
<1>6. mn \in LoadOps => mn \notin StoreOps \cup AmoOps \cup MinMaxOps
  BY DEF LoadOps, StoreOps, AmoOps, MinMaxOps
<1>7. mn \in StoreOps => mn \notin AmoOps \cup MinMaxOps
  BY DEF StoreOps, AmoOps, MinMaxOps
<1>8. mn \in AmoOps => mn \notin MinMaxOps
  BY DEF AmoOps, MinMaxOps
<1>. QED
  BY <1>1, <1>2, <1>3, <1>4, <1>5, <1>6, <1>7, <1>8 DEF ArithmeticOps

LEMMA StraightMore ==
    ASSUME NEW n \in 0 .. 7, NEW c, Straight(c, n)
    PROVE  Straight(c, 7)
<1> DEFINE l == Len(c)
<1>1. l \in 0 .. n
  BY DEF Straight
<1> HIDE DEF l
<1>2. l \in 0 .. 7
  BY <1>1
<1>. QED
  BY <1>2 DEF Straight, l

LEMMA ArithmeticOutcome ==
    ASSUME SizeFacts, form \in Forms, Entered(form, start), form.mnem \in ArithmeticOps
    PROVE  PlainCode
<1> DEFINE mn == form.mnem
           d == regDest(form)
           s1 == regSrc1(form)
           s2 == regSrc2(form)
           c == Emission(form)
           t == Final(c, start)
<1>1. {d, s1, s2} \subseteq Hosts /\ State(start) /\ ~start.fault /\ form.imm \in Int
  BY Operands, FormsAssumption DEF Entered
<1>2. Gives(c, 3, start, d, Computed(mn, Operand1, Operand2))
  <2>1. CASE mn \in ImmOps
    <3>1. c = ImmCode(mn, d, s1, form.imm)
      BY <2>1, KindsDiffer DEF Emission
    <3>2. Operand1 = start.reg[s1] /\ Operand2 = W(form.imm)
      BY <2>1 DEF Operand1, Operand2
    <3>. QED
      BY <1>1, <2>1, <3>1, <3>2, ImmGives
  <2>2. CASE mn \in RegOps
    <3>1. c = RegCode(mn, d, s1, s2)
      BY <2>2, KindsDiffer DEF Emission
    <3>2. Operand1 = start.reg[s1] /\ Operand2 = start.reg[s2]
      BY <2>2, KindsDiffer DEF Operand1, Operand2
    <3>. QED
      BY <1>1, <2>2, <3>1, <3>2, RegGives
  <2>3. CASE mn \in ShiftOps
    <3>1. c = ShiftCode(mn, d, s1, s2)
      BY <2>3, KindsDiffer DEF Emission
    <3>2. Operand1 = start.reg[s1] /\ Operand2 = start.reg[s2]
      BY <2>3, KindsDiffer DEF Operand1, Operand2
    <3>3. d = s2 => d = s1
      BY <2>3, Operands
    <3>. QED
      BY <1>1, <2>3, <3>1, <3>2, <3>3, ShiftGives
  <2>. QED
    BY <2>1, <2>2, <2>3 DEF ArithmeticOps
<1>3. mn \notin LoadOps \cup StoreOps \cup AmoOps \cup MinMaxOps \cup MulHighOps \cup DivOps
  BY KindsDiffer
<1>4. Result = Computed(mn, Operand1, Operand2)
  BY <1>3 DEF Result, Computed
<1>5. ~Accesses(form)
  BY <1>3 DEF Accesses
<1>6. Relied \subseteq Hosts \ {d}
  BY DEF Relied
<1> HIDE DEF d, c
<1>7. Writes(start, t, d, Computed(mn, Operand1, Operand2)) /\ Straight(c, 3)
  BY <1>2 DEF Gives
<1>8. t.fault = start.fault /\ t.reg[d] = Computed(mn, Operand1, Operand2)
      /\ \A h \in Hosts \ {d} : t.reg[h] = start.reg[h]
  BY <1>7 DEF Writes
<1>9. Outcome(t)
  BY <1>1, <1>4, <1>5, <1>6, <1>8 DEF Outcome, d
<1>. QED
  BY <1>7, <1>9, StraightMore DEF PlainCode, c

\* The memory of an instruction that accesses one, at the code's start.
LEMMA EnteredMemory ==
    ASSUME SizeFacts, form \in Forms, Entered(form, start), Accesses(form)
    PROVE  /\ start.mem = OneWord(W(Operand1 + form.imm), Cell) /\ Cell \in Word
           /\ Addressed(start, regSrc1(form), form.imm, W(Operand1 + form.imm), Cell)
           /\ regSrc1(form) \in Hosts \ (Scratch \cup {"DX"})
<1>1. PICK c \in Word : start.mem = OneWord(W(Operand1 + form.imm), c)
  BY DEF Entered, Operand1
<1>2. Cell = c
  BY <1>1, OneCell DEF Cell
<1>3. regSrc1(form) \in Hosts \ (Scratch \cup {"DX"})
  BY Operands, HostNames DEF Scratch
<1>. QED
  BY <1>1, <1>2, <1>3 DEF Addressed, Entered, At, Operand1

LEMMA LoadOutcome ==
    ASSUME SizeFacts, form \in Forms, Entered(form, start), form.mnem \in LoadOps
    PROVE  PlainCode
<1> DEFINE mn == form.mnem
           d == regDest(form)
           b == regSrc1(form)
           i == form.imm
           a == W(Operand1 + form.imm)
           c == Emission(form)
           t == Final(c, start)
<1>1. Accesses(form) /\ mn \notin StoreOps \cup AmoOps \cup MinMaxOps \cup ArithmeticOps \cup MulHighOps \cup DivOps
  BY KindsDiffer DEF Accesses
<1>2. d \in Hosts /\ i \in Int /\ State(start) /\ ~start.fault
  BY Operands, FormsAssumption DEF Entered
<1>3. /\ Addressed(start, b, i, a, Cell) /\ Cell \in Word /\ start.mem = OneWord(a, Cell)
      /\ {BYTE, SHORT, HALF, XLEN} \subseteq Widths
  BY <1>1, EnteredMemory DEF Widths
<1>4. Result = W(LoadedAs(mn, Cell)) /\ NewCell = Cell
  BY <1>1 DEF Result, NewCell
<1>5. c = LoadCode(mn, d, b, i)
  BY <1>1 DEF Emission, ArithmeticOps
<1>6. i = 0 \/ mn \notin {"LRW", "LRD"}
  BY FormsAssumption
<1> HIDE DEF d, b, i, a, c
<1>7. \A w \in Widths : /\ Writes(start, Perform(start, Ins("LOAD", w, d, b, i)), d, Trunc(Cell, w))
                        /\ Writes(start, Perform(start, Ins("LOADSX", w, d, b, i)), d, W(SignedOf(Cell, w)))
  BY <1>2, <1>3, LoadStep
<1>8. W(Cell) = Cell /\ Trunc(Cell, XLEN) = Cell /\ Cell \in Int
  BY <1>3, SignedWhole
<1>9. \A w \in Widths : W(Trunc(Cell, w)) = Trunc(Cell, w)
  BY <1>8, TruncType, SignedWhole
<1>10. \A w : \A op \in {"LOAD", "LOADSX"} : Ins(op, w, d, b, i).op \in PlainOps
  BY DEF Ins, PlainOps
<1>11. ASSUME NEW e, c = <<e>>, e.op \in PlainOps, Writes(start, Perform(start, e), d, Result)
       PROVE  PlainCode
  <2>1. Gives(c, 1, start, d, Result)
    BY <1>11, GivesOne
  <2>2. Writes(start, t, d, Result) /\ Straight(c, 1)
    BY <2>1 DEF Gives
  <2>3. Relied \subseteq Hosts \ {d}
    BY DEF Relied, d
  <2>4. Outcome(t)
    BY <1>2, <1>3, <1>4, <2>2, <2>3 DEF Outcome, Writes, d, a
  <2>. QED
    BY <2>2, <2>4, StraightMore DEF PlainCode, c
<1>12. CASE mn \in {"LB", "LH", "LW", "LRW"}
  <2> DEFINE w == IF mn = "LB" THEN BYTE ELSE IF mn = "LH" THEN SHORT ELSE HALF
  <2>1. c = <<Ins("LOADSX", w, d, b, i)>>
    BY <1>5, <1>6, <1>12 DEF LoadCode
  <2>2. Result = W(SignedOf(Cell, w)) /\ w \in Widths
    BY <1>3, <1>4, <1>12 DEF LoadedAs
  <2> HIDE DEF w
  <2>. QED
    BY <1>7, <1>10, <1>11, <2>1, <2>2
<1>13. CASE mn \in {"LBU", "LHU", "LWU", "LD", "LRD"}
  <2> DEFINE w == IF mn = "LBU" THEN BYTE ELSE IF mn = "LHU" THEN SHORT ELSE IF mn = "LWU" THEN HALF ELSE XLEN
  <2>1. c = <<Ins("LOAD", w, d, b, i)>>
    BY <1>5, <1>6, <1>13 DEF LoadCode
  <2>2. Result = Trunc(Cell, w) /\ w \in Widths
    BY <1>3, <1>4, <1>8, <1>9, <1>13 DEF LoadedAs
  <2> HIDE DEF w
  <2>. QED
    BY <1>7, <1>10, <1>11, <2>1, <2>2
<1>. QED
  BY <1>12, <1>13 DEF LoadOps

LEMMA StraightTwo ==
    ASSUME NEW a, NEW b, a.op \in PlainOps, b.op \in PlainOps, NEW s
    PROVE  Straight(<<a, b>>, 2) /\ Final(<<a, b>>, s) = Perform(Perform(s, a), b)
<1> DEFINE u == <<a, b>>
<1>1. u \in Seq({a, b}) /\ Len(u) = 2 /\ u[1] = a /\ u[2] = b
  OBVIOUS
<1> HIDE DEF u
<1>2. IsCode(u)
  BY <1>1 DEF IsCode
<1>3. \A k \in 1 .. Len(u) : k = 1 \/ k = 2
  BY <1>1
<1>4. Straight(u, 2)
  BY <1>1, <1>2, <1>3 DEF Straight
<1>5. Final(u, s) = Perform(Perform(s, a), b)
  BY <1>1 DEF Final, After
<1>. QED
  BY <1>4, <1>5 DEF u

LEMMA StoreOutcome ==
    ASSUME SizeFacts, form \in Forms, Entered(form, start), form.mnem \in StoreOps
    PROVE  PlainCode
<1> DEFINE mn == form.mnem
           d == regDest(form)
           b == regSrc1(form)
           r == regSrc2(form)
           i == form.imm
           a == W(Operand1 + form.imm)
           w == StoreWidth(mn)
           c == Emission(form)
           t == Final(c, start)
           e == Ins("STORE", w, b, r, i)
           s == Perform(start, e)
<1>1. Accesses(form) /\ mn \notin LoadOps \cup AmoOps \cup MinMaxOps \cup ArithmeticOps \cup MulHighOps \cup DivOps
  BY KindsDiffer DEF Accesses
<1>2. d \in Hosts /\ i \in Int /\ State(start) /\ ~start.fault
  BY Operands, FormsAssumption DEF Entered
<1>3. Addressed(start, b, i, a, Cell)
  BY <1>1, EnteredMemory
<1>4. Result = 0
  BY <1>1 DEF Result
<1>5. NewCell = Merged(Cell, start.reg[r], w)
  <2>1. Operand2 = start.reg[r]
    BY <1>1 DEF Operand2, ArithmeticOps
  <2>2. NewCell = Cell - Trunc(Cell, w) + Trunc(Operand2, w)
    BY <1>1 DEF NewCell
  <2>. QED
    BY <2>1, <2>2 DEF Merged
<1>6. e.op \in PlainOps
  BY DEF Ins, PlainOps
<1>7. Saves(start, s, a, NewCell)
  <2> HIDE DEF a, b, i, w, r
  <2>1. Saves(start, Perform(start, Ins("STORE", w, b, r, i)), a, Merged(Cell, start.reg[r], w))
    BY <1>2, <1>3, StoreStep
  <2>. QED
    BY <1>5, <2>1
<1>8. c = StoreCode(mn, d, b, r, i)
  BY <1>1 DEF Emission, ArithmeticOps
<1>9. i = 0 \/ mn \notin {"SCW", "SCD"}
  BY FormsAssumption
<1> HIDE DEF d, b, r, i, a, w, c, t, e, s
<1>10. CASE mn \notin {"SCW", "SCD"}
  <2>1. c = <<e>>
    BY <1>8, <1>10 DEF StoreCode, e, w
  <2>2. Straight(c, 1) /\ t = s
    BY <1>6, <2>1, StraightOne DEF t, s
  <2>3. ~WritesRd
    BY <1>10 DEF WritesRd, StoreOps
  <2>4. Outcome(t)
    BY <1>2, <1>7, <2>2, <2>3 DEF Outcome, Saves, a
  <2>. QED
    BY <2>2, <2>4, StraightMore DEF PlainCode, c, t
<1>11. CASE mn \in {"SCW", "SCD"}
  <2> DEFINE f == RI("MOV", XLEN, d, 0)
             u == Perform(s, f)
  <2>1. f.op \in PlainOps /\ "MOV" \in AluOps /\ XLEN \in Widths /\ 0 \in Int /\ NONE \in Hosts \cup {NONE}
    BY DEF RI, Ins, PlainOps, AluOps, Widths
  <2>2. c = <<e, f>>
    BY <1>8, <1>9, <1>11 DEF StoreCode, e, w, i
  <2>3. State(s)
    BY <1>7 DEF Saves
  <2>4. Writes(s, u, d, 0)
    <3>1. Writes(s, Perform(s, Ins("MOV", XLEN, d, NONE, 0)), d,
                 Alu("MOV", XLEN, Trunc(s.reg[d], XLEN), Trunc(IF NONE = NONE THEN 0 ELSE s.reg[NONE], XLEN)))
      BY <1>2, <2>1, <2>3, AluStep
    <3>2. Trunc(0, XLEN) = 0
      <4>1. 2^XLEN \in Nat \ {0}
        BY <2>1, Sizes
      <4>. QED
        BY <4>1, ModSmall DEF Trunc
    <3>3. \A x, y : Alu("MOV", XLEN, x, y) = y
      BY DEF Alu
    <3>. QED
      BY <3>1, <3>2, <3>3 DEF RI
  <2> HIDE DEF f, u
  <2>5. Straight(c, 2) /\ t = u
    BY <1>6, <2>1, <2>2, StraightTwo DEF t, s, u
  <2>6. Relied \subseteq Hosts \ {d}
    BY DEF Relied, d
  <2>7. Outcome(t)
    BY <1>2, <1>4, <1>7, <2>4, <2>5, <2>6 DEF Outcome, Saves, Writes, a, d
  <2>. QED
    BY <2>5, <2>7, StraightMore DEF PlainCode, c, t
<1>. QED
  BY <1>10, <1>11

\* The code of an AMO between the steps that save and restore the scratch register.
LEMMA SavedStep ==
    ASSUME SizeFacts, NEW s, State(s)
    PROVE  /\ Writes(s, Perform(s, RR("MOV", XLEN, "SWAP", "SP")), "SWAP", s.reg["SP"])
           /\ Writes(s, Perform(s, RR("MOV", XLEN, "SP", "SWAP")), "SP", s.reg["SWAP"])
<1>1. XLEN \in Widths /\ "SP" \in Hosts /\ "SWAP" \in Hosts
  BY HostNames DEF Widths
<1>2. Trunc(s.reg["SP"], XLEN) = s.reg["SP"] /\ Trunc(s.reg["SWAP"], XLEN) = s.reg["SWAP"]
  BY <1>1, Words
<1>3. Writes(s, Perform(s, RR("MOV", XLEN, "SWAP", "SP")), "SWAP", Trunc(s.reg["SP"], XLEN))
  BY <1>1, MoveStep
<1>4. Writes(s, Perform(s, RR("MOV", XLEN, "SP", "SWAP")), "SP", Trunc(s.reg["SWAP"], XLEN))
  BY <1>1, MoveStep
<1>. QED
  BY <1>2, <1>3, <1>4

\* The loaded value, in SP, is moved to d as the instruction's result.
DestMove(mn, d) == IF mn \in WOps THEN RR("MOVSX", HALF, d, "SP") ELSE RR("MOV", XLEN, d, "SP")

LEMMA ToDestStep ==
    ASSUME SizeFacts, NEW s, State(s), NEW mn, NEW d \in Hosts, NEW c \in Word,
           s.reg["SP"] = Trunc(c, Width(mn))
    PROVE  /\ ToDest(mn, d) = <<DestMove(mn, d)>> /\ DestMove(mn, d).op \in PlainOps
           /\ Writes(s, Perform(s, DestMove(mn, d)), d, W(SignedOf(c, Width(mn))))
<1>1. ToDest(mn, d) = <<DestMove(mn, d)>> /\ DestMove(mn, d).op \in PlainOps
  BY DEF ToDest, DestMove, RR, Ins, PlainOps, AluOps
<1>2. c \in Int /\ HALF \in Widths /\ XLEN \in Widths /\ "SP" \in Hosts
  BY SignedWhole, HostNames DEF Widths
<1>3. CASE mn \in WOps
  <2>1. Width(mn) = HALF /\ DestMove(mn, d) = RR("MOVSX", HALF, d, "SP")
    BY <1>3 DEF Width, DestMove
  <2>2. Writes(s, Perform(s, RR("MOVSX", HALF, d, "SP")), d, W(SignedOf(s.reg["SP"], HALF)))
    BY <1>2, MoveExtended
  <2>3. Trunc(Trunc(c, HALF), HALF) = Trunc(c, HALF)
    BY <1>2, TruncSame
  <2>4. SignedOf(Trunc(c, HALF), HALF) = SignedOf(c, HALF)
    BY <2>3, SignedSame
  <2>. QED
    BY <1>1, <2>1, <2>2, <2>4
<1>4. CASE mn \notin WOps
  <2>1. Width(mn) = XLEN /\ DestMove(mn, d) = RR("MOV", XLEN, d, "SP")
    BY <1>4 DEF Width, DestMove
  <2>2. Writes(s, Perform(s, RR("MOV", XLEN, d, "SP")), d, Trunc(s.reg["SP"], XLEN))
    BY <1>2, MoveStep
  <2>3. s.reg["SP"] = c /\ Trunc(c, XLEN) = c /\ W(SignedOf(c, XLEN)) = c
    BY <2>1, SignedWhole
  <2>. QED
    BY <1>1, <2>1, <2>2, <2>3
<1>. QED
  BY <1>3, <1>4

LEMMA FiveJoined ==
    ASSUME NEW a, NEW b, NEW c, NEW d, NEW e
    PROVE  <<a>> \o <<b, c, d, e>> = <<a, b, c, d, e>>
<1> DEFINE S == {a, b, c, d, e}
           x == <<a>>
           y == <<b, c, d, e>>
           z == <<a, b, c, d, e>>
<1>1. /\ x \in Seq(S) /\ Len(x) = 1 /\ x[1] = a
      /\ y \in Seq(S) /\ Len(y) = 4 /\ y[1] = b /\ y[2] = c /\ y[3] = d /\ y[4] = e
      /\ z \in Seq(S) /\ Len(z) = 5 /\ z[1] = a /\ z[2] = b /\ z[3] = c /\ z[4] = d /\ z[5] = e
  OBVIOUS
<1> HIDE DEF x, y, z, S
<1>2. /\ x \o y \in Seq(S) /\ Len(x \o y) = 5
      /\ \A i \in 1 .. 5 : (x \o y)[i] = IF i <= 1 THEN x[i] ELSE y[i - 1]
  <2>1. Len(x) + Len(y) = 5
    BY <1>1
  <2>2. /\ x \o y \in Seq(S) /\ Len(x \o y) = Len(x) + Len(y)
        /\ \A i \in 1 .. Len(x) + Len(y) : (x \o y)[i] = IF i <= Len(x) THEN x[i] ELSE y[i - Len(x)]
    BY <1>1, ConcatProperties, Zenon
  <2>. QED
    BY <1>1, <2>1, <2>2
<1>3. (x \o y)[1] = x[1] /\ (x \o y)[2] = y[1] /\ (x \o y)[3] = y[2] /\ (x \o y)[4] = y[3] /\ (x \o y)[5] = y[4]
  BY <1>2
<1>4. \A i \in 1 .. 5 : i = 1 \/ i = 2 \/ i = 3 \/ i = 4 \/ i = 5
  OBVIOUS
<1>5. \A i \in 1 .. 5 : (x \o y)[i] = z[i]
  BY <1>1, <1>3, <1>4
<1>6. x \o y = z
  BY <1>1, <1>2, <1>5, SeqEqual
<1>. QED
  BY <1>6 DEF x, y, z

LEMMA StraightFive ==
    ASSUME NEW a, NEW b, NEW c, NEW d, NEW e, {a.op, b.op, c.op, d.op, e.op} \subseteq PlainOps, NEW s
    PROVE  /\ Straight(<<a, b, c, d, e>>, 5)
           /\ Final(<<a, b, c, d, e>>, s) = Perform(Perform(Perform(Perform(Perform(s, a), b), c), d), e)
<1> DEFINE u == <<a, b, c, d, e>>
<1>1. u \in Seq({a, b, c, d, e}) /\ Len(u) = 5 /\ u[1] = a /\ u[2] = b /\ u[3] = c /\ u[4] = d /\ u[5] = e
  OBVIOUS
<1> HIDE DEF u
<1>2. IsCode(u)
  BY <1>1 DEF IsCode
<1>3. \A k \in 1 .. Len(u) : k = 1 \/ k = 2 \/ k = 3 \/ k = 4 \/ k = 5
  BY <1>1
<1>4. Straight(u, 5)
  BY <1>1, <1>2, <1>3 DEF Straight
<1>5. Final(u, s) = Perform(Perform(Perform(Perform(Perform(s, a), b), c), d), e)
  BY <1>1 DEF Final, After
<1>. QED
  BY <1>4, <1>5 DEF u

LEMMA AddressedKept ==
    ASSUME NEW s, NEW t, NEW b, NEW i, NEW a, NEW c, Addressed(s, b, i, a, c), NEW d, d # b, NEW v, Writes(s, t, d, v)
    PROVE  Addressed(t, b, i, a, c)
BY DEF Addressed, Writes, At

\* What the host's operation on memory leaves in its lowest bits.
LEMMA AluCombines ==
    ASSUME SizeFacts, NEW w \in Widths, NEW op \in {"MOV", "ADD", "XOR", "AND", "OR"}, NEW x \in Int, NEW y \in Int
    PROVE  Trunc(Alu(op, w, x, y), w) = Trunc(Combines(op, x, y, w), w)
<1>1. Trunc(Trunc(x + y, w), w) = Trunc(x + y, w)
  <2> DEFINE n == x + y
  <2>1. n \in Int
    OBVIOUS
  <2> HIDE DEF n
  <2>2. Trunc(Trunc(n, w), w) = Trunc(n, w)
    BY <2>1, TruncSame
  <2>. QED
    BY <2>2 DEF n
<1>2. /\ Alu("MOV", w, x, y) = y /\ Combines("MOV", x, y, w) = y
      /\ Alu("ADD", w, x, y) = Trunc(x + y, w) /\ Combines("ADD", x, y, w) = x + y
      /\ Alu("XOR", w, x, y) = Xor(x, y) /\ Combines("XOR", x, y, w) = Xor(x, y)
      /\ Alu("AND", w, x, y) = And(x, y) /\ Combines("AND", x, y, w) = And(x, y)
      /\ Alu("OR", w, x, y) = Or(x, y) /\ Combines("OR", x, y, w) = Or(x, y)
  BY DEF Alu, Combines
<1>. QED
  BY <1>1, <1>2

\* The steps after memory has been written: result to d, SP restored.
LEMMA AtomicEnd ==
    ASSUME SizeFacts, form \in Forms, Entered(form, start), form.mnem \in AmoOps \cup MinMaxOps,
           NEW c, Straight(c, 5),
           NEW s, s = Final(c, start), State(s), s.fault = start.fault,
           s.mem = OneWord(W(Operand1 + form.imm), NewCell),
           s.reg["SP"] = Trunc(Cell, Width(form.mnem)), s.reg["SWAP"] = start.reg["SP"],
           \A h \in Relied \ {"SP"} : s.reg[h] = start.reg[h],
           Emission(form) = c \o ToDest(form.mnem, regDest(form)) \o Restored
    PROVE  PlainCode
<1> DEFINE mn == form.mnem
           d == regDest(form)
           w == Width(mn)
           z == DestMove(mn, d)
           y == RR("MOV", XLEN, "SP", "SWAP")
           t == Perform(s, z)
           u == Perform(t, y)
<1>1. Accesses(form) /\ mn \notin LoadOps \cup StoreOps
  BY KindsDiffer DEF Accesses
<1>2. Cell \in Word /\ d \in Hosts \ Scratch /\ ~start.fault
  BY <1>1, EnteredMemory, Operands DEF Entered
<1>3. /\ ToDest(mn, d) = <<z>> /\ z.op \in PlainOps
      /\ Writes(s, t, d, W(SignedOf(Cell, w)))
  BY <1>2, ToDestStep
<1>4. Writes(t, u, "SP", t.reg["SWAP"])
  BY <1>3, SavedStep DEF Writes
<1>5. y.op \in PlainOps /\ Restored = <<y>>
  BY DEF RR, Ins, PlainOps, AluOps, Restored
<1>6. Result = W(SignedOf(Cell, w))
  BY <1>1 DEF Result
<1>7. "SP" \in Hosts /\ "SWAP" \in Hosts /\ d # "SP" /\ d # "SWAP"
  BY <1>2, HostNames DEF Scratch
<1> HIDE DEF d, z, y, t, u, w
<1>8. Straight(c \o <<z>>, 6) /\ Final(c \o <<z>>, start) = t
  <2>1. PICK n \in 0 .. 6 : n = 5
    OBVIOUS
  <2>2. n + 1 = 6
    BY <2>1
  <2>3. Straight(c \o <<z>>, n + 1) /\ Final(c \o <<z>>, start) = Perform(Final(c, start), z)
    BY <1>3, <2>1, StraightJoined
  <2>. QED
    BY <2>2, <2>3 DEF t
<1>9. Straight((c \o <<z>>) \o <<y>>, 7) /\ Final((c \o <<z>>) \o <<y>>, start) = u
  <2>1. PICK n \in 0 .. 6 : n = 6
    OBVIOUS
  <2>2. n + 1 = 7
    BY <2>1
  <2> DEFINE e == c \o <<z>>
  <2>3. Straight(e, n) /\ Final(e, start) = t
    BY <1>8, <2>1
  <2> HIDE DEF e
  <2>4. Straight(e \o <<y>>, n + 1) /\ Final(e \o <<y>>, start) = Perform(Final(e, start), y)
    BY <1>5, <2>3, StraightJoined
  <2>. QED
    BY <2>2, <2>3, <2>4 DEF u, e
<1>10. Emission(form) = (c \o <<z>>) \o <<y>>
  BY <1>3, <1>5 DEF d
<1>11. u.mem = s.mem /\ u.fault = s.fault /\ u.reg[d] = Result
  BY <1>2, <1>3, <1>4, <1>6, <1>7 DEF Writes
<1>12. ASSUME NEW h \in Relied
       PROVE  u.reg[h] = start.reg[h]
  <2>1. h \in Hosts /\ h # d /\ h # "SWAP"
    BY DEF Relied, d
  <2>2. CASE h = "SP"
    BY <1>3, <1>4, <1>7, <2>2 DEF Writes
  <2>3. CASE h # "SP"
    BY <1>3, <1>4, <1>7, <2>1, <2>3 DEF Writes
  <2>. QED
    BY <2>2, <2>3
<1>13. Outcome(u)
  BY <1>2, <1>11, <1>12 DEF Outcome, d
<1>. QED
  BY <1>9, <1>10, <1>13 DEF PlainCode

LEMMA AmoOutcome ==
    ASSUME SizeFacts, form \in Forms, Entered(form, start), form.mnem \in AmoOps
    PROVE  PlainCode
<1> DEFINE mn == form.mnem
           d == regDest(form)
           b == regSrc1(form)
           r == regSrc2(form)
           a == W(Operand1 + form.imm)
           w == Width(mn)
           op == AmoOp(mn)
           x == RR("MOV", XLEN, "SWAP", "SP")
           l == Ins("LOAD", w, "SP", b, 0)
           q == Ins("RMW", w, b, r, op)
           p1 == Perform(start, x)
           p2 == Perform(p1, l)
           p3 == Perform(p2, q)
           v == Merged(Cell, Alu(op, w, Trunc(Cell, w), Trunc(start.reg[r], w)), w)
<1>1. Accesses(form) /\ mn \notin LoadOps \cup StoreOps \cup MinMaxOps \cup ArithmeticOps \cup MulHighOps \cup DivOps
  BY KindsDiffer DEF Accesses
<1>2. form.imm = 0 /\ r \in Hosts \ Scratch /\ State(start) /\ w \in Widths /\ "SP" \in Hosts /\ "SWAP" \in Hosts
  BY Operands, FormsAssumption, HostNames DEF Entered, Width, Widths
<1>3. Addressed(start, b, 0, a, Cell) /\ b \in Hosts \ Scratch /\ Cell \in Word
  BY <1>1, <1>2, EnteredMemory
<1>4. Operand2 = start.reg[r]
  BY <1>1 DEF Operand2, ArithmeticOps
<1>5. v = NewCell
  <2> DEFINE xx == Trunc(Cell, w)
             yy == Trunc(Operand2, w)
  <2>1. op \in {"MOV", "ADD", "XOR", "AND", "OR"}
    BY DEF AmoOps, AmoOp
  <2>2. xx \in Int /\ yy \in Int
    <3>1. Cell \in Int /\ Operand2 \in Int
      BY <1>2, <1>3, <1>4, SignedWhole, Words
    <3>. QED
      BY <1>2, <3>1, TruncType
  <2> HIDE DEF op, w, xx, yy
  <2>3. Trunc(Alu(op, w, xx, yy), w) = Trunc(Combines(op, xx, yy, w), w)
    BY <1>2, <2>1, <2>2, AluCombines
  <2>4. NewCell = Cell - Trunc(Cell, w) + Trunc(Combines(op, xx, yy, w), w)
    BY <1>1 DEF NewCell, MemoryOp, op, w, xx, yy
  <2>. QED
    BY <1>4, <2>3, <2>4 DEF Merged, xx, yy
<1>6. x.op \in PlainOps /\ l.op \in PlainOps /\ q.op \in PlainOps
  BY DEF RR, Ins, PlainOps, AluOps
<1> HIDE DEF v, a, b, r, w, op
<1>7. Writes(start, p1, "SWAP", start.reg["SP"])
  BY <1>2, SavedStep
<1>8. Addressed(p1, b, 0, a, Cell)
  BY <1>3, <1>7, AddressedKept DEF Scratch
<1>9. Writes(p1, p2, "SP", Trunc(Cell, w))
  BY <1>2, <1>8, LoadStep
<1>10. Addressed(p2, b, 0, a, Cell) /\ p2.reg[r] = start.reg[r]
  BY <1>2, <1>3, <1>7, <1>8, <1>9, AddressedKept DEF Scratch, Writes
<1>11. Saves(p2, p3, a, v)
  BY <1>10, RmwStep DEF v
<1>12. Straight(<<x, l, q>>, 3) /\ Final(<<x, l, q>>, start) = p3
  BY <1>6, StraightThree
<1>13. Straight(<<x, l, q>>, 5)
  <2> DEFINE c == <<x, l, q>>
  <2>1. Straight(c, 3)
    BY <1>12
  <2> HIDE DEF c
  <2>2. Straight(c, 5)
    <3> DEFINE n == Len(c)
    <3>1. n \in 0 .. 3
      BY <2>1 DEF Straight
    <3> HIDE DEF n
    <3>2. n \in 0 .. 5
      BY <3>1
    <3>. QED
      BY <2>1, <3>2 DEF Straight, n
  <2>. QED
    BY <2>2 DEF c
<1>14. Emission(form) = <<x, l, q>> \o ToDest(mn, d) \o Restored
  <2>1. Emission(form) = Saved \o <<l, q>> \o ToDest(mn, d) \o Restored
    BY <1>1 DEF Emission, AmoCode, ArithmeticOps, w, op, b, r
  <2>2. Saved \o <<l, q>> = <<x, l, q>>
    <3> HIDE DEF l, q
    <3>. QED
      BY ThreeJoined DEF Saved
  <2>. QED
    BY <2>1, <2>2
<1> HIDE DEF x, l, q, p1, p2, p3
<1>15. /\ State(p3) /\ p3.fault = start.fault /\ p3.mem = OneWord(a, NewCell)
       /\ p3.reg["SP"] = Trunc(Cell, w) /\ p3.reg["SWAP"] = start.reg["SP"]
  BY <1>2, <1>5, <1>7, <1>9, <1>11 DEF Saves, Writes
<1>16. \A h \in Relied \ {"SP"} : p3.reg[h] = start.reg[h]
  BY <1>7, <1>9, <1>11 DEF Saves, Writes, Relied
<1>. QED
  BY <1>12, <1>13, <1>14, <1>15, <1>16, AtomicEnd DEF a, w

LEMMA MinMaxOutcome ==
    ASSUME SizeFacts, form \in Forms, Entered(form, start), form.mnem \in MinMaxOps
    PROVE  PlainCode
<1> DEFINE mn == form.mnem
           d == regDest(form)
           b == regSrc1(form)
           a == W(Operand1 + form.imm)
           w == Width(mn)
           cc == Keeps(mn)
           x == RR("MOV", XLEN, "SWAP", "SP")
           l == Ins("LOAD", w, "SP", b, 0)
           k == RR("CMP", w, "SP", "DX")
           v == Ins("CMOV", w, "DX", "SP", cc)
           q == Ins("STORE", w, b, "DX", 0)
           p1 == Perform(start, x)
           p2 == Perform(p1, l)
           p3 == Perform(p2, k)
           p4 == Perform(p3, v)
           p5 == Perform(p4, q)
           xx == Trunc(Cell, w)
           yy == Trunc(start.reg["DX"], w)
           kept == Trunc(IF Holds(cc, p3.flags) THEN xx ELSE start.reg["DX"], w)
<1>1. Accesses(form) /\ mn \notin LoadOps \cup StoreOps \cup AmoOps \cup ArithmeticOps \cup MulHighOps \cup DivOps
  BY KindsDiffer DEF Accesses
<1>2. form.imm = 0 /\ State(start) /\ w \in Widths /\ {"SP", "SWAP", "DX"} \subseteq Hosts
  BY FormsAssumption, HostNames DEF Entered, Width, Widths
<1>3. Addressed(start, b, 0, a, Cell) /\ b \in Hosts \ (Scratch \cup {"DX"}) /\ Cell \in Word
  BY <1>1, <1>2, EnteredMemory
<1>4. Operand2 = start.reg["DX"]
  BY <1>1 DEF Operand2, ArithmeticOps, regSrc2
<1>5. xx \in Int /\ yy \in Int /\ Trunc(xx, w) = xx /\ Trunc(yy, w) = yy
  <2>1. Cell \in Int /\ start.reg["DX"] \in Int
    BY <1>2, <1>3, SignedWhole, Words
  <2>. QED
    BY <1>2, <2>1, TruncType, TruncSame
<1>6. {x.op, l.op, k.op, v.op, q.op} \subseteq PlainOps
  BY DEF RR, Ins, PlainOps, AluOps
<1> HIDE DEF a, b, w, cc
<1>7. Writes(start, p1, "SWAP", start.reg["SP"])
  BY <1>2, SavedStep
<1>8. Addressed(p1, b, 0, a, Cell)
  BY <1>3, <1>7, AddressedKept DEF Scratch
<1>9. Writes(p1, p2, "SP", xx)
  BY <1>2, <1>8, LoadStep
<1>10. Addressed(p2, b, 0, a, Cell) /\ State(p2) /\ p2.reg["DX"] = start.reg["DX"] /\ p2.reg["SP"] = xx
  BY <1>2, <1>3, <1>7, <1>8, <1>9, AddressedKept DEF Scratch, Writes
<1>11. Compares(p2, p3, xx, yy, w)
  <2>1. 0 \in Int /\ "DX" \in Hosts \cup {NONE} /\ "DX" # NONE
    BY <1>2, HostNames
  <2>2. Compares(p2, Perform(p2, Ins("CMP", w, "SP", "DX", 0)), Trunc(p2.reg["SP"], w),
                 Trunc(IF "DX" = NONE THEN 0 ELSE p2.reg["DX"], w), w)
    BY <1>2, <1>10, <2>1, CompareStep
  <2>. QED
    BY <1>5, <1>10, <2>1, <2>2 DEF RR
<1>12. State(p3) /\ p3.reg = p2.reg /\ p3.mem = p2.mem /\ p3.fault = p2.fault
       /\ p3.flags.x = xx /\ p3.flags.y = yy /\ p3.flags.w = w
  BY <1>11 DEF Compares
<1>13. Writes(p3, p4, "DX", kept)
  <2>1. p3.reg["SP"] = xx /\ p3.reg["DX"] = start.reg["DX"]
    BY <1>10, <1>12
  <2> HIDE DEF p3
  <2>2. Writes(p3, Perform(p3, v), "DX", Trunc(IF Holds(cc, p3.flags) THEN p3.reg["SP"] ELSE p3.reg["DX"], w))
    BY <1>2, <1>12, MoveIfStep
  <2>. QED
    BY <2>1, <2>2
<1>14. Addressed(p4, b, 0, a, Cell) /\ p4.reg["DX"] = kept
  <2>1. Addressed(p3, b, 0, a, Cell)
    BY <1>10, <1>12 DEF Addressed, At
  <2>. QED
    BY <1>3, <1>13, <2>1, AddressedKept DEF Writes
<1>15. Saves(p4, p5, a, Merged(Cell, kept, w))
  <2>1. PICK i \in Int : i = 0
    OBVIOUS
  <2>2. Saves(p4, Perform(p4, Ins("STORE", w, b, "DX", i)), a, Merged(Cell, p4.reg["DX"], w))
    BY <1>14, <2>1, StoreStep
  <2>. QED
    BY <1>14, <2>1, <2>2
<1>16. Merged(Cell, kept, w) = NewCell
  <2> DEFINE both == Combines(cc, xx, yy, w)
  <2>1. kept = both
    <3>1. cc \in {"L", "G", "C", "A"}
      BY DEF Keeps, MinMaxOps, cc
    <3>2. /\ cc = "L" => Holds(cc, p3.flags) = (SignedOf(xx, w) < SignedOf(yy, w))
          /\ cc = "G" => Holds(cc, p3.flags) = (SignedOf(xx, w) > SignedOf(yy, w))
          /\ cc = "C" => Holds(cc, p3.flags) = (xx < yy)
          /\ cc = "A" => Holds(cc, p3.flags) = (xx > yy)
      BY <1>12 DEF Holds
    <3>3. kept = IF Holds(cc, p3.flags) THEN xx ELSE yy
      BY <1>5
    <3> HIDE DEF xx, yy, p3, kept
    <3>. QED
      BY <3>1, <3>2, <3>3 DEF Combines
  <2>2. both \in {xx, yy}
    BY <2>1, <1>5
  <2>3. Trunc(both, w) = both
    BY <1>5, <2>2
  <2>4. NewCell = Cell - Trunc(Cell, w) + Trunc(both, w)
    BY <1>1, <1>4 DEF NewCell, MemoryOp, cc, w
  <2> HIDE DEF both, kept
  <2>. QED
    BY <2>1, <2>3, <2>4 DEF Merged
<1>17. Straight(<<x, l, k, v, q>>, 5) /\ Final(<<x, l, k, v, q>>, start) = p5
  BY <1>6, StraightFive
<1>18. Emission(form) = <<x, l, k, v, q>> \o ToDest(mn, d) \o Restored
  <2>1. Emission(form) = Saved \o <<l, k, v, q>> \o ToDest(mn, d) \o Restored
    BY <1>1 DEF Emission, MinMaxCode, ArithmeticOps, w, cc, b
  <2>2. Saved \o <<l, k, v, q>> = <<x, l, k, v, q>>
    <3> HIDE DEF l, k, v, q
    <3>. QED
      BY FiveJoined DEF Saved
  <2>. QED
    BY <2>1, <2>2
<1> HIDE DEF x, l, k, v, q, p1, p2, p3, p4, p5, kept, xx, yy
<1>19. /\ State(p5) /\ p5.fault = start.fault /\ p5.mem = OneWord(a, NewCell)
       /\ p5.reg["SP"] = Trunc(Cell, w) /\ p5.reg["SWAP"] = start.reg["SP"]
  BY <1>2, <1>7, <1>9, <1>12, <1>13, <1>15, <1>16 DEF Saves, Writes, xx
<1>20. \A h \in Relied \ {"SP"} : p5.reg[h] = start.reg[h]
  <2>1. \A h \in Relied : h \in Hosts /\ h # "DX" /\ h # "SWAP"
    BY <1>1 DEF Relied, GivenUp
  <2>. QED
    BY <2>1, <1>7, <1>9, <1>12, <1>13, <1>15 DEF Saves, Writes
<1>. QED
  BY <1>17, <1>18, <1>19, <1>20, AtomicEnd DEF a, w

-----------------------------------------------------------------------------
(* The upper half of a product. *)

\* From s to t, AX gets x and DX gets y.
WritesPair(s, t, x, y) ==
    /\ State(t) /\ t.mem = s.mem /\ t.fault = s.fault /\ t.reg["AX"] = x /\ t.reg["DX"] = y
    /\ \A h \in Hosts \ {"AX", "DX"} : t.reg[h] = s.reg[h]

LEMMA SetPair ==
    ASSUME NEW s, State(s), NEW x \in Word, NEW y \in Word
    PROVE  WritesPair(s, Set(Set(s, "AX", x), "DX", y), x, y)
<1> DEFINE t == Set(s, "AX", x)
           u == Set(t, "DX", y)
<1>1. "AX" \in Hosts /\ "DX" \in Hosts
  BY HostNames
<1>2. Writes(s, t, "AX", x)
  BY <1>1, SetWrites
<1>3. Writes(t, u, "DX", y)
  BY <1>1, <1>2, SetWrites DEF Writes
<1> HIDE DEF t, u
<1>4. WritesPair(s, u, x, y)
  BY <1>1, <1>2, <1>3 DEF Writes, WritesPair
<1>. QED
  BY <1>4 DEF t, u

Product(s, mn) == IF mn = "MULHU" THEN s.reg["AX"] * s.reg["CX"]
                  ELSE Signed(s.reg["AX"]) * Signed(s.reg["CX"])

LEMMA HighType ==
    ASSUME SizeFacts, NEW s, State(s), NEW mn
    PROVE  /\ Product(s, mn) \in Int /\ Product(s, mn) \div 2^XLEN \in Int
           /\ W(Product(s, mn)) \in Word /\ W(Product(s, mn) \div 2^XLEN) \in Word
<1> DEFINE p == Product(s, mn)
           x == 2^XLEN
           a == s.reg["AX"]
           c == s.reg["CX"]
<1>1. XLEN \in Widths /\ x \in Nat \ {0}
  BY Sizes DEF Widths
<1>2. a \in Int /\ c \in Int
  BY HostNames, Words
<1>3. Signed(a) \in Int /\ Signed(c) \in Int
  BY <1>1, <1>2, SignedType DEF Signed
<1>4. p \in Int
  BY <1>2, <1>3 DEF Product
<1> HIDE DEF p, x
<1>5. p \div x \in Int
  BY <1>1, <1>4, DivMod
<1>. QED
  BY <1>4, <1>5, WordOf DEF p, x

LEMMA MultiplyStep ==
    ASSUME SizeFacts, NEW s, State(s), NEW mn, NEW op, op = IF mn = "MULHU" THEN "MUL1" ELSE "IMUL1"
    PROVE  WritesPair(s, Perform(s, R1(op, XLEN, "CX")), W(Product(s, mn)), W(Product(s, mn) \div 2^XLEN))
<1>1. ASSUME NEW e, e = R1(op, XLEN, "CX")
      PROVE  e.op = op /\ e.d = "CX" /\ e.op \in {"IMUL1", "MUL1"}
  BY <1>1 DEF R1, Ins
<1>2. ASSUME NEW e, e = R1(op, XLEN, "CX")
      PROVE  Perform(s, e) = Set(Set(s, "AX", W(Product(s, mn))), "DX", W(Product(s, mn) \div 2^XLEN))
  <2>1. Perform(s, e) = Multiply(s, e)
    BY <1>1, <1>2, Performs
  <2>2. (IF e.op = "IMUL1" THEN Signed(s.reg["AX"]) * Signed(s.reg[e.d]) ELSE s.reg["AX"] * s.reg[e.d]) = Product(s, mn)
    BY <1>1, <1>2 DEF Product
  <2>. QED
    BY <2>1, <2>2 DEF Multiply
<1>3. Perform(s, R1(op, XLEN, "CX")) = Set(Set(s, "AX", W(Product(s, mn))), "DX", W(Product(s, mn) \div 2^XLEN))
  BY <1>2
<1>. QED
  BY <1>3, HighType, SetPair

\* What a signed product lacks when a negative factor was meant to be unsigned.
LEMMA UnsignedFactor ==
    ASSUME SizeFacts, NEW a \in Word, NEW b \in Word
    PROVE  LET sa == SignedOf(a, XLEN)
               sb == SignedOf(b, XLEN)
           IN  W((sa * b) \div 2^XLEN) = IF sb >= 0 THEN W((sa * sb) \div 2^XLEN)
                                         ELSE W(W((sa * sb) \div 2^XLEN) + a)
<1> DEFINE x == 2^XLEN
           sa == SignedOf(a, XLEN)
           sb == SignedOf(b, XLEN)
<1>1. XLEN \in Widths /\ x \in Nat \ {0}
  BY Sizes DEF Widths
<1>2. a \in Int /\ b \in Int /\ Trunc(a, XLEN) = a /\ Trunc(b, XLEN) = b
  BY SignedWhole
<1>3. /\ sa \in Int /\ sb \in Int /\ Trunc(sa, XLEN) = Trunc(a, XLEN)
      /\ (sb = b \/ sb = b - x) /\ (sb >= 0 <=> sb = b)
  BY <1>1, <1>2, SignedType
<1> HIDE DEF x, sa, sb
<1>4. CASE sb >= 0
  BY <1>3, <1>4 DEF sa, sb, x
<1>5. CASE ~(sb >= 0)
  <2>1. sb = b - x
    BY <1>3, <1>5
  <2> DEFINE n == sa * b
             k == sa * sb
  <2>2. n = k + (x * sa) /\ n \in Int /\ k \in Int
    BY <1>1, <1>2, <1>3, <2>1
  <2> HIDE DEF n, k
  <2>3. n \div x = (k \div x) + sa /\ k \div x \in Int
    <3>1. x \in Nat \ {0} /\ n \in Int /\ k \in Int /\ sa \in Int /\ n = k + (x * sa)
      BY <1>1, <1>3, <2>2
    <3>2. n \div x = (k \div x) + sa
      BY <3>1, Congruent
    <3>3. k \div x \in Int
      BY <3>1, DivMod
    <3>. QED
      BY <3>2, <3>3
  <2> DEFINE r == k \div x
  <2> HIDE DEF r
  <2>4. r \in Int /\ n \div x = r + sa
    BY <2>3 DEF r
  <2>5. Trunc(W(r), XLEN) = Trunc(r, XLEN) /\ W(r) \in Int
    BY <1>1, <2>4, TruncSame, WordOf
  <2>6. Trunc(r + sa, XLEN) = Trunc(W(r) + a, XLEN)
    <3> DEFINE y == W(r)
    <3>1. /\ XLEN \in Widths /\ r \in Int /\ sa \in Int /\ y \in Int /\ a \in Int
          /\ Trunc(r, XLEN) = Trunc(y, XLEN) /\ Trunc(sa, XLEN) = Trunc(a, XLEN)
      BY <1>1, <1>2, <1>3, <2>4, <2>5
    <3> HIDE DEF y
    <3>2. Trunc(r + sa, XLEN) = Trunc(y + a, XLEN)
      BY <3>1, TruncAlu
    <3>. QED
      BY <3>2 DEF y
  <2>7. W(n \div x) = W(W(r) + a)
    <3>1. r + sa \in Int /\ W(r) + a \in Int
      BY <1>2, <1>3, <2>4, <2>5
    <3>. QED
      BY <2>4, <2>6, <3>1, WordOf
  <2>8. W((sa * b) \div x) = W(W((sa * sb) \div x) + a)
    BY <2>7 DEF r, n, k
  <2>. QED
    BY <1>5, <2>8 DEF sa, sb, x
<1>. QED
  BY <1>4, <1>5

\* The instructions that have rs1 in AX and rs2 in CX, and what they leave alone.
MulDivOps == MulHighOps \cup DivOps
Untouched(s) == /\ State(s) /\ s.mem = start.mem /\ ~s.fault
                /\ \A h \in Hosts \ {"AX", "DX"} : s.reg[h] = start.reg[h]

LEMMA MulDivPlaces ==
    ASSUME form \in Forms, form.mnem \in MulDivOps
    PROVE  /\ regDest(form) \in Hosts \ (Scratch \cup {"DX"}) /\ {"AX", "CX", "DX"} \subseteq Hosts
           /\ Operand1 = start.reg["AX"] /\ Operand2 = start.reg["CX"]
           /\ ~Accesses(form)
           /\ Relied \subseteq Hosts \ {"AX", "DX", regDest(form)}
<1> DEFINE mn == form.mnem
           d == regDest(form)
<1>1. /\ mn \notin ImmOps \cup RegOps \cup ShiftOps \cup LoadOps \cup StoreOps \cup AmoOps \cup MinMaxOps
      /\ mn \in MulHighOps \cup DivOps
  BY KindsDiffer DEF ArithmeticOps, MulDivOps
<1>2. d \in Hosts \ Scratch /\ {"AX", "CX", "DX"} \subseteq Hosts
  BY Operands, HostNames
<1>3. d # "DX"
  <2>1. d = Place(form, form.rd)
    BY <1>1 DEF regDest
  <2>2. form.rd \in gp_mapped => gp_map[form.rd] # "DX"
    BY HostNames
  <2>3. form.rd \notin gp_mapped => Place(form, form.rd) \in {"AX", "CX"}
    BY <1>1 DEF Place
  <2>. QED
    BY <2>1, <2>2, <2>3 DEF Place
<1>4. Operand1 = start.reg["AX"] /\ Operand2 = start.reg["CX"]
  BY <1>1 DEF Operand1, Operand2, regSrc1, regSrc2
<1>5. ~Accesses(form)
  BY <1>1 DEF Accesses
<1>6. Relied \subseteq Hosts \ {"AX", "DX", d}
  BY <1>1 DEF Relied, GivenUp
<1>. QED
  BY <1>2, <1>3, <1>4, <1>5, <1>6

LEMMA MulDivOutcome ==
    ASSUME form \in Forms, form.mnem \in MulDivOps, NEW s, Untouched(s)
    PROVE  /\ \A t : Writes(s, t, regDest(form), Result) => Outcome(t)
           /\ s.reg[regDest(form)] = Result => Outcome(s)
<1> DEFINE d == regDest(form)
<1>1. ~Accesses(form) /\ Relied \subseteq Hosts \ {"AX", "DX", d}
  BY MulDivPlaces
<1> HIDE DEF d
<1>2. ASSUME NEW t, Writes(s, t, d, Result)
      PROVE  Outcome(t)
  BY <1>1, <1>2 DEF Outcome, Writes, Untouched, d
<1>3. ASSUME s.reg[d] = Result
      PROVE  Outcome(s)
  BY <1>1, <1>3 DEF Outcome, Untouched, d
<1>. QED
  BY <1>2, <1>3 DEF d

LEMMA WholeSigned ==
    ASSUME SizeFacts, NEW x \in Int
    PROVE  W(SignedOf(x, XLEN)) = W(x)
<1> DEFINE y == SignedOf(x, XLEN)
<1>1. XLEN \in Widths
  BY DEF Widths
<1>2. y \in Int /\ Trunc(y, XLEN) = Trunc(x, XLEN)
  BY <1>1, SignedType
<1> HIDE DEF y
<1>3. W(y) = W(x)
  BY <1>2, WordOf
<1>. QED
  BY <1>3 DEF y

LEMMA HighResult ==
    ASSUME SizeFacts, form \in Forms, form.mnem \in MulHighOps, State(start)
    PROVE  LET mn == form.mnem
               high == W(Product(start, mn) \div 2^XLEN)
           IN  /\ mn # "MULHSU" => Result = high
               /\ mn = "MULHSU" /\ Signed(start.reg["CX"]) >= 0 => Result = high
               /\ mn = "MULHSU" /\ ~(Signed(start.reg["CX"]) >= 0) => Result = W(high + start.reg["AX"])
<1> DEFINE mn == form.mnem
           a == start.reg["AX"]
           b == start.reg["CX"]
           sa == SignedOf(a, XLEN)
           sb == SignedOf(b, XLEN)
           x == Computes(mn, a, b, XLEN)
           p == Product(start, mn)
<1>1. mn \notin LoadOps \cup StoreOps \cup AmoOps \cup MinMaxOps \cup WOps /\ mn \in MulDivOps
  BY KindsDiffer DEF MulDivOps
<1>2. Operand1 = a /\ Operand2 = b /\ {"AX", "CX"} \subseteq Hosts
  BY <1>1, MulDivPlaces
<1>3. a \in Word /\ b \in Word /\ Trunc(a, XLEN) = a /\ Trunc(b, XLEN) = b
  BY <1>2, Words
<1>4. Plain(mn) = mn /\ Width(mn) = XLEN
  BY <1>1 DEF Plain, Width, MulHighOps
<1>5. Result = W(SignedOf(x, XLEN))
  BY <1>1, <1>2, <1>3, <1>4 DEF Result
<1>6. /\ mn = "MULH" => x = (sa * sb) \div 2^XLEN
      /\ mn = "MULHU" => x = (a * b) \div 2^XLEN
      /\ mn = "MULHSU" => x = (sa * b) \div 2^XLEN
  BY DEF Computes
<1>7. p = IF mn = "MULHU" THEN a * b ELSE sa * sb
  BY DEF Product, Signed
<1>8. p \div 2^XLEN \in Int
  BY HighType
<1>9. CASE mn # "MULHSU"
  <2>1. mn = "MULH" \/ mn = "MULHU"
    BY <1>9 DEF MulHighOps
  <2>2. x = p \div 2^XLEN
    BY <1>6, <1>7, <2>1
  <2> HIDE DEF x, p
  <2>3. x \in Int
    BY <1>8, <2>2
  <2>4. Result = W(p \div 2^XLEN)
    BY <1>5, <2>2, <2>3, WholeSigned
  <2>. QED
    BY <1>9, <2>4 DEF p
<1>10. CASE mn = "MULHSU"
  <2>1. x = (sa * b) \div 2^XLEN /\ p = sa * sb
    BY <1>6, <1>7, <1>10
  <2>2. x \in Int
    <3>1. XLEN \in Widths /\ a \in Int /\ b \in Int
      BY <1>2, Words DEF Widths
    <3>2. sa \in Int /\ 2^XLEN \in Nat \ {0}
      BY <3>1, SignedType, Sizes
    <3> DEFINE n == sa * b
    <3>3. n \in Int
      BY <3>1, <3>2
    <3> HIDE DEF n, x
    <3>4. n \div 2^XLEN \in Int
      BY <3>2, <3>3, DivMod
    <3>. QED
      BY <2>1, <3>4 DEF n
  <2>3. Result = W(x)
    BY <1>5, <2>2, WholeSigned
  <2>4. W((sa * b) \div 2^XLEN) = IF sb >= 0 THEN W((sa * sb) \div 2^XLEN)
                                  ELSE W(W((sa * sb) \div 2^XLEN) + a)
    BY <1>3, UnsignedFactor
  <2> HIDE DEF x, p
  <2>5. Result = IF sb >= 0 THEN W(p \div 2^XLEN) ELSE W(W(p \div 2^XLEN) + a)
    BY <2>1, <2>3, <2>4
  <2>. QED
    BY <1>10, <2>5 DEF p, Signed
<1>. QED
  BY <1>9, <1>10

LEMMA HighMove ==
    ASSUME SizeFacts, form \in Forms, form.mnem \in MulHighOps, NEW s, Untouched(s), s.reg["DX"] = Result
    PROVE  Outcome(Perform(s, RR("MOV", XLEN, regDest(form), "DX")))
<1>1. form.mnem \in MulDivOps /\ XLEN \in Widths /\ State(s)
  BY DEF MulDivOps, Widths, Untouched
<1>2. regDest(form) \in Hosts /\ "DX" \in Hosts
  BY <1>1, MulDivPlaces
<1>3. Trunc(s.reg["DX"], XLEN) = s.reg["DX"]
  BY <1>1, <1>2, Words
<1>4. Writes(s, Perform(s, RR("MOV", XLEN, regDest(form), "DX")), regDest(form), Result)
  BY <1>1, <1>2, <1>3, MoveStep
<1>. QED
  BY <1>1, <1>4, MulDivOutcome

LEMMA MulHighOutcome ==
    ASSUME SizeFacts, form \in Forms, Entered(form, start), form.mnem \in MulHighOps, form.mnem # "MULHSU"
    PROVE  PlainCode
<1> DEFINE mn == form.mnem
           d == regDest(form)
           op == IF mn = "MULHU" THEN "MUL1" ELSE "IMUL1"
           e == R1(op, XLEN, "CX")
           f == RR("MOV", XLEN, d, "DX")
           s == Perform(start, e)
           c == Emission(form)
<1>1. /\ mn \in MulDivOps /\ State(start) /\ ~start.fault
      /\ mn \notin ArithmeticOps \cup DivOps \cup LoadOps \cup StoreOps \cup AmoOps \cup MinMaxOps
  BY KindsDiffer DEF MulDivOps, Entered
<1>2. d \in Hosts \ (Scratch \cup {"DX"})
  BY <1>1, MulDivPlaces
<1>3. e.op \in PlainOps /\ f.op \in PlainOps
  BY DEF R1, RR, Ins, PlainOps, AluOps
<1>4. c = <<e, f>>
  <2> DEFINE rs1 == IF form.rs1 \in gp_mapped THEN gp_map[form.rs1] ELSE "FILE"
  <2>1. c = MulHighCode(mn, d, rs1)
    BY <1>1 DEF Emission, ArithmeticOps
  <2>2. MoveIfOther(XLEN, d, "DX") = <<f>>
    BY <1>2 DEF MoveIfOther
  <2> HIDE DEF e, f, d, rs1
  <2>3. c = <<e>> \o <<>> \o <<f>>
    BY <2>1, <2>2 DEF MulHighCode, e
  <2>4. <<e>> \o <<>> = <<e>>
    <3> DEFINE z == <<e>>
    <3>1. z \in Seq({e})
      OBVIOUS
    <3> HIDE DEF z
    <3>2. z \o <<>> = z
      BY <3>1, ConcatEmptySeq
    <3>. QED
      BY <3>2 DEF z
  <2>5. <<e>> \o <<f>> = <<e, f>>
    BY TwoJoined
  <2>. QED
    BY <2>3, <2>4, <2>5
<1>5. WritesPair(start, s, W(Product(start, mn)), W(Product(start, mn) \div 2^XLEN))
  <2> HIDE DEF op
  <2>1. op = IF mn = "MULHU" THEN "MUL1" ELSE "IMUL1"
    BY DEF op
  <2>. QED
    BY <1>1, <2>1, MultiplyStep
<1>6. Result = W(Product(start, mn) \div 2^XLEN)
  BY <1>1, HighResult
<1> HIDE DEF e, f, s, c
<1>7. Straight(c, 2) /\ Final(c, start) = Perform(s, f)
  BY <1>3, <1>4, StraightTwo DEF s
<1>8. Untouched(s) /\ s.reg["DX"] = Result
  BY <1>1, <1>5, <1>6 DEF WritesPair, Untouched
<1>9. Outcome(Perform(s, f))
  BY <1>8, HighMove DEF f
<1>. QED
  BY <1>7, <1>9, StraightMore DEF PlainCode, c

LEMMA OneThreeOne ==
    ASSUME NEW a, NEW b, NEW c, NEW d, NEW e, NEW z, z = <<a>> \o <<b, c, d>> \o <<e>>
    PROVE  Len(z) = 5 /\ z[1] = a /\ z[2] = b /\ z[3] = c /\ z[4] = d /\ z[5] = e
<1> DEFINE S == {a, b, c, d, e}
           x == <<a>>
           y == <<b, c, d>>
           v == <<e>>
<1>1. /\ x \in Seq(S) /\ Len(x) = 1 /\ x[1] = a
      /\ y \in Seq(S) /\ Len(y) = 3 /\ y[1] = b /\ y[2] = c /\ y[3] = d
      /\ v \in Seq(S) /\ Len(v) = 1 /\ v[1] = e
  OBVIOUS
<1>2. z = x \o y \o v
  OBVIOUS
<1> HIDE DEF x, y, v, S
<1>3. /\ x \o y \in Seq(S) /\ Len(x \o y) = 4
      /\ \A i \in 1 .. 4 : (x \o y)[i] = IF i <= 1 THEN x[i] ELSE y[i - 1]
  <2>1. Len(x) + Len(y) = 4
    BY <1>1
  <2>2. /\ x \o y \in Seq(S) /\ Len(x \o y) = Len(x) + Len(y)
        /\ \A i \in 1 .. Len(x) + Len(y) : (x \o y)[i] = IF i <= Len(x) THEN x[i] ELSE y[i - Len(x)]
    BY <1>1, ConcatProperties, Zenon
  <2>. QED
    BY <1>1, <2>1, <2>2
<1>4. (x \o y)[1] = x[1] /\ (x \o y)[2] = y[1] /\ (x \o y)[3] = y[2] /\ (x \o y)[4] = y[3]
  BY <1>3
<1> DEFINE u == x \o y
<1>5. u \in Seq(S) /\ Len(u) = 4 /\ u[1] = a /\ u[2] = b /\ u[3] = c /\ u[4] = d
  BY <1>1, <1>3, <1>4
<1> HIDE DEF u
<1>6. /\ Len(u \o v) = Len(u) + Len(v)
      /\ \A i \in 1 .. Len(u) + Len(v) : (u \o v)[i] = IF i <= Len(u) THEN u[i] ELSE v[i - Len(u)]
  BY <1>1, <1>5, ConcatProperties, Zenon
<1>7. z = u \o v
  BY <1>2 DEF u
<1>. QED
  BY <1>1, <1>5, <1>6, <1>7

\* Where rs1 is still found when AX has been overwritten, and the code of MULHSU.
StillThere(f) == IF f.rs1 \in gp_mapped THEN gp_map[f.rs1] ELSE "FILE"

LEMMA UnsignedCode ==
    ASSUME form \in Forms, form.mnem = "MULHSU", NEW c, c = Emission(form)
    PROVE  /\ Len(c) = 5 /\ c[1] = R1("IMUL1", XLEN, "CX") /\ c[2] = R1("TEST", XLEN, "CX")
           /\ c[3] = Jump("NS", 1) /\ c[4] = RR("ADD", XLEN, "DX", StillThere(form))
           /\ c[5] = RR("MOV", XLEN, regDest(form), "DX")
<1> DEFINE mn == form.mnem
           d == regDest(form)
           r == StillThere(form)
           e1 == R1("IMUL1", XLEN, "CX")
           e2 == R1("TEST", XLEN, "CX")
           e3 == Jump("NS", 1)
           e4 == RR("ADD", XLEN, "DX", r)
           e5 == RR("MOV", XLEN, d, "DX")
<1>1. /\ mn \in MulHighOps /\ mn \in MulDivOps
      /\ mn \notin ArithmeticOps \cup DivOps \cup LoadOps \cup StoreOps \cup AmoOps \cup MinMaxOps
  BY KindsDiffer DEF MulDivOps, MulHighOps
<1>2. d # "DX"
  BY <1>1, MulDivPlaces
<1>3. c = MulHighCode(mn, d, r)
  BY <1>1 DEF Emission, ArithmeticOps, StillThere
<1>4. MulHighCode(mn, d, r) = <<R1(IF mn = "MULHU" THEN "MUL1" ELSE "IMUL1", XLEN, "CX")>>
          \o (IF mn # "MULHSU" THEN <<>> ELSE <<e2, e3, e4>>) \o MoveIfOther(XLEN, d, "DX")
  BY DEF MulHighCode
<1>5. MoveIfOther(XLEN, d, "DX") = <<e5>>
  BY <1>2 DEF MoveIfOther
<1>6. R1(IF mn = "MULHU" THEN "MUL1" ELSE "IMUL1", XLEN, "CX") = e1
  OBVIOUS
<1> HIDE DEF e1, e2, e3, e4, e5, d, r
<1>7. c = <<e1>> \o <<e2, e3, e4>> \o <<e5>>
  BY <1>3, <1>4, <1>5, <1>6
<1>8. Len(c) = 5 /\ c[1] = e1 /\ c[2] = e2 /\ c[3] = e3 /\ c[4] = e4 /\ c[5] = e5
  BY <1>7, OneThreeOne
<1>. QED
  BY <1>8 DEF e1, e2, e3, e4, e5, d, r

\* What holds before instruction k of the code of MULHSU.
HighPath(k, s) ==
    LET p == Product(start, "MULHSU")
    IN  /\ ~s.fault
        /\ k = 1 => s = start
        /\ k \in {2, 3, 4} => WritesPair(start, s, W(p), W(p \div 2^XLEN))
        /\ k \in {3, 4} => s.flags = [x |-> start.reg["CX"], y |-> 0, w |-> XLEN]
        /\ k = 4 => ~(Signed(start.reg["CX"]) >= 0)
        /\ k = 5 => Untouched(s) /\ s.reg["DX"] = Result
        /\ k = 6 => Outcome(s)

\* From instruction k and state s, the code goes on to instruction n and state t.
Steps(c, k, s, n, t) ==
    \/ c[k].op \notin JumpOps /\ n = k + 1 /\ t = Perform(s, c[k])
    \/ /\ c[k].op \in JumpOps /\ t = s
       /\ n = IF Holds(c[k].op, s.flags) THEN k + 1 + c[k].i ELSE k + 1

LEMMA HighPathStep ==
    ASSUME SizeFacts, form \in Forms, Entered(form, start), form.mnem = "MULHSU",
           NEW c, c = Emission(form), NEW k \in 1 .. 5, NEW s, HighPath(k, s), NEW n, NEW t, Steps(c, k, s, n, t)
    PROVE  HighPath(n, t) /\ n \in 1 .. 6
<1> DEFINE p == Product(start, "MULHSU")
           lo == W(p)
           hi == W(p \div 2^XLEN)
           a == start.reg["AX"]
           b == start.reg["CX"]
           r == StillThere(form)
           d == regDest(form)
<1>1. /\ form.mnem \in MulHighOps /\ form.mnem \in MulDivOps /\ State(start) /\ ~start.fault
      /\ start.reg[r] = a /\ XLEN \in Widths /\ 0 \in Int
  BY DEF MulHighOps, MulDivOps, Entered, StillThere, Widths
<1>2. /\ {"AX", "CX", "DX"} \subseteq Hosts /\ r \in Hosts \ {"AX", "DX", "CX"} /\ d \in Hosts
  BY <1>1, MulDivPlaces, HostNames DEF StillThere
<1>3. a \in Int /\ b \in Int /\ Trunc(a, XLEN) = a /\ Trunc(b, XLEN) = b /\ hi \in Word
  BY <1>1, <1>2, Words, HighType
<1>4. /\ c[1] = R1("IMUL1", XLEN, "CX") /\ c[2] = R1("TEST", XLEN, "CX")
      /\ c[3] = Jump("NS", 1) /\ c[4] = RR("ADD", XLEN, "DX", r) /\ c[5] = RR("MOV", XLEN, d, "DX")
  BY UnsignedCode
<1>5. /\ c[1].op \notin JumpOps /\ c[2].op \notin JumpOps /\ c[3].op = "NS" /\ c[3].i = 1 /\ c[3].op \in JumpOps
      /\ c[4].op \notin JumpOps /\ c[5].op \notin JumpOps
  BY <1>4 DEF R1, RR, Jump, Ins, JumpOps
<1>6. HighPath(k, s) /\ Steps(c, k, s, n, t)
  OBVIOUS
<1> HIDE DEF p, lo, hi, a, b, r, d
<1>7. CASE k = 1
  <2>1. s = start /\ n = 2 /\ t = Perform(start, R1("IMUL1", XLEN, "CX"))
    BY <1>4, <1>5, <1>6, <1>7 DEF HighPath, Steps
  <2>2. WritesPair(start, Perform(start, R1("IMUL1", XLEN, "CX")), W(p), W(p \div 2^XLEN))
    BY <1>1, MultiplyStep DEF p
  <2>3. ~t.fault
    BY <1>1, <2>1, <2>2 DEF WritesPair
  <2>. QED
    BY <2>1, <2>2, <2>3 DEF HighPath, p
<1>8. CASE k = 2
  <2>1. n = 3 /\ t = Perform(s, R1("TEST", XLEN, "CX")) /\ WritesPair(start, s, lo, hi)
    BY <1>4, <1>5, <1>6, <1>8 DEF HighPath, Steps, lo, hi, p
  <2>2. State(s) /\ s.reg["CX"] = b
    BY <1>2, <2>1 DEF WritesPair, b
  <2>3. Compares(s, Perform(s, R1("TEST", XLEN, "CX")), Trunc(s.reg["CX"], XLEN), 0, XLEN)
    BY <1>1, <1>2, <2>2, CompareStep
  <2>4. Compares(s, t, b, 0, XLEN)
    BY <1>3, <2>1, <2>2, <2>3
  <2>5. WritesPair(start, t, lo, hi)
    BY <2>1, <2>4 DEF WritesPair, Compares
  <2>6. ~t.fault /\ t.flags = [x |-> b, y |-> 0, w |-> XLEN]
    BY <1>6, <2>4 DEF HighPath, Compares
  <2>. QED
    BY <2>1, <2>5, <2>6 DEF HighPath, lo, hi, p, b
<1>9. CASE k = 3
  <2>1. t = s /\ n = (IF Holds("NS", s.flags) THEN 5 ELSE 4) /\ ~s.fault
    BY <1>5, <1>6, <1>9 DEF Steps, HighPath
  <2>2. WritesPair(start, s, lo, hi) /\ s.flags = [x |-> b, y |-> 0, w |-> XLEN]
    BY <1>6, <1>9 DEF HighPath, lo, hi, p, b
  <2>3. Holds("NS", s.flags) <=> Signed(b) >= 0
    <3>1. s.flags.x = b /\ s.flags.w = XLEN
      BY <2>2
    <3>. QED
      BY <3>1 DEF Holds, Signed
  <2>4. CASE Signed(b) >= 0
    <3>1. Result = hi
      BY <1>1, <2>4, HighResult DEF hi, p, b
    <3>2. Untouched(t) /\ t.reg["DX"] = Result
      BY <2>1, <2>2, <3>1 DEF WritesPair, Untouched
    <3>. QED
      BY <2>1, <2>3, <2>4, <3>2 DEF HighPath
  <2>5. CASE ~(Signed(b) >= 0)
    <3>1. n = 4
      BY <2>1, <2>3, <2>5
    <3>. QED
      BY <2>1, <2>2, <2>5, <3>1 DEF HighPath, lo, hi, p, b
  <2>. QED
    BY <2>4, <2>5
<1>10. CASE k = 4
  <2>1. /\ n = 5 /\ t = Perform(s, RR("ADD", XLEN, "DX", r)) /\ WritesPair(start, s, lo, hi)
        /\ ~(Signed(b) >= 0) /\ ~s.fault
    BY <1>4, <1>5, <1>6, <1>10 DEF HighPath, Steps, lo, hi, p, b
  <2>2. State(s) /\ s.reg["DX"] = hi /\ s.reg[r] = a
    BY <1>1, <1>2, <2>1 DEF WritesPair
  <2>3. hi \in Int /\ Trunc(hi, XLEN) = hi
    BY <1>1, <1>2, <2>2, Words
  <2>4. "ADD" \in AluOps /\ r \in Hosts \cup {NONE} /\ r # NONE
    BY <1>2, HostNames DEF AluOps
  <2>5. Writes(s, Perform(s, Ins("ADD", XLEN, "DX", r, 0)), "DX",
               Alu("ADD", XLEN, Trunc(s.reg["DX"], XLEN), Trunc(IF r = NONE THEN 0 ELSE s.reg[r], XLEN)))
    BY <1>1, <1>2, <2>2, <2>4, AluStep
  <2>6. Writes(s, t, "DX", Alu("ADD", XLEN, hi, a))
    BY <1>3, <2>1, <2>2, <2>3, <2>4, <2>5 DEF RR
  <2>7. Alu("ADD", XLEN, hi, a) = W(hi + a)
    BY DEF Alu, Trunc, W
  <2>8. Result = W(hi + a)
    BY <1>1, <2>1, HighResult DEF hi, p, a, b
  <2>9. Untouched(t) /\ t.reg["DX"] = Result
    BY <2>1, <2>6, <2>7, <2>8 DEF Writes, WritesPair, Untouched
  <2>. QED
    BY <2>1, <2>9 DEF HighPath, Untouched
<1>11. CASE k = 5
  <2>1. n = 6 /\ t = Perform(s, RR("MOV", XLEN, d, "DX")) /\ Untouched(s) /\ s.reg["DX"] = Result
    BY <1>4, <1>5, <1>6, <1>11 DEF HighPath, Steps
  <2>2. Outcome(t)
    BY <1>1, <2>1, HighMove DEF d
  <2>. QED
    BY <2>1, <2>2 DEF HighPath, Outcome
<1>. QED
  BY <1>7, <1>8, <1>9, <1>10, <1>11

-----------------------------------------------------------------------------
(* Divisions. *)

LEMMA NatQuotient ==
    ASSUME NEW a \in Nat, NEW b \in Nat \ {0}
    PROVE  a \div b \in 0 .. a /\ (b # 1 => 2 * (a \div b) <= a) /\ (b = 1 => a \div b = a)
<1> DEFINE q == a \div b
           r == a % b
<1>1. a = (b * q) + r /\ q \in Int /\ r \in 0 .. b - 1
  BY DivMod
<1> HIDE DEF q, r
<1>2. q >= 0
  <2>1. CASE q < 0
    <3>1. PICK c \in Nat : q = 0 - (c + 1)
      <4>1. 0 - (q + 1) \in Nat /\ q = 0 - ((0 - (q + 1)) + 1)
        BY <1>1, <2>1
      <4>. QED
        BY <4>1
    <3>2. b * q = 0 - ((b * c) + b) /\ b * c \in Nat
      BY <3>1
    <3>3. FALSE
      BY <1>1, <3>2
    <3>. QED
      BY <3>3
  <2>. QED
    BY <1>1, <2>1
<1>3. CASE b = 1
  BY <1>1, <1>2, <1>3 DEF q
<1>4. CASE b # 1
  <2>1. PICK c \in Nat : b = c + 2
    <3>1. b - 2 \in Nat /\ b = (b - 2) + 2
      BY <1>4
    <3>. QED
      BY <3>1
  <2>2. b * q = (c * q) + (2 * q) /\ c * q \in Nat
    BY <1>1, <1>2, <2>1
  <2>3. 2 * q <= a
    BY <1>1, <1>2, <2>2
  <2>. QED
    BY <1>1, <1>2, <1>4, <2>3 DEF q
<1>. QED
  BY <1>3, <1>4

LEMMA QuotientUnsigned ==
    ASSUME NEW a \in Nat, NEW b \in Nat \ {0}
    PROVE  Quotient(a, b) = a \div b /\ Remainder(a, b) = a % b /\ a \div b \in 0 .. a
<1>1. Quotient(a, b) = a \div b
  BY DEF Quotient, Abs
<1> DEFINE q == a \div b
<1>2. a = (b * q) + (a % b) /\ q \in Int /\ a % b \in Int
  BY DivMod
<1>3. Remainder(a, b) = a - b * q
  BY <1>1 DEF Remainder
<1> HIDE DEF q
<1>4. Remainder(a, b) = a % b
  BY <1>2, <1>3
<1>. QED
  BY <1>1, <1>4, NatQuotient

LEMMA QuotientSigned ==
    ASSUME NEW h \in Nat \ {0}, NEW n \in -h .. h - 1, NEW y \in -h .. h - 1, y # 0
    PROVE  /\ Quotient(n, y) \in Int /\ Remainder(n, y) \in Int
           /\ Quotient(n, y) \in -h .. h - 1 <=> ~(n = -h /\ y = -1)
<1> DEFINE a == Abs(n)
           b == Abs(y)
           q == a \div b
           z == Quotient(n, y)
<1>1. a \in Nat /\ b \in Nat \ {0} /\ a <= h /\ (a = n \/ a = 0 - n) /\ (b = 1 <=> y = 1 \/ y = -1)
  BY DEF Abs
<1>2. z = IF (n < 0) = (y < 0) THEN q ELSE 0 - q
  BY DEF Quotient
<1>3. a = h <=> n = -h
  BY DEF Abs
<1> HIDE DEF a, b
<1>4. q \in 0 .. a /\ (b # 1 => 2 * q <= a) /\ (b = 1 => q = a)
  BY <1>1, NatQuotient
<1> HIDE DEF q, z
<1>5. z \in Int
  BY <1>1, <1>2, <1>4
<1>6. Remainder(n, y) \in Int
  BY <1>5 DEF Remainder, z
<1>7. z \in -h .. h - 1 <=> ~(n = -h /\ y = -1)
  <2>1. CASE n = -h /\ y = -1
    BY <1>1, <1>2, <1>3, <1>4, <2>1
  <2>2. CASE ~(n = -h /\ y = -1)
    <3>1. CASE a # h
      BY <1>1, <1>2, <1>4, <3>1, <2>2
    <3>2. CASE a = h
      <4>1. n = -h /\ y # -1
        BY <1>3, <2>2, <3>2
      <4>2. CASE b # 1
        BY <1>1, <1>2, <1>4, <2>2, <3>2, <4>2
      <4>3. CASE b = 1
        <5>1. y = 1 /\ n < 0 /\ ~(y < 0)
          BY <1>1, <4>1, <4>3
        <5>2. z = 0 - q /\ q = h
          BY <1>2, <1>4, <3>2, <4>3, <5>1
        <5>. QED
          BY <2>2, <5>2
      <4>. QED
        BY <4>2, <4>3
    <3>. QED
      BY <3>1, <3>2
  <2>. QED
    BY <2>1, <2>2
<1>. QED
  BY <1>5, <1>6, <1>7 DEF z

LEMMA SignedCases ==
    ASSUME SizeFacts, NEW w \in Widths, NEW a \in 0 .. 2^w - 1
    PROVE  SignedOf(a, w) = IF a < 2^(w - 1) THEN a ELSE a - 2^w
<1>1. a % 2^w = a
  BY Sizes, ModSmall
<1>. QED
  BY <1>1 DEF SignedOf

\* How IDIV or DIV takes an operand of w bits.
Taken(op, x, w) == IF op = "IDIV" THEN SignedOf(x, w) ELSE x

LEMMA Dividend ==
    ASSUME SizeFacts, NEW w \in Widths, NEW op \in {"IDIV", "DIV"}, NEW a \in 0 .. 2^w - 1, NEW hi,
           hi = IF op = "IDIV" /\ SignedOf(a, w) < 0 THEN 2^w - 1 ELSE 0
    PROVE  Taken(op, hi, w) * 2^w + a = Taken(op, a, w)
<1> DEFINE p == 2^w
           h == 2^(w - 1)
<1>1. p \in Nat \ {0} /\ h \in Nat \ {0} /\ p = 2 * h
  BY Sizes
<1>2. SignedOf(a, w) = IF a < h THEN a ELSE a - p
  BY SignedCases
<1>3. 0 \in 0 .. p - 1 /\ p - 1 \in 0 .. p - 1
  BY <1>1
<1>4. SignedOf(0, w) = (IF 0 < h THEN 0 ELSE 0 - p) /\ SignedOf(p - 1, w) = (IF p - 1 < h THEN p - 1 ELSE (p - 1) - p)
  BY <1>3, SignedCases
<1> HIDE DEF p, h
<1>5. SignedOf(0, w) = 0 /\ SignedOf(p - 1, w) = -1
  BY <1>1, <1>4
<1>6. CASE op = "IDIV" /\ SignedOf(a, w) < 0
  <2>1. hi = p - 1 /\ Taken(op, hi, w) = -1 /\ Taken(op, a, w) = a - p
    BY <1>1, <1>2, <1>5, <1>6 DEF Taken, p
  <2>. QED
    BY <1>1, <2>1 DEF p
<1>7. CASE ~(op = "IDIV" /\ SignedOf(a, w) < 0)
  <2>1. hi = 0 /\ Taken(op, hi, w) = 0
    BY <1>5, <1>7 DEF Taken
  <2>2. Taken(op, a, w) = a
    BY <1>1, <1>2, <1>7 DEF Taken, p
  <2>. QED
    BY <1>1, <2>1, <2>2 DEF p
<1>. QED
  BY <1>6, <1>7

\* An IDIV or DIV faults for the quotient that does not fit, and for no other.
LEMMA Fits ==
    ASSUME SizeFacts, NEW w \in Widths, NEW op \in {"IDIV", "DIV"},
           NEW a \in 0 .. 2^w - 1, NEW b \in 0 .. 2^w - 1, b # 0,
           NEW n, n = Taken(op, a, w), NEW y, y = Taken(op, b, w)
    PROVE  /\ Quotient(n, y) \in Int /\ Remainder(n, y) \in Int /\ y # 0
           /\ Quotient(n, y) \in (IF op = "IDIV" THEN -(2^(w - 1)) .. 2^(w - 1) - 1 ELSE 0 .. 2^w - 1)
                 <=> ~(op = "IDIV" /\ a = 2^(w - 1) /\ b = 2^w - 1)
<1> DEFINE p == 2^w
           h == 2^(w - 1)
<1>1. p \in Nat \ {0} /\ h \in Nat \ {0} /\ p = 2 * h
  BY Sizes
<1>2. CASE op = "IDIV"
  <2>1. n = (IF a < h THEN a ELSE a - p) /\ y = (IF b < h THEN b ELSE b - p)
    BY <1>2, SignedCases DEF Taken
  <2> HIDE DEF p, h
  <2>2. n \in -h .. h - 1 /\ y \in -h .. h - 1 /\ y # 0 /\ (n = -h <=> a = h) /\ (y = -1 <=> b = p - 1)
    BY <1>1, <2>1 DEF p
  <2>3. Quotient(n, y) \in Int /\ Remainder(n, y) \in Int /\ (Quotient(n, y) \in -h .. h - 1 <=> ~(n = -h /\ y = -1))
    BY <1>1, <2>2, QuotientSigned
  <2>. QED
    BY <1>2, <2>2, <2>3 DEF p, h
<1>3. CASE op = "DIV"
  <2>1. n = a /\ y = b /\ a \in Nat /\ b \in Nat \ {0}
    BY <1>1, <1>3 DEF Taken
  <2>2. Quotient(n, y) = a \div b /\ Remainder(n, y) = a % b /\ a \div b \in 0 .. a
    BY <2>1, QuotientUnsigned
  <2>3. a % b \in Int
    BY <2>1, DivMod
  <2> DEFINE q == Quotient(n, y)
  <2>4. q \in 0 .. a
    BY <2>2
  <2> HIDE DEF q, p
  <2>5. q \in 0 .. p - 1 /\ q \in Int
    BY <1>1, <2>4 DEF p
  <2>. QED
    BY <1>3, <2>1, <2>2, <2>3, <2>5 DEF q, p
<1>. QED
  BY <1>2, <1>3

LEMMA DivideStep ==
    ASSUME SizeFacts, NEW s, State(s), NEW w \in Widths, NEW op \in {"IDIV", "DIV"},
           NEW a, a = Trunc(s.reg["AX"], w), NEW b, b = Trunc(s.reg["CX"], w), b # 0,
           Trunc(s.reg["DX"], w) = IF op = "IDIV" /\ SignedOf(a, w) < 0 THEN 2^w - 1 ELSE 0,
           NEW n, n = Taken(op, a, w), NEW y, y = Taken(op, b, w),
           NEW t, t = Perform(s, R1(op, w, "CX"))
    PROVE  IF op = "IDIV" /\ a = 2^(w - 1) /\ b = 2^w - 1 THEN t.fault
           ELSE WritesPair(s, t, Trunc(Quotient(n, y), w), Trunc(Remainder(n, y), w))
<1>1. {"AX", "CX", "DX"} \subseteq Hosts
  BY HostNames
<1>2. a \in 0 .. 2^w - 1 /\ b \in 0 .. 2^w - 1
  BY <1>1, Words, TruncType
<1> DEFINE hi == Trunc(s.reg["DX"], w)
           z == Quotient(n, y)
           r == Remainder(n, y)
           fits == IF op = "IDIV" THEN -(2^(w - 1)) .. 2^(w - 1) - 1 ELSE 0 .. 2^w - 1
<1>3. Taken(op, hi, w) * 2^w + a = n
  <2> HIDE DEF hi
  <2>1. hi = IF op = "IDIV" /\ SignedOf(a, w) < 0 THEN 2^w - 1 ELSE 0
    BY DEF hi
  <2>. QED
    BY <1>2, <2>1, Dividend
<1>4. z \in Int /\ r \in Int /\ (z \in fits <=> ~(op = "IDIV" /\ a = 2^(w - 1) /\ b = 2^w - 1))
  <2>1. a \in 0 .. 2^w - 1 /\ b \in 0 .. 2^w - 1 /\ b # 0 /\ n = Taken(op, a, w) /\ y = Taken(op, b, w)
    BY <1>2
  <2>2. /\ Quotient(n, y) \in Int /\ Remainder(n, y) \in Int
        /\ Quotient(n, y) \in (IF op = "IDIV" THEN -(2^(w - 1)) .. 2^(w - 1) - 1 ELSE 0 .. 2^w - 1)
              <=> ~(op = "IDIV" /\ a = 2^(w - 1) /\ b = 2^w - 1)
    BY <2>1, Fits
  <2>. QED
    BY <2>2
<1>5. t = IF z \notin fits THEN Fault(s) ELSE Set(Set(s, "AX", Trunc(z, w)), "DX", Trunc(r, w))
  <2>1. ASSUME NEW e, e = R1(op, w, "CX")
        PROVE  e.op = op /\ e.w = w /\ e.d = "CX" /\ Perform(s, e) = Divide(s, e)
    <3>1. e.op = op /\ e.w = w /\ e.d = "CX"
      BY <2>1 DEF R1, Ins
    <3>2. e.op \in {"IDIV", "DIV"}
      BY <3>1
    <3>. QED
      BY <3>1, <3>2, Performs
  <2>2. PICK e : e = R1(op, w, "CX")
    OBVIOUS
  <2>3. t = Divide(s, e) /\ e.op = op /\ e.w = w /\ e.d = "CX"
    BY <2>1, <2>2
  <2>4. Divide(s, e) =
          LET d == Trunc(s.reg["CX"], w)
              up == Trunc(s.reg["DX"], w)
              lo == Trunc(s.reg["AX"], w)
              sg == op = "IDIV"
              nn == (IF sg THEN SignedOf(up, w) ELSE up) * 2^w + lo
              yy == IF sg THEN SignedOf(d, w) ELSE d
              fit == IF sg THEN -(2^(w - 1)) .. 2^(w - 1) - 1 ELSE 0 .. 2^w - 1
          IN  IF d = 0 THEN Fault(s)
              ELSE IF Quotient(nn, yy) \notin fit THEN Fault(s)
              ELSE Set(Set(s, "AX", Trunc(Quotient(nn, yy), w)), "DX", Trunc(Remainder(nn, yy), w))
    BY <2>3 DEF Divide
  <2>5. /\ (IF op = "IDIV" THEN SignedOf(Trunc(s.reg["DX"], w), w) ELSE Trunc(s.reg["DX"], w)) * 2^w + a = n
        /\ (IF op = "IDIV" THEN SignedOf(b, w) ELSE b) = y
    BY <1>3 DEF Taken
  <2>. QED
    BY <2>3, <2>4, <2>5
<1> HIDE DEF z, r, fits
<1>6. Trunc(z, w) \in Word /\ Trunc(r, w) \in Word
  BY <1>4, TruncType
<1>7. Fault(s).fault
  BY DEF Fault, State
<1>8. WritesPair(s, Set(Set(s, "AX", Trunc(z, w)), "DX", Trunc(r, w)), Trunc(z, w), Trunc(r, w))
  BY <1>6, SetPair
<1>. QED
  BY <1>4, <1>5, <1>7, <1>8 DEF z, r

LEMMA TwoTwoThree ==
    ASSUME NEW a, NEW b, NEW c, NEW d, NEW e, NEW f, NEW g, NEW z, z = <<a, b>> \o <<c, d>> \o <<e, f, g>>
    PROVE  IsCode(z) /\ Len(z) = 7 /\ z[1] = a /\ z[2] = b /\ z[3] = c /\ z[4] = d /\ z[5] = e /\ z[6] = f /\ z[7] = g
<1> DEFINE S == {a, b, c, d, e, f, g}
           x == <<a, b>>
           y == <<c, d>>
           u == <<e, f, g>>
<1>1. /\ x \in Seq(S) /\ Len(x) = 2 /\ x[1] = a /\ x[2] = b
      /\ y \in Seq(S) /\ Len(y) = 2 /\ y[1] = c /\ y[2] = d
      /\ u \in Seq(S) /\ Len(u) = 3 /\ u[1] = e /\ u[2] = f /\ u[3] = g
  OBVIOUS
<1>2. z = x \o y \o u
  OBVIOUS
<1> HIDE DEF x, y, u, S
<1>3. /\ x \o y \in Seq(S) /\ Len(x \o y) = 4
      /\ \A i \in 1 .. 4 : (x \o y)[i] = IF i <= 2 THEN x[i] ELSE y[i - 2]
  <2>1. Len(x) + Len(y) = 4
    BY <1>1
  <2>2. /\ x \o y \in Seq(S) /\ Len(x \o y) = Len(x) + Len(y)
        /\ \A i \in 1 .. Len(x) + Len(y) : (x \o y)[i] = IF i <= Len(x) THEN x[i] ELSE y[i - Len(x)]
    BY <1>1, ConcatProperties, Zenon
  <2>. QED
    BY <1>1, <2>1, <2>2
<1>4. (x \o y)[1] = x[1] /\ (x \o y)[2] = x[2] /\ (x \o y)[3] = y[1] /\ (x \o y)[4] = y[2]
  BY <1>3
<1> DEFINE k == x \o y
<1>5. k \in Seq(S) /\ Len(k) = 4 /\ k[1] = a /\ k[2] = b /\ k[3] = c /\ k[4] = d
  BY <1>1, <1>3, <1>4
<1>6. z = k \o u
  BY <1>2
<1> HIDE DEF k
<1>7. /\ k \o u \in Seq(S) /\ Len(k \o u) = Len(k) + Len(u)
      /\ \A i \in 1 .. Len(k) + Len(u) : (k \o u)[i] = IF i <= Len(k) THEN k[i] ELSE u[i - Len(k)]
  BY <1>1, <1>5, ConcatProperties, Zenon
<1>8. IsCode(z)
  BY <1>6, <1>7 DEF IsCode
<1>. QED
  BY <1>1, <1>5, <1>6, <1>7, <1>8

LEMMA SixAndMore ==
    ASSUME NEW a, NEW b, NEW c, NEW d, NEW e, NEW f, NEW g, NEW p, NEW q, NEW z,
           z = <<a, b>> \o <<c, d>> \o <<e, f>> \o (IF p = q THEN <<>> ELSE <<g>>)
    PROVE  /\ z[1] = a /\ z[2] = b /\ z[3] = c /\ z[4] = d /\ z[5] = e /\ z[6] = f
           /\ p = q => Len(z) = 6
           /\ p # q => Len(z) = 7 /\ z[7] = g
<1> DEFINE S == {a, b, c, d, e, f, g}
           x == <<a, b>>
           y == <<c, d>>
           u == <<e, f>>
           v == IF p = q THEN <<>> ELSE <<g>>
<1>1. /\ x \in Seq(S) /\ Len(x) = 2 /\ x[1] = a /\ x[2] = b
      /\ y \in Seq(S) /\ Len(y) = 2 /\ y[1] = c /\ y[2] = d
      /\ u \in Seq(S) /\ Len(u) = 2 /\ u[1] = e /\ u[2] = f
  OBVIOUS
<1>2. v \in Seq(S) /\ (p = q => Len(v) = 0) /\ (p # q => Len(v) = 1 /\ v[1] = g)
  OBVIOUS
<1>3. z = x \o y \o u \o v
  OBVIOUS
<1> HIDE DEF x, y, u, v, S
<1>4. /\ x \o y \in Seq(S) /\ Len(x \o y) = 4
      /\ \A i \in 1 .. 4 : (x \o y)[i] = IF i <= 2 THEN x[i] ELSE y[i - 2]
  <2>1. Len(x) + Len(y) = 4
    BY <1>1
  <2>2. /\ x \o y \in Seq(S) /\ Len(x \o y) = Len(x) + Len(y)
        /\ \A i \in 1 .. Len(x) + Len(y) : (x \o y)[i] = IF i <= Len(x) THEN x[i] ELSE y[i - Len(x)]
    BY <1>1, ConcatProperties, Zenon
  <2>. QED
    BY <1>1, <2>1, <2>2
<1>5. (x \o y)[1] = x[1] /\ (x \o y)[2] = x[2] /\ (x \o y)[3] = y[1] /\ (x \o y)[4] = y[2]
  BY <1>4
<1> DEFINE k == x \o y
<1>6. k \in Seq(S) /\ Len(k) = 4 /\ k[1] = a /\ k[2] = b /\ k[3] = c /\ k[4] = d
  BY <1>1, <1>4, <1>5
<1>7. z = k \o u \o v
  BY <1>3
<1> HIDE DEF k
<1>8. /\ k \o u \in Seq(S) /\ Len(k \o u) = Len(k) + Len(u)
      /\ \A i \in 1 .. Len(k) + Len(u) : (k \o u)[i] = IF i <= Len(k) THEN k[i] ELSE u[i - Len(k)]
  BY <1>1, <1>6, ConcatProperties, Zenon
<1> DEFINE o == k \o u
<1>9. /\ o \in Seq(S) /\ Len(o) = 6
      /\ o[1] = a /\ o[2] = b /\ o[3] = c /\ o[4] = d /\ o[5] = e /\ o[6] = f
  BY <1>1, <1>6, <1>8
<1>10. z = o \o v
  BY <1>7
<1> HIDE DEF o
<1>11. /\ Len(o \o v) = Len(o) + Len(v)
       /\ \A i \in 1 .. Len(o) + Len(v) : (o \o v)[i] = IF i <= Len(o) THEN o[i] ELSE v[i - Len(o)]
  BY <1>2, <1>9, ConcatProperties, Zenon
<1>12. CASE p = q
  BY <1>2, <1>9, <1>10, <1>11, <1>12
<1>13. CASE p # q
  BY <1>2, <1>9, <1>10, <1>11, <1>13
<1>. QED
  BY <1>12, <1>13

Extend(mn, w) == IF IsSigned(mn) THEN R1("SEP", w, "DX") ELSE RR("XOR", HALF, "DX", "DX")
DivOp(mn) == IF IsSigned(mn) THEN "IDIV" ELSE "DIV"
Holder(mn) == IF IsQuotient(mn) THEN "AX" ELSE "DX"
ByZero64(mn) == IF IsQuotient(mn) THEN RI("MOV", XLEN, "AX", -1) ELSE RR("MOV", XLEN, "DX", "AX")
ByZero32(mn, d) == IF IsQuotient(mn) THEN RI("MOV", XLEN, d, -1) ELSE RR("MOVSX", HALF, d, "AX")

\* The code of a division: l instructions.
DivShape(mn, c, l) ==
    LET w == Width(mn)
        d == regDest(form)
        v == Holder(mn)
    IN  /\ c[1] = R1("TEST", w, "CX") /\ c[2] = Jump("Z", IF mn \in WOps THEN 4 ELSE 3)
        /\ c[3] = Extend(mn, w) /\ c[4] = R1(DivOp(mn), w, "CX")
        /\ mn \in WOps => /\ l = 7 /\ c[5] = RR("MOVSX", HALF, d, v)
                          /\ c[6] = Jump("ALWAYS", 1) /\ c[7] = ByZero32(mn, d)
        /\ mn \notin WOps => /\ c[5] = Jump("ALWAYS", 1) /\ c[6] = ByZero64(mn)
                             /\ d = v => l = 6
                             /\ d # v => l = 7 /\ c[7] = RR("MOV", XLEN, d, v)

LEMMA DivCode ==
    ASSUME form \in Forms, form.mnem \in DivOps, NEW c, c = Emission(form), NEW mn, mn = form.mnem
    PROVE  DivShape(mn, c, Len(c))
<1> DEFINE d == regDest(form)
           w == Width(mn)
<1>1. mn \notin ArithmeticOps \cup MulHighOps \cup LoadOps \cup StoreOps \cup AmoOps \cup MinMaxOps
  BY KindsDiffer
<1>2. c = IF mn \in WOps THEN Div32(mn, d) ELSE Div64(mn, d)
  BY <1>1 DEF Emission, ArithmeticOps
<1> DEFINE x == Extend(mn, w)
           v == R1(DivOp(mn), w, "CX")
           k == Jump("ALWAYS", 1)
<1>3. DivideBy(mn, w) = <<x, v>>
  BY DEF DivideBy, Extend, DivOp
<1>4. CASE mn \in WOps
  <2> DEFINE t == R1("TEST", HALF, "CX")
             j == Jump("Z", 4)
             g == RR("MOVSX", HALF, d, Holder(mn))
             z == ByZero32(mn, d)
  <2>1. w = HALF
    BY <1>4 DEF Width
  <2>2. c = <<t, j>> \o DivideBy(mn, HALF) \o <<g, k, z>>
    BY <1>2, <1>4 DEF Div32, Holder, ByZero32
  <2>3. c = <<t, j>> \o <<x, v>> \o <<g, k, z>>
    BY <1>3, <2>1, <2>2
  <2> HIDE DEF t, j, g, z, x, v, k
  <2>4. Len(c) = 7 /\ c[1] = t /\ c[2] = j /\ c[3] = x /\ c[4] = v /\ c[5] = g /\ c[6] = k /\ c[7] = z
    BY <2>3, TwoTwoThree
  <2>. QED
    BY <1>4, <2>1, <2>4 DEF t, j, g, z, x, v, k, DivShape
<1>5. CASE mn \notin WOps
  <2> DEFINE t == R1("TEST", XLEN, "CX")
             j == Jump("Z", 3)
             g == RR("MOV", XLEN, d, Holder(mn))
             z == ByZero64(mn)
  <2>1. w = XLEN
    BY <1>5 DEF Width
  <2>2. c = <<t, j>> \o DivideBy(mn, XLEN) \o <<k, z>> \o MoveIfOther(XLEN, d, Holder(mn))
    BY <1>2, <1>5 DEF Div64, Holder, ByZero64
  <2>3. c = <<t, j>> \o <<x, v>> \o <<k, z>> \o (IF d = Holder(mn) THEN <<>> ELSE <<g>>)
    BY <1>3, <2>1, <2>2 DEF MoveIfOther
  <2> HIDE DEF t, j, g, z, x, v, k
  <2>4. /\ c[1] = t /\ c[2] = j /\ c[3] = x /\ c[4] = v /\ c[5] = k /\ c[6] = z
        /\ d = Holder(mn) => Len(c) = 6
        /\ d # Holder(mn) => Len(c) = 7 /\ c[7] = g
    BY <2>3, SixAndMore, SMTT(30)
  <2>. QED
    BY <1>5, <2>1, <2>4 DEF t, j, g, z, x, v, k, DivShape
<1>. QED
  BY <1>4, <1>5

\* The smallest number, a, divided by -1.
Extreme(mn, a, b, w) == IsSigned(mn) /\ a = 2^(w - 1) /\ b = 2^w - 1

\* What a division leaves in rd.
LEMMA DivResult ==
    ASSUME SizeFacts, form \in Forms, form.mnem \in DivOps, State(start), NEW mn, mn = form.mnem,
           NEW w, w = Width(mn), NEW a, a = Trunc(start.reg["AX"], w), NEW b, b = Trunc(start.reg["CX"], w)
    PROVE  /\ a \in 0 .. 2^w - 1 /\ b \in 0 .. 2^w - 1 /\ w \in Widths
           /\ b # 0 => LET n == Taken(DivOp(mn), a, w)
                           y == Taken(DivOp(mn), b, w)
                       IN  Result = W(SignedOf(IF IsQuotient(mn) THEN Quotient(n, y) ELSE Remainder(n, y), w))
           /\ b = 0 => Result = IF IsQuotient(mn) THEN W(-1) ELSE W(SignedOf(a, w))
           /\ Overflows <=> Extreme(mn, a, b, w)
<1>1. mn \notin LoadOps \cup StoreOps \cup AmoOps \cup MinMaxOps /\ mn \in MulDivOps
  BY KindsDiffer DEF MulDivOps
<1>2. Operand1 = start.reg["AX"] /\ Operand2 = start.reg["CX"] /\ {"AX", "CX"} \subseteq Hosts
  BY <1>1, MulDivPlaces
<1>3. w \in Widths
  BY DEF Width, Widths
<1>4. a \in 0 .. 2^w - 1 /\ b \in 0 .. 2^w - 1 /\ Trunc(a, w) = a /\ Trunc(b, w) = b
  <2>1. start.reg["AX"] \in Int /\ start.reg["CX"] \in Int
    BY <1>2, Words
  <2>. QED
    BY <1>3, <2>1, TruncType, TruncSame
<1> DEFINE n == Taken(DivOp(mn), a, w)
           y == Taken(DivOp(mn), b, w)
           x == Computes(Plain(mn), a, b, w)
           sa == SignedOf(a, w)
           sb == SignedOf(b, w)
<1>5. Result = W(SignedOf(x, w))
  BY <1>1, <1>2 DEF Result
<1>6. 2^w \in Nat \ {0} /\ 2^(w - 1) \in Nat \ {0} /\ 2^w = 2 * 2^(w - 1)
  BY <1>3, Sizes
<1>7. sb = 0 <=> b = 0
  <2>1. sb = IF b < 2^(w - 1) THEN b ELSE b - 2^w
    BY <1>3, <1>4, SignedCases
  <2> HIDE DEF sb
  <2>. QED
    BY <1>4, <1>6, <2>1
<1>8. IF IsSigned(mn) THEN n = sa /\ y = sb ELSE n = a /\ y = b
  BY DEF Taken, DivOp
<1>9. /\ Plain(mn) = IF IsQuotient(mn) THEN (IF IsSigned(mn) THEN "DIV" ELSE "DIVU")
                     ELSE IF IsSigned(mn) THEN "REM" ELSE "REMU"
  BY DEF Plain, IsQuotient, IsSigned, DivOps
<1>10. x = CASE Plain(mn) = "DIV" -> IF sb = 0 THEN -1 ELSE Quotient(sa, sb)
             [] Plain(mn) = "DIVU" -> IF b = 0 THEN -1 ELSE a \div b
             [] Plain(mn) = "REM" -> IF sb = 0 THEN sa ELSE Remainder(sa, sb)
             [] Plain(mn) = "REMU" -> IF b = 0 THEN a ELSE a % b
  <2>1. /\ Computes("DIV", a, b, w) = (IF sb = 0 THEN -1 ELSE Quotient(sa, sb))
        /\ Computes("DIVU", a, b, w) = (IF b = 0 THEN -1 ELSE a \div b)
        /\ Computes("REM", a, b, w) = (IF sb = 0 THEN sa ELSE Remainder(sa, sb))
        /\ Computes("REMU", a, b, w) = (IF b = 0 THEN a ELSE a % b)
    BY DEF Computes
  <2> HIDE DEF sa, sb
  <2>. QED
    BY <1>9, <2>1
<1>11. ASSUME b # 0
       PROVE  x = IF IsQuotient(mn) THEN Quotient(n, y) ELSE Remainder(n, y)
  <2>1. Quotient(a, b) = a \div b /\ Remainder(a, b) = a % b
    <3>1. a \in Nat /\ b \in Nat \ {0}
      BY <1>4, <1>6, <1>11
    <3>. QED
      BY <3>1, QuotientUnsigned
  <2> HIDE DEF x, sa, sb
  <2>. QED
    BY <1>7, <1>8, <1>9, <1>10, <1>11, <2>1
<1>12. ASSUME b = 0
       PROVE  W(SignedOf(x, w)) = IF IsQuotient(mn) THEN W(-1) ELSE W(SignedOf(a, w))
  <2>1. CASE IsQuotient(mn)
    <3>1. x = -1
      BY <1>7, <1>9, <1>10, <1>12, <2>1
    <3>2. PICK i \in Int : i = -1
      OBVIOUS
    <3>3. i \in -(2^(w - 1)) .. 2^(w - 1) - 1
      BY <1>6, <3>2
    <3>4. SignedOf(i, w) = i
      BY <1>3, <3>3, SignedType
    <3> HIDE DEF x
    <3>. QED
      BY <2>1, <3>1, <3>2, <3>4
  <2>2. CASE ~IsQuotient(mn)
    <3>1. x = a \/ x = sa
      BY <1>7, <1>9, <1>10, <1>12, <2>2
    <3>2. Trunc(sa, w) = Trunc(a, w)
      BY <1>3, <1>4, SignedType
    <3> HIDE DEF x, sa
    <3>3. SignedOf(sa, w) = SignedOf(a, w)
      BY <3>2, SignedSame
    <3>. QED
      BY <2>2, <3>1, <3>3
  <2>. QED
    BY <2>1, <2>2
<1>13. Overflows <=> Extreme(mn, a, b, w)
  BY <1>2 DEF Overflows, Extreme
<1> HIDE DEF x
<1>. QED
  BY <1>3, <1>4, <1>5, <1>11, <1>12, <1>13

\* Nothing has been written yet.
Same(s) == State(s) /\ s.mem = start.mem /\ ~s.fault /\ s.reg = start.reg

LEMMA ExtendStep ==
    ASSUME SizeFacts, NEW s, State(s), NEW mn, NEW w \in Widths, NEW a, a = Trunc(s.reg["AX"], w),
           NEW t, t = Perform(s, Extend(mn, w))
    PROVE  \E v \in Word : /\ Writes(s, t, "DX", v)
                           /\ Trunc(v, w) = IF IsSigned(mn) /\ SignedOf(a, w) < 0 THEN 2^w - 1 ELSE 0
<1>1. "AX" \in Hosts /\ "DX" \in Hosts /\ HALF \in Widths
  BY HostNames DEF Widths
<1>2. 2^w \in Nat \ {0} /\ 2^w - 1 \in Int /\ Trunc(0, w) = 0 /\ 0 \in Word
  <2>1. 2^w \in Nat \ {0} /\ 2^XLEN \in Nat \ {0}
    BY Sizes
  <2> DEFINE p == 2^w
             x == 2^XLEN
  <2>2. p \in Nat \ {0} /\ x \in Nat \ {0}
    BY <2>1
  <2>3. 0 \in 0 .. p - 1 /\ 0 \in 0 .. x - 1
    <3> HIDE DEF p, x
    <3>. QED
      BY <2>2
  <2>4. 0 % p = 0
    <3> HIDE DEF p
    <3>. QED
      BY <2>2, <2>3, ModSmall
  <2>. QED
    BY <2>1, <2>3, <2>4 DEF Trunc, Word
<1>3. CASE IsSigned(mn)
  <2> DEFINE x == 0 - If(SignedOf(s.reg["AX"], w) < 0)
             v == Trunc(x, w)
  <2>1. x \in Int /\ x = (IF SignedOf(s.reg["AX"], w) < 0 THEN -1 ELSE 0)
    BY DEF If
  <2>2. SignedOf(s.reg["AX"], w) = SignedOf(a, w)
    <3>1. s.reg["AX"] \in Int
      BY <1>1, Words
    <3>2. Trunc(a, w) = Trunc(s.reg["AX"], w)
      BY <3>1, TruncSame
    <3>. QED
      BY <3>2, SignedSame
  <2>3. t = Set(s, "DX", v)
    <3>1. ASSUME NEW e, e = R1("SEP", w, "DX")
          PROVE  Perform(s, e) = Set(s, "DX", v)
      <4>1. e.op = "SEP" /\ e.w = w
        BY <3>1 DEF R1, Ins
      <4>. QED
        BY <4>1, Performs
    <3>2. t = Perform(s, R1("SEP", w, "DX"))
      BY <1>3 DEF Extend
    <3>. QED
      BY <3>1, <3>2
  <2> HIDE DEF x
  <2>4. v \in Word /\ Trunc(v, w) = v
    BY <2>1, TruncType, TruncSame
  <2>5. v = IF SignedOf(a, w) < 0 THEN 2^w - 1 ELSE 0
    <3>1. CASE SignedOf(a, w) < 0
      <4> DEFINE p == 2^w
                 r == p - 1
      <4>1. p \in Nat \ {0} /\ x = -1
        BY <1>2, <2>1, <2>2, <3>1
      <4> HIDE DEF p
      <4>2. r \in 0 .. p - 1 /\ -1 \in Int /\ -1 \in Int /\ x = (p * (-1)) + r /\ x \in Int
        BY <4>1
      <4> HIDE DEF r
      <4>3. PICK q \in Int : q = -1
        OBVIOUS
      <4>4. x = (p * q) + r
        BY <4>2, <4>3
      <4>5. x % p = r
        BY <4>1, <4>2, <4>4, DivModUnique
      <4>. QED
        BY <3>1, <4>5 DEF Trunc, p, r
    <3>2. CASE ~(SignedOf(a, w) < 0)
      BY <1>2, <2>1, <2>2, <3>2
    <3>. QED
      BY <3>1, <3>2
  <2> HIDE DEF v
  <2>6. Writes(s, t, "DX", v)
    BY <1>1, <2>3, <2>4, SetWrites
  <2>. QED
    BY <1>3, <2>4, <2>5, <2>6
<1>4. CASE ~IsSigned(mn)
  <2> DEFINE x == Trunc(s.reg["DX"], HALF)
  <2>1. x \in Word
    BY <1>1, Words, TruncType
  <2>2. Xor(x, x) = 0
    BY <2>1 DEF SizeFacts
  <2>3. "XOR" \in AluOps /\ "DX" \in Hosts \cup {NONE} /\ "DX" # NONE /\ 0 \in Int
    BY <1>1, HostNames DEF AluOps
  <2>4. Writes(s, Perform(s, Ins("XOR", HALF, "DX", "DX", 0)), "DX",
               Alu("XOR", HALF, x, Trunc(IF "DX" = NONE THEN 0 ELSE s.reg["DX"], HALF)))
    BY <1>1, <2>3, AluStep
  <2>5. Alu("XOR", HALF, x, x) = 0
    BY <2>2 DEF Alu
  <2>6. t = Perform(s, Ins("XOR", HALF, "DX", "DX", 0))
    BY <1>4 DEF Extend, RR
  <2>7. Writes(s, t, "DX", 0)
    BY <2>3, <2>4, <2>5, <2>6
  <2>. QED
    BY <1>2, <1>4, <2>7
<1>. QED
  BY <1>3, <1>4

\* A register gets -1.
LEMMA MinusOneStep ==
    ASSUME SizeFacts, NEW s, State(s), NEW d \in Hosts
    PROVE  Writes(s, Perform(s, RI("MOV", XLEN, d, -1)), d, W(-1))
<1>1. XLEN \in Widths /\ "MOV" \in AluOps /\ NONE \in Hosts \cup {NONE}
  BY DEF Widths, AluOps
<1>2. PICK i \in Int : i = -1
  OBVIOUS
<1>3. Writes(s, Perform(s, Ins("MOV", XLEN, d, NONE, i)), d,
             Alu("MOV", XLEN, Trunc(s.reg[d], XLEN), Trunc(IF NONE = NONE THEN i ELSE s.reg[NONE], XLEN)))
  BY <1>1, AluStep
<1>4. \A x, y : Alu("MOV", XLEN, x, y) = y
  BY DEF Alu
<1>5. Writes(s, Perform(s, Ins("MOV", XLEN, d, NONE, i)), d, Trunc(i, XLEN))
  BY <1>3, <1>4
<1>6. RI("MOV", XLEN, d, -1) = Ins("MOV", XLEN, d, NONE, i) /\ Trunc(i, XLEN) = W(-1)
  BY <1>2 DEF RI, Trunc, W
<1>. QED
  BY <1>5, <1>6

\* Divisions by zero.
LEMMA ByZeroStep ==
    ASSUME SizeFacts, form \in Forms, form.mnem \in DivOps, State(start), NEW mn, mn = form.mnem,
           NEW w, w = Width(mn), Trunc(start.reg["CX"], w) = 0, NEW s, Same(s), NEW d, d = regDest(form)
    PROVE  /\ ~Overflows
           /\ mn \in WOps => Writes(s, Perform(s, ByZero32(mn, d)), d, Result)
           /\ mn \notin WOps => Writes(s, Perform(s, ByZero64(mn)), Holder(mn), Result)
<1> DEFINE x == start.reg["AX"]
           a == Trunc(x, w)
           b == Trunc(start.reg["CX"], w)
<1>1. /\ w \in Widths /\ (b = 0 => Result = IF IsQuotient(mn) THEN W(-1) ELSE W(SignedOf(a, w)))
      /\ Overflows <=> Extreme(mn, a, b, w)
  <2>1. a = Trunc(start.reg["AX"], w) /\ b = Trunc(start.reg["CX"], w)
    OBVIOUS
  <2> HIDE DEF a, b
  <2>. QED
    BY <2>1, DivResult
<1>2. form.mnem \in MulDivOps
  BY DEF MulDivOps
<1>3. {"AX", "CX", "DX"} \subseteq Hosts /\ d \in Hosts
  BY <1>2, MulDivPlaces
<1>4. ~Overflows
  <2> DEFINE p == 2^w
             h == 2^(w - 1)
  <2>1. p = 2 * h /\ h \in Nat \ {0}
    BY <1>1, Sizes
  <2> HIDE DEF p, h
  <2>2. p - 1 # 0
    BY <2>1
  <2>. QED
    BY <1>1, <2>2 DEF p, Extreme
<1>5. Result = IF IsQuotient(mn) THEN W(-1) ELSE W(SignedOf(x, w))
  <2>1. x \in Int
    BY <1>3, Words
  <2> HIDE DEF x
  <2>2. Trunc(a, w) = Trunc(x, w)
    BY <1>1, <2>1, TruncSame
  <2>3. SignedOf(a, w) = SignedOf(x, w)
    BY <2>2, SignedSame
  <2>. QED
    BY <1>1, <2>3
<1>6. State(s) /\ s.reg["AX"] = x
  BY DEF Same
<1>7. CASE IsQuotient(mn)
  <2>1. Writes(s, Perform(s, RI("MOV", XLEN, d, -1)), d, W(-1))
    BY <1>3, <1>6, MinusOneStep
  <2>2. Writes(s, Perform(s, RI("MOV", XLEN, "AX", -1)), "AX", W(-1))
    BY <1>3, <1>6, MinusOneStep
  <2>. QED
    BY <1>4, <1>5, <1>7, <2>1, <2>2 DEF ByZero32, ByZero64, Holder
<1>8. CASE ~IsQuotient(mn)
  <2>1. CASE mn \in WOps
    <3>1. w = HALF /\ HALF \in Widths
      BY <2>1 DEF Width, Widths
    <3>2. Writes(s, Perform(s, RR("MOVSX", HALF, d, "AX")), d, W(SignedOf(s.reg["AX"], HALF)))
      BY <1>3, <1>6, <3>1, MoveExtended
    <3>. QED
      BY <1>4, <1>5, <1>6, <1>8, <2>1, <3>1, <3>2 DEF ByZero32
  <2>2. CASE mn \notin WOps
    <3>1. w = XLEN /\ XLEN \in Widths
      BY <2>2 DEF Width, Widths
    <3>2. Writes(s, Perform(s, RR("MOV", XLEN, "DX", "AX")), "DX", Trunc(s.reg["AX"], XLEN))
      BY <1>3, <1>6, <3>1, MoveStep
    <3>3. Trunc(x, XLEN) = x /\ x \in Word
      BY <1>3, Words
    <3>4. W(SignedOf(x, XLEN)) = x
      BY <3>3, SignedWhole
    <3>. QED
      BY <1>4, <1>5, <1>6, <1>8, <2>2, <3>1, <3>2, <3>3, <3>4 DEF ByZero64, Holder
  <2>. QED
    BY <2>1, <2>2
<1>. QED
  BY <1>7, <1>8

\* What holds before instruction k of the code of a division.
DivPath(k, s) ==
    LET mn == form.mnem
        w == Width(mn)
        a == Trunc(start.reg["AX"], w)
        b == Trunc(start.reg["CX"], w)
        r == s.reg[Holder(mn)]
    IN  \/ k = 5 /\ s.fault /\ Overflows
        \/ /\ ~s.fault
           /\ k = 1 => s = start
           /\ k = 2 => Same(s) /\ s.flags = [x |-> b, y |-> 0, w |-> w]
           /\ k = 3 => Same(s) /\ b # 0
           /\ k = 4 => /\ Untouched(s) /\ s.reg["AX"] = start.reg["AX"] /\ b # 0
                       /\ Trunc(s.reg["DX"], w) = IF IsSigned(mn) /\ SignedOf(a, w) < 0 THEN 2^w - 1 ELSE 0
           /\ k = 5 => ~Overflows /\ Untouched(s) /\ W(SignedOf(r, w)) = Result
           /\ k = (IF mn \in WOps THEN 7 ELSE 6) => Same(s) /\ b = 0
           /\ k = 7 /\ mn \notin WOps => ~Overflows /\ Untouched(s) /\ r = Result
           /\ (k = 6 /\ mn \in WOps) \/ k = 8 => ~Overflows /\ Outcome(s)

\* The step of IDIV or DIV.
LEMMA DividePath ==
    ASSUME SizeFacts, form \in Forms, Entered(form, start), form.mnem \in DivOps, NEW mn, mn = form.mnem,
           NEW w, w = Width(mn), NEW s, DivPath(4, s), NEW t, t = Perform(s, R1(DivOp(mn), w, "CX"))
    PROVE  DivPath(5, t)
<1> DEFINE a == Trunc(start.reg["AX"], w)
           b == Trunc(start.reg["CX"], w)
           op == DivOp(mn)
           n == Taken(op, a, w)
           y == Taken(op, b, w)
           q == Quotient(n, y)
           r == Remainder(n, y)
<1>1. /\ ~s.fault /\ Untouched(s) /\ s.reg["AX"] = start.reg["AX"] /\ b # 0
      /\ Trunc(s.reg["DX"], w) = IF IsSigned(mn) /\ SignedOf(a, w) < 0 THEN 2^w - 1 ELSE 0
  BY DEF DivPath
<1>2. {"AX", "CX", "DX"} \subseteq Hosts /\ State(start)
  BY HostNames DEF Entered
<1>3. op \in {"IDIV", "DIV"} /\ (op = "IDIV" <=> IsSigned(mn))
  BY DEF DivOp
<1>4. /\ a \in 0 .. 2^w - 1 /\ b \in 0 .. 2^w - 1 /\ w \in Widths
      /\ b # 0 => Result = W(SignedOf(IF IsQuotient(mn) THEN q ELSE r, w))
      /\ Overflows <=> Extreme(mn, a, b, w)
  <2>1. a = Trunc(start.reg["AX"], w) /\ b = Trunc(start.reg["CX"], w)
    OBVIOUS
  <2> HIDE DEF a, b
  <2>. QED
    BY <1>2, <2>1, DivResult
<1>5. s.reg["CX"] = start.reg["CX"] /\ State(s)
  BY <1>1, <1>2 DEF Untouched
<1>6. IF op = "IDIV" /\ a = 2^(w - 1) /\ b = 2^w - 1 THEN t.fault
      ELSE WritesPair(s, t, Trunc(q, w), Trunc(r, w))
  <2>1. /\ a = Trunc(s.reg["AX"], w) /\ b = Trunc(s.reg["CX"], w)
        /\ Trunc(s.reg["DX"], w) = IF op = "IDIV" /\ SignedOf(a, w) < 0 THEN 2^w - 1 ELSE 0
        /\ n = Taken(op, a, w) /\ y = Taken(op, b, w) /\ t = Perform(s, R1(op, w, "CX"))
    BY <1>1, <1>3, <1>5
  <2> HIDE DEF a, b, op, n, y
  <2>. QED
    BY <1>1, <1>3, <1>4, <1>5, <2>1, DivideStep
<1>7. q \in Int /\ r \in Int
  <2>1. n = Taken(op, a, w) /\ y = Taken(op, b, w)
    OBVIOUS
  <2> HIDE DEF a, b, op, n, y
  <2>. QED
    BY <1>1, <1>3, <1>4, <2>1, Fits
<1> HIDE DEF q, r, n, y, a, b, op
<1>8. CASE Overflows
  <2>1. t.fault
    BY <1>3, <1>4, <1>6, <1>8 DEF Extreme
  <2>. QED
    BY <1>8, <2>1 DEF DivPath
<1>9. CASE ~Overflows
  <2>1. WritesPair(s, t, Trunc(q, w), Trunc(r, w))
    BY <1>3, <1>4, <1>6, <1>9 DEF Extreme
  <2>2. Untouched(t) /\ ~t.fault
    BY <1>1, <2>1 DEF WritesPair, Untouched
  <2>3. SignedOf(Trunc(q, w), w) = SignedOf(q, w) /\ SignedOf(Trunc(r, w), w) = SignedOf(r, w)
    <3>1. Trunc(Trunc(q, w), w) = Trunc(q, w) /\ Trunc(Trunc(r, w), w) = Trunc(r, w)
      BY <1>4, <1>7, TruncSame
    <3>. QED
      BY <3>1, SignedSame
  <2>4. t.reg[Holder(mn)] = IF IsQuotient(mn) THEN Trunc(q, w) ELSE Trunc(r, w)
    BY <2>1 DEF WritesPair, Holder
  <2>5. W(SignedOf(t.reg[Holder(mn)], w)) = Result
    BY <1>1, <1>4, <2>3, <2>4
  <2>. QED
    BY <1>9, <2>2, <2>5 DEF DivPath
<1>. QED
  BY <1>8, <1>9

LEMMA DivPathStep ==
    ASSUME SizeFacts, form \in Forms, Entered(form, start), form.mnem \in DivOps,
           NEW c, NEW l, DivShape(form.mnem, c, l), NEW k \in 1 .. l, NEW s, DivPath(k, s), ~s.fault,
           NEW n, NEW t, Steps(c, k, s, n, t)
    PROVE  DivPath(n, t) /\ n \in 1 .. l + 1 /\ l \in 6 .. 7
<1> DEFINE mn == form.mnem
           w == Width(mn)
           d == regDest(form)
           v == Holder(mn)
           a == Trunc(start.reg["AX"], w)
           b == Trunc(start.reg["CX"], w)
<1>1. State(start) /\ ~start.fault /\ mn \in MulDivOps /\ mn \in DivOps /\ mn = form.mnem /\ form \in Forms
  BY DEF Entered, MulDivOps
<1>2. {"AX", "CX", "DX", v, d} \subseteq Hosts /\ v \in {"AX", "DX"} /\ v # "CX"
  BY <1>1, MulDivPlaces DEF Holder
<1>3. w \in Widths /\ XLEN \in Widths /\ HALF \in Widths
      /\ (mn \in WOps => w = HALF) /\ (mn \notin WOps => w = XLEN)
  BY DEF Width, Widths
<1>4. /\ c[1] = R1("TEST", w, "CX") /\ c[2] = Jump("Z", IF mn \in WOps THEN 4 ELSE 3)
      /\ c[3] = Extend(mn, w) /\ c[4] = R1(DivOp(mn), w, "CX")
      /\ mn \in WOps => /\ l = 7 /\ c[5] = RR("MOVSX", HALF, d, v)
                        /\ c[6] = Jump("ALWAYS", 1) /\ c[7] = ByZero32(mn, d)
      /\ mn \notin WOps => /\ c[5] = Jump("ALWAYS", 1) /\ c[6] = ByZero64(mn)
                           /\ d = v => l = 6
                           /\ d # v => l = 7 /\ c[7] = RR("MOV", XLEN, d, v)
  BY DEF DivShape
<1>5. /\ c[1].op \notin JumpOps /\ c[3].op \notin JumpOps /\ c[4].op \notin JumpOps
      /\ c[2].op = "Z" /\ c[2].op \in JumpOps /\ c[2].i = (IF mn \in WOps THEN 4 ELSE 3)
      /\ mn \in WOps => /\ c[5].op \notin JumpOps /\ c[7].op \notin JumpOps
                        /\ c[6].op = "ALWAYS" /\ c[6].op \in JumpOps /\ c[6].i = 1
      /\ mn \notin WOps => /\ c[5].op = "ALWAYS" /\ c[5].op \in JumpOps /\ c[5].i = 1
                           /\ c[6].op \notin JumpOps /\ (d # v => c[7].op \notin JumpOps)
  BY <1>4 DEF R1, RR, RI, Jump, Ins, JumpOps, Extend, DivOp, ByZero32, ByZero64
<1>6. Steps(c, k, s, n, t) /\ DivPath(k, s) /\ ~s.fault
  OBVIOUS
<1>7. l \in 6 .. 7 /\ k \in 1 .. 7
  <2> DEFINE wide == mn \in WOps
             same == d = v
  <2>1. (wide => l = 7) /\ (~wide /\ same => l = 6) /\ (~wide /\ ~same => l = 7) /\ k \in 1 .. l
    BY <1>4, Zenon
  <2> HIDE DEF wide, same
  <2>2. l = 6 \/ l = 7
    BY <2>1
  <2>. QED
    BY <2>1, <2>2
<1>8. \A f : Holds("ALWAYS", f) /\ (Holds("Z", f) <=> f.x = f.y)
  BY DEF Holds
<1> HIDE DEF mn, w, d, v
<1>9. CASE k = 1
  <2>1. s = start /\ n = 2 /\ t = Perform(start, R1("TEST", w, "CX"))
    BY <1>4, <1>5, <1>6, <1>9 DEF DivPath, Steps
  <2>2. 0 \in Int
    OBVIOUS
  <2>3. Compares(start, Perform(start, R1("TEST", w, "CX")), b, 0, w)
    BY <1>1, <1>2, <1>3, <2>2, CompareStep
  <2>4. Same(t) /\ t.flags = [x |-> b, y |-> 0, w |-> w]
    BY <1>1, <2>1, <2>3 DEF Compares, Same
  <2>. QED
    BY <1>7, <2>1, <2>4 DEF DivPath, Same, w, mn
<1>10. CASE k = 2
  <2>1. Same(s) /\ s.flags = [x |-> b, y |-> 0, w |-> w]
    BY <1>6, <1>10 DEF DivPath, w, mn
  <2>2. Holds("Z", s.flags) <=> b = 0
    BY <1>8, <2>1
  <2>3. t = s /\ n = IF b = 0 THEN (IF mn \in WOps THEN 7 ELSE 6) ELSE 3
    BY <1>5, <1>6, <1>10, <2>2 DEF Steps
  <2> HIDE DEF b
  <2>4. n \in 1 .. l + 1
    BY <1>7, <2>3
  <2>5. CASE b = 0
    <3>1. n = IF mn \in WOps THEN 7 ELSE 6
      BY <2>3, <2>5
    <3>2. CASE mn \in WOps
      BY <1>7, <2>1, <2>3, <2>4, <2>5, <3>1, <3>2 DEF DivPath, Same, b, w, mn
    <3>3. CASE mn \notin WOps
      BY <1>7, <2>1, <2>3, <2>4, <2>5, <3>1, <3>3 DEF DivPath, Same, b, w, mn
    <3>. QED
      BY <3>2, <3>3
  <2>6. CASE b # 0
    BY <1>7, <2>1, <2>3, <2>4, <2>6 DEF DivPath, Same, b, w, mn
  <2>. QED
    BY <2>5, <2>6
<1>11. CASE k = 3
  <2>1. Same(s) /\ b # 0 /\ n = 4 /\ t = Perform(s, Extend(mn, w))
    BY <1>4, <1>5, <1>6, <1>11 DEF DivPath, Steps, w, mn
  <2>2. State(s) /\ Trunc(s.reg["AX"], w) = a
    BY <2>1 DEF Same
  <2>3. PICK x \in Word : /\ Writes(s, t, "DX", x)
                          /\ Trunc(x, w) = IF IsSigned(mn) /\ SignedOf(a, w) < 0 THEN 2^w - 1 ELSE 0
    <3> HIDE DEF a
    <3>. QED
      BY <1>3, <2>1, <2>2, ExtendStep
  <2>4. Untouched(t) /\ t.reg["AX"] = start.reg["AX"] /\ ~t.fault /\ t.reg["DX"] = x
    BY <1>2, <2>1, <2>3 DEF Writes, Same, Untouched
  <2>. QED
    BY <1>7, <2>1, <2>3, <2>4 DEF DivPath, w, mn
<1>12. CASE k = 4
  <2>1. n = 5 /\ t = Perform(s, R1(DivOp(mn), w, "CX")) /\ DivPath(4, s)
    BY <1>4, <1>5, <1>6, <1>12 DEF Steps
  <2>2. DivPath(5, t)
    BY <1>1, <2>1, DividePath DEF w
  <2>. QED
    BY <1>7, <2>1, <2>2
<1>13. CASE k = 5
  <2>1. ~Overflows /\ Untouched(s) /\ W(SignedOf(s.reg[v], w)) = Result /\ State(s)
    BY <1>6, <1>13 DEF DivPath, Untouched, w, mn, v
  <2>2. CASE mn \in WOps
    <3>1. n = 6 /\ t = Perform(s, RR("MOVSX", HALF, d, v))
      BY <1>4, <1>5, <1>6, <1>13, <2>2 DEF Steps
    <3>2. Writes(s, t, d, Result)
      BY <1>2, <1>3, <2>1, <2>2, <3>1, MoveExtended
    <3>3. Outcome(t)
      BY <1>1, <2>1, <3>2, MulDivOutcome DEF d
    <3>. QED
      BY <1>7, <2>1, <2>2, <3>1, <3>3 DEF DivPath, Outcome, mn
  <2>3. CASE mn \notin WOps
    <3>1. n = 7 /\ t = s
      BY <1>5, <1>6, <1>8, <1>13, <2>3 DEF Steps
    <3>2. s.reg[v] \in Word
      BY <1>2, <2>1, Words
    <3>3. s.reg[v] = Result
      BY <1>3, <2>1, <2>3, <3>2, SignedWhole
    <3>. QED
      BY <1>6, <1>7, <2>1, <2>3, <3>1, <3>3 DEF DivPath, mn, v
  <2>. QED
    BY <2>2, <2>3
<1>14. CASE k = 6
  <2>1. CASE mn \in WOps
    <3>1. ~Overflows /\ Outcome(s) /\ n = 8 /\ t = s
      BY <1>5, <1>6, <1>8, <1>14, <2>1 DEF DivPath, Steps, mn
    <3>. QED
      BY <1>4, <1>6, <2>1, <3>1 DEF DivPath
  <2>2. CASE mn \notin WOps
    <3>1. Same(s) /\ b = 0 /\ n = 7 /\ t = Perform(s, ByZero64(mn))
      BY <1>4, <1>5, <1>6, <1>14, <2>2 DEF DivPath, Steps, w, mn
    <3>2. ~Overflows /\ Writes(s, t, v, Result)
      BY <1>1, <2>2, <3>1, ByZeroStep DEF w, v
    <3>3. Untouched(t) /\ t.reg[v] = Result /\ ~t.fault
      BY <1>2, <3>1, <3>2 DEF Writes, Same, Untouched
    <3>. QED
      BY <1>7, <2>2, <3>1, <3>2, <3>3 DEF DivPath, mn, v
  <2>. QED
    BY <2>1, <2>2
<1>15. CASE k = 7
  <2>1. l = 7
    BY <1>7, <1>15
  <2>2. CASE mn \in WOps
    <3>1. Same(s) /\ b = 0 /\ n = 8 /\ t = Perform(s, ByZero32(mn, d))
      BY <1>4, <1>5, <1>6, <1>15, <2>2 DEF DivPath, Steps, w, mn
    <3>2. ~Overflows /\ Writes(s, t, d, Result)
      BY <1>1, <2>2, <3>1, ByZeroStep DEF w, d
    <3>3. Untouched(s)
      BY <3>1 DEF Same, Untouched
    <3>4. Outcome(t)
      BY <1>1, <3>2, <3>3, MulDivOutcome DEF d
    <3>. QED
      BY <2>1, <3>1, <3>2, <3>4 DEF DivPath, Outcome
  <2>3. CASE mn \notin WOps
    <3>1. d # v
      BY <1>4, <2>1, <2>3
    <3>2. ~Overflows /\ Untouched(s) /\ s.reg[v] = Result /\ State(s)
      BY <1>6, <1>15, <2>3 DEF DivPath, Untouched, mn, v
    <3>3. n = 8 /\ t = Perform(s, RR("MOV", XLEN, d, v))
      BY <1>4, <1>5, <1>6, <1>15, <2>3, <3>1 DEF Steps
    <3>4. Trunc(s.reg[v], XLEN) = s.reg[v]
      BY <1>2, <3>2, Words
    <3>5. Writes(s, t, d, Result)
      BY <1>2, <1>3, <3>2, <3>3, <3>4, MoveStep
    <3>6. Outcome(t)
      BY <1>1, <3>2, <3>5, MulDivOutcome DEF d
    <3>. QED
      BY <2>1, <3>2, <3>3, <3>6 DEF DivPath, Outcome
  <2>. QED
    BY <2>2, <2>3
<1>. QED
  BY <1>7, <1>9, <1>10, <1>11, <1>12, <1>13, <1>14, <1>15

\* After the last instruction of a division.
LEMMA DivDone ==
    ASSUME SizeFacts, form \in Forms, Entered(form, start), form.mnem \in DivOps,
           NEW c, NEW l, DivShape(form.mnem, c, l), NEW k, k = l + 1, NEW s, DivPath(k, s)
    PROVE  Outcome(s) /\ ~Overflows
<1> DEFINE mn == form.mnem
           d == regDest(form)
           v == Holder(mn)
<1>1. mn \in MulDivOps
  BY DEF MulDivOps
<1>2. /\ mn \in WOps => l = 7
      /\ mn \notin WOps => (d = v => l = 6) /\ (d # v => l = 7)
  BY DEF DivShape
<1> HIDE DEF d, v
<1>3. CASE k = 8
  BY <1>3 DEF DivPath
<1>4. CASE k = 7 /\ mn \notin WOps /\ d = v
  <2>1. ~Overflows /\ Untouched(s) /\ s.reg[v] = Result
    BY <1>4 DEF DivPath, v
  <2>2. Outcome(s)
    BY <1>1, <1>4, <2>1, MulDivOutcome DEF d
  <2>. QED
    BY <2>1, <2>2
<1>5. k = 7 \/ k = 8
  <2> DEFINE wide == mn \in WOps
             same == d = v
  <2>1. (wide => l = 7) /\ (~wide /\ same => l = 6) /\ (~wide /\ ~same => l = 7) /\ k = l + 1
    BY <1>2, Zenon
  <2> HIDE DEF wide, same
  <2>. QED
    BY <2>1
<1>6. k = 7 => mn \notin WOps /\ d = v
  BY <1>2
<1>. QED
  BY <1>3, <1>4, <1>5, <1>6

-----------------------------------------------------------------------------
(* The code as it is executed. *)

LEMMA OutcomeOfPlain ==
    ASSUME SizeFacts, form \in Forms, Entered(form, start), form.mnem \notin DivOps \cup {"MULHSU"}
    PROVE  PlainCode
<1>1. form.mnem \in ImmOps \cup RegOps \cup ShiftOps \cup MulHighOps \cup DivOps
                   \cup LoadOps \cup StoreOps \cup AmoOps \cup MinMaxOps
  BY FormsAssumption
<1>2. \/ form.mnem \in ArithmeticOps
      \/ (form.mnem \in MulHighOps /\ form.mnem # "MULHSU")
      \/ form.mnem \in LoadOps \/ form.mnem \in StoreOps \/ form.mnem \in AmoOps \/ form.mnem \in MinMaxOps
  BY <1>1 DEF ArithmeticOps
<1>. QED
  BY <1>2, ArithmeticOutcome, MulHighOutcome, LoadOutcome, StoreOutcome, AmoOutcome, MinMaxOutcome

\* No plain instruction faults.
Running(s) == DOMAIN s = {"reg", "mem", "flags", "fault"} /\ ~s.fault

LEMMA PlainRuns ==
    ASSUME NEW s, Running(s), NEW e, e.op \in PlainOps
    PROVE  Running(Perform(s, e))
<1>1. \A r, v : Running(Set(s, r, v))
  BY DEF Set, Running
<1>2. \A r, v, x, y : Running(Set(Set(s, r, v), x, y))
  BY <1>1 DEF Set, Running
<1>3. \A b, i, w, v : Running(StoreAt(s, b, i, w, v))
  BY DEF StoreAt, Running
<1>4. \A f : Running([s EXCEPT !.flags = f])
  BY DEF Running
<1>5. CASE e.op \in AluOps
  BY <1>1, <1>5, PerformAlu
<1>6. CASE e.op \in {"IMUL1", "MUL1"}
  <2>1. Perform(s, e) = Multiply(s, e)
    BY <1>6, Performs
  <2>. QED
    BY <1>2, <2>1 DEF Multiply
<1>7. CASE e.op \in {"CMP", "TEST"}
  <2>1. Perform(s, e) = [s EXCEPT !.flags = [x |-> Trunc(s.reg[e.d], e.w), w |-> e.w,
                                             y |-> IF e.op = "TEST" THEN 0 ELSE Source(s, e)]]
    BY <1>7, Performs
  <2>. QED
    BY <1>4, <2>1
<1>8. CASE e.op = "STORE" \/ e.op = "RMW"
  BY <1>3, <1>8, Performs
<1>9. CASE e.op \in {"NEG", "MOVSX", "MOVZX", "LEA", "LEA_SUM", "LEA_SCALED", "SETL", "SETC", "CMOV", "SEP",
                     "LOAD", "LOADSX"}
  BY <1>1, <1>9, Performs
<1>. QED
  BY <1>5, <1>6, <1>7, <1>8, <1>9 DEF PlainOps

\* What holds before instruction k of plain code.
PlainPath(c, l, k, s) == k \in 1 .. l + 1 /\ s = After(c, start, k - 1) /\ Running(s)

LEMMA PlainPathStep ==
    ASSUME NEW c, NEW l \in 0 .. 7, \A j \in 1 .. l : c[j].op \in PlainOps, NEW k \in 1 .. l,
           NEW s, PlainPath(c, l, k, s), NEW n, NEW t, Steps(c, k, s, n, t)
    PROVE  PlainPath(c, l, n, t)
<1>1. c[k].op \in PlainOps /\ c[k].op \notin JumpOps
  BY DEF PlainOps, AluOps, JumpOps
<1>2. n = k + 1 /\ t = Perform(s, c[k])
  BY <1>1 DEF Steps
<1>3. PICK j \in 0 .. 6 : j + 1 = k /\ j = k - 1
  <2>1. k - 1 \in 0 .. 6 /\ (k - 1) + 1 = k
    OBVIOUS
  <2>. QED
    BY <2>1
<1>4. After(c, start, j + 1) = Perform(After(c, start, j), c[j + 1])
  BY AfterNext
<1>5. s = After(c, start, j) /\ Running(s)
  BY <1>3 DEF PlainPath
<1>6. t = After(c, start, k)
  BY <1>2, <1>3, <1>4, <1>5
<1>7. Running(t)
  BY <1>1, <1>2, <1>5, PlainRuns
<1>8. n \in 1 .. l + 1 /\ n - 1 = k
  BY <1>2
<1>. QED
  BY <1>6, <1>7, <1>8 DEF PlainPath

\* Every state of the code, by the way that leads to it.
Progress(c, l, k, s) ==
    IF form.mnem \in DivOps THEN DivPath(k, s) /\ k \in 1 .. l + 1
    ELSE IF form.mnem = "MULHSU" THEN HighPath(k, s) /\ k \in 1 .. 6
    ELSE PlainPath(c, l, k, s)

LEMMA Progresses ==
    ASSUME SizeFacts, form \in Forms, Entered(form, start), NEW c, c = Emission(form), NEW l, l = Len(c),
           NEW k \in 1 .. l, NEW s, ~s.fault, Progress(c, l, k, s), NEW n, NEW t, Steps(c, k, s, n, t)
    PROVE  Progress(c, l, n, t)
<1>1. CASE form.mnem \in DivOps
  <2>1. DivShape(form.mnem, c, l) /\ DivPath(k, s)
    BY <1>1, DivCode DEF Progress
  <2>2. DivPath(n, t) /\ n \in 1 .. l + 1
    BY <1>1, <2>1, DivPathStep
  <2>. QED
    BY <1>1, <2>2 DEF Progress
<1>2. CASE form.mnem = "MULHSU"
  <2>1. l = 5 /\ form.mnem \notin DivOps
    BY <1>2, UnsignedCode DEF DivOps
  <2>2. HighPath(k, s) /\ k \in 1 .. 5
    BY <1>2, <2>1 DEF Progress
  <2>3. HighPath(n, t) /\ n \in 1 .. 6
    BY <1>2, <2>2, HighPathStep
  <2>. QED
    BY <1>2, <2>1, <2>3 DEF Progress
<1>3. CASE form.mnem \notin DivOps \cup {"MULHSU"}
  <2>1. PlainCode
    BY <1>3, OutcomeOfPlain
  <2>2. l \in 0 .. 7 /\ \A j \in 1 .. l : c[j].op \in PlainOps
    BY <2>1 DEF PlainCode, Straight
  <2>3. PlainPath(c, l, k, s)
    BY <1>3 DEF Progress
  <2>4. PlainPath(c, l, n, t)
    BY <2>2, <2>3, PlainPathStep
  <2>. QED
    BY <1>3, <2>4 DEF Progress
<1>. QED
  BY <1>1, <1>2, <1>3

LEMMA Finished ==
    ASSUME SizeFacts, form \in Forms, Entered(form, start), NEW c, c = Emission(form), NEW l, l = Len(c),
           NEW k, NEW s, Progress(c, l, k, s)
    PROVE  /\ k \in 1 .. l + 1
           /\ k = l + 1 => Outcome(s) /\ ~Overflows
           /\ s.fault => Overflows
<1>1. CASE form.mnem \in DivOps
  <2>1. DivShape(form.mnem, c, l) /\ DivPath(k, s) /\ k \in 1 .. l + 1
    BY <1>1, DivCode DEF Progress
  <2>2. k = l + 1 => Outcome(s) /\ ~Overflows
    BY <1>1, <2>1, DivDone
  <2>3. s.fault => Overflows
    BY <2>1 DEF DivPath
  <2>. QED
    BY <2>1, <2>2, <2>3
<1>2. CASE form.mnem \notin DivOps
  <2>1. ~Overflows
    BY <1>2 DEF Overflows
  <2>2. CASE form.mnem = "MULHSU"
    <3>1. l = 5
      BY <2>2, UnsignedCode
    <3>2. HighPath(k, s) /\ k \in 1 .. 6
      BY <1>2, <2>2 DEF Progress
    <3>3. k \in 1 .. l + 1 /\ (k = l + 1 => k = 6)
      BY <3>1, <3>2
    <3>4. ~s.fault /\ (k = 6 => Outcome(s))
      BY <3>2 DEF HighPath
    <3>. QED
      BY <2>1, <3>3, <3>4
  <2>3. CASE form.mnem # "MULHSU"
    <3>1. PlainCode
      BY <1>2, <2>3, OutcomeOfPlain
    <3>2. PlainPath(c, l, k, s)
      BY <1>2, <2>3 DEF Progress
    <3>3. l \in 0 .. 7 /\ Outcome(After(c, start, l))
      BY <3>1 DEF PlainCode, Straight, Final
    <3>4. k = l + 1 => s = After(c, start, l)
      <4>1. l + 1 - 1 = l
        BY <3>3
      <4>. QED
        BY <3>2, <4>1 DEF PlainPath
    <3>5. k \in 1 .. l + 1 /\ ~s.fault
      BY <3>2 DEF PlainPath, Running
    <3>. QED
      BY <2>1, <3>3, <3>4, <3>5
  <2>. QED
    BY <2>2, <2>3
<1>. QED
  BY <1>1, <1>2

\* The instruction stays what it is, and the execution is on its code's way.
CodeInv ==
    /\ form \in Forms /\ Entered(form, start) /\ code = Emission(form)
    /\ Progress(code, Len(code), ip, m)

LEMMA ProgressKept ==
    ASSUME form' = form, start' = start, code' = code, Progress(code, Len(code), ip', m')
    PROVE  Progress(code, Len(code), ip, m)'
<1>1. Result' = Result /\ Operand1' = Operand1 /\ NewCell' = NewCell /\ Relied' = Relied /\ (WritesRd' <=> WritesRd)
  BY DEF Result, NewCell, Operand1, Operand2, Cell, Relied, GivenUp, WritesRd
<1>2. Overflows' <=> Overflows
  BY DEF Overflows, Operand1, Operand2
<1>. QED
  BY <1>1, <1>2 DEF Progress, DivPath, HighPath, PlainPath, Untouched, Same, Outcome, Product, WritesPair

LEMMA CodeInvInit ==
    ASSUME SizeFacts, Init
    PROVE  CodeInv
<1>1. PICK val \in [{form.rs1, form.rs2, form.rd} -> Values], cell \in Cells : start = HostWith(form, val, cell)
  BY DEF Init
<1>2. form \in Forms /\ code = Emission(form) /\ ip = 1 /\ m = start
  BY DEF Init
<1>3. Entered(form, start)
  BY <1>1, <1>2, EnteredAtFirst
<1>4. ~start.fault /\ Running(start)
  BY <1>3 DEF Entered, State, Running
<1>5. Len(code) \in 0 .. 7
  <2>1. CASE form.mnem \in DivOps
    <3>1. DivShape(form.mnem, code, Len(code))
      BY <1>2, <2>1, DivCode
    <3>. QED
      BY <3>1 DEF DivShape
  <2>2. CASE form.mnem = "MULHSU"
    BY <1>2, <2>2, UnsignedCode
  <2>3. CASE form.mnem \notin DivOps \cup {"MULHSU"}
    BY <1>2, <1>3, <2>3, OutcomeOfPlain DEF PlainCode, Straight
  <2>. QED
    BY <2>1, <2>2, <2>3
<1>6. Progress(code, Len(code), ip, m)
  <2> DEFINE l == Len(code)
  <2>1. l \in 0 .. 7
    BY <1>5
  <2> HIDE DEF l
  <2>2. ip = 1 /\ ip \in 1 .. l + 1 /\ ip - 1 = 0 /\ ip \in 1 .. 6
    BY <1>2, <2>1
  <2>3. DivPath(ip, m)
    BY <1>2, <1>4 DEF DivPath
  <2>4. HighPath(ip, m)
    BY <1>2, <1>4 DEF HighPath
  <2>5. PlainPath(code, l, ip, m)
    BY <1>2, <1>4, <2>2 DEF PlainPath, After
  <2>6. Progress(code, l, ip, m)
    BY <2>2, <2>3, <2>4, <2>5 DEF Progress
  <2>. QED
    BY <2>6 DEF l
<1>. QED
  BY <1>2, <1>3, <1>6 DEF CodeInv

LEMMA CodeInvNext ==
    ASSUME SizeFacts, CodeInv, [Next]_vars
    PROVE  CodeInv'
<1>1. form \in Forms /\ Entered(form, start) /\ code = Emission(form) /\ Progress(code, Len(code), ip, m)
  BY DEF CodeInv
<1>2. CASE Next
  <2> DEFINE l == Len(code)
  <2>1. form' = form /\ start' = start /\ code' = code /\ ip <= l /\ ~m.fault
    BY <1>2 DEF Next, Step, StepJump
  <2>2. Steps(code, ip, m, ip', m')
    <3>1. CASE Step
      BY <3>1 DEF Step, Steps
    <3>2. CASE StepJump
      BY <3>2 DEF StepJump, Steps
    <3>. QED
      BY <1>2, <3>1, <3>2 DEF Next
  <2> HIDE DEF l
  <2>3. ip \in 1 .. l
    <3>1. ip \in 1 .. l + 1
      BY <1>1, Finished DEF l
    <3>2. l \in Nat
      <4>1. ASSUME NEW c, c = Emission(form), NEW k, k = Len(c)
            PROVE  k \in Nat
        <5>1. CASE form.mnem \in DivOps
          <6>1. DivShape(form.mnem, c, k)
            BY <1>1, <4>1, <5>1, DivCode
          <6>. QED
            BY <6>1 DEF DivShape
        <5>2. CASE form.mnem = "MULHSU"
          BY <1>1, <4>1, <5>2, UnsignedCode
        <5>3. CASE form.mnem \notin DivOps \cup {"MULHSU"}
          BY <1>1, <4>1, <5>3, OutcomeOfPlain DEF PlainCode, Straight
        <5>. QED
          BY <5>1, <5>2, <5>3
      <4>. QED
        BY <1>1, <4>1 DEF l
    <3>. QED
      BY <2>1, <3>1, <3>2
  <2>4. Progress(code, Len(code), ip', m')
    BY <1>1, <2>1, <2>2, <2>3, Progresses DEF l
  <2>5. Progress(code, Len(code), ip, m)'
    BY <2>1, <2>4, ProgressKept
  <2>. QED
    BY <1>1, <2>1, <2>5 DEF CodeInv, Entered
<1>3. CASE UNCHANGED vars
  <2>1. form' = form /\ start' = start /\ code' = code /\ ip' = ip /\ m' = m
    BY <1>3 DEF vars
  <2>2. Progress(code, Len(code), ip, m)'
    BY <1>1, <2>1, ProgressKept
  <2>. QED
    BY <1>1, <2>1, <2>2 DEF CodeInv, Entered
<1>. QED
  BY <1>2, <1>3

LEMMA CodeInvEnds ==
    ASSUME SizeFacts, CodeInv
    PROVE  ComputesResult /\ OthersKept /\ TrapsOnOverflow
<1>1. /\ ip = Len(code) + 1 => Outcome(m) /\ ~Overflows
      /\ m.fault => Overflows
  BY Finished DEF CodeInv
<1>2. Done <=> ip = Len(code) + 1
  BY DEF Done
<1>3. Outcome(m) => /\ WritesRd => m.reg[regDest(form)] = Result
                    /\ Accesses(form) => m.mem = OneWord(W(Operand1 + form.imm), NewCell)
                    /\ \A h \in Relied : m.reg[h] = start.reg[h]
  BY DEF Outcome
<1>. QED
  BY <1>1, <1>2, <1>3 DEF ComputesResult, OthersKept, TrapsOnOverflow

-----------------------------------------------------------------------------

\* Whatever the instruction, its operands' registers and values, the emitted
\* code is always on the way to the guest instruction's result.
THEOREM CodeInvHolds ==
    ASSUME SizeFacts
    PROVE  Spec => []CodeInv
<1>1. Init => CodeInv
  BY CodeInvInit
<1>2. CodeInv /\ [Next]_vars => CodeInv'
  BY CodeInvNext
<1>. QED
  BY <1>1, <1>2, PTL DEF Spec

\* When the emitted code of translate_arithmetic.c, translate_loadstore.c,
\* translate_m_ext.c and translate_a_ext.c has run, rd and memory hold what the
\* guest instruction computes, for words of any width.
THEOREM ComputesResultHolds ==
    ASSUME SizeFacts
    PROVE  Spec => []ComputesResult
<1>1. Spec => []CodeInv
  BY CodeInvHolds
<1>2. CodeInv => ComputesResult
  BY CodeInvEnds
<1>. QED
  BY <1>1, <1>2, PTL

\* The emitted code changes no register that the translator takes for unchanged:
\* an operand that stays in its register, a mapped register, the scratch register.
THEOREM OthersKeptHolds ==
    ASSUME SizeFacts
    PROVE  Spec => []OthersKept
<1>1. Spec => []CodeInv
  BY CodeInvHolds
<1>2. CodeInv => OthersKept
  BY CodeInvEnds
<1>. QED
  BY <1>1, <1>2, PTL

\* The emitted code traps for the signed division that overflows, always then and
\* never otherwise: no zero divisor reaches the IDIV and DIV of translate_m_ext.c.
THEOREM TrapsOnOverflowHolds ==
    ASSUME SizeFacts
    PROVE  Spec => []TrapsOnOverflow
<1>1. Spec => []CodeInv
  BY CodeInvHolds
<1>2. CodeInv => TrapsOnOverflow
  BY CodeInvEnds
<1>. QED
  BY <1>1, <1>2, PTL

-----------------------------------------------------------------------------
(* Floating point instructions: what their code writes. *)

CONSTANTS fp_map, FpUnmapped, FpForms, Valuations(_), Stales, NaN, PRECISION, MantS, MantD

Fp == INSTANCE FloatCode WITH Forms <- FpForms

\* The host instructions of these emissions, by what they do to registers.
Quiet == {"COMIS", "CMP", "TEST", "STORE"}
Writers == Fp!ArithOps \cup {"SETA", "SETNC", "SETNP", "SETS", "SETNS"}
           \cup {"FMOV", "FZERO", "FCONST", "CVT", "CVTSI", "CMOVNZ", "NOT", "ROR1", "BTC", "BTR", "DEC8",
                 "AND8", "SHR8", "SHL8", "SHL16", "AND", "SHL", "MOV", "OR", "XOR", "SHR", "MOVSX", "LOAD"}

\* An instruction, a code that writes no register but those of D.
Harmless(e, D) ==
    \/ e.op \in Fp!JumpOps /\ e.i \in Nat
    \/ e.op \in Quiet
    \/ e.op \in Writers /\ e.d \in D
Within(c, D) == c = [k \in 1 .. Len(c) |-> c[k]] /\ Len(c) \in Nat /\ \A k \in 1 .. Len(c) : Harmless(c[k], D)

-----------------------------------------------------------------------------
(* One step. *)

Machine(s) == /\ s = [reg |-> s.reg, mem |-> s.mem, flags |-> s.flags, fault |-> s.fault]
              /\ s.reg = [h \in Fp!Hosts |-> s.reg[h]]

\* t has the registers of s, but for those in D.
KeepsRegs(s, t, D) == Machine(t) /\ \A h \in Fp!Hosts \ D : t.reg[h] = s.reg[h]

LEMMA SetKeeps ==
    ASSUME NEW s, Machine(s), NEW d, NEW v, NEW D, d \in D
    PROVE  /\ KeepsRegs(s, Fp!Set(s, d, v), D)
           /\ \A g : KeepsRegs(s, [Fp!Set(s, d, v) EXCEPT !.flags = g], D)
<1> DEFINE t == Fp!Set(s, d, v)
           r == [s.reg EXCEPT ![d] = v]
<1>1. t = [reg |-> r, mem |-> s.mem, flags |-> s.flags, fault |-> s.fault]
  BY DEF Fp!Set, Machine
<1>2. r = [h \in Fp!Hosts |-> r[h]] /\ \A h \in Fp!Hosts \ D : r[h] = s.reg[h]
  BY DEF Machine
<1> HIDE DEF t, r
<1>3. KeepsRegs(s, t, D)
  BY <1>1, <1>2 DEF KeepsRegs, Machine
<1>4. ASSUME NEW g PROVE KeepsRegs(s, [t EXCEPT !.flags = g], D)
  <2>1. [t EXCEPT !.flags = g] = [reg |-> r, mem |-> s.mem, flags |-> g, fault |-> s.fault]
    BY <1>1
  <2>. QED
    BY <1>2, <2>1 DEF KeepsRegs, Machine
<1>. QED
  BY <1>3, <1>4 DEF t

\* What the instructions write, and where.
LEMMA WritersWrite ==
    ASSUME NEW s, NEW e, e.op \in Writers
    PROVE  \E v, g : Fp!PerformFloat(s, e) \in {Fp!Set(s, e.d, v), [Fp!Set(s, e.d, v) EXCEPT !.flags = g]}
<1>1. CASE e.op \in Fp!ArithOps
  <2>1. /\ e.op \notin {"FMOV", "FZERO", "FCONST", "COMIS", "CVT", "CVTSI", "CMOVNZ", "NOT", "ROR1", "BTC", "BTR",
                        "DEC8", "AND8", "SHR8", "SHL8", "SHL16", "AND", "SHL"}
        /\ e.op \notin DOMAIN Fp!SetOps
    BY <1>1 DEF Fp!ArithOps, Fp!SetOps
  <2>2. Fp!PerformFloat(s, e) = Fp!Set(s, e.d, Fp!Float(e.op, s.reg[e.d], s.reg[e.s]))
    BY <1>1, <2>1 DEF Fp!PerformFloat
  <2>. QED
    BY <2>2
<1>2. CASE e.op \in {"SETA", "SETNC", "SETNP", "SETS", "SETNS"}
  <2>1. e.op \in DOMAIN Fp!SetOps
    BY <1>2 DEF Fp!SetOps
  <2>2. Fp!PerformFloat(s, e) = Fp!SetPart(s, e.d, BYTE, Fp!If(Fp!Flag(Fp!SetOps[e.op], s.flags)))
    BY <1>2, <2>1 DEF Fp!PerformFloat, Fp!ArithOps
  <2>. QED
    BY <2>2 DEF Fp!SetPart
<1>3. CASE e.op \in {"FMOV", "FZERO", "FCONST", "CVT", "CVTSI", "CMOVNZ", "NOT", "ROR1", "BTC", "BTR", "DEC8",
                     "AND8", "SHR8", "SHL8", "SHL16"}
  <2>1. e.op \notin Fp!ArithOps /\ e.op \notin DOMAIN Fp!SetOps
    BY <1>3 DEF Fp!SetOps, Fp!ArithOps
  <2>. QED
    BY <1>3, <2>1 DEF Fp!PerformFloat, Fp!SetPart
<1>4. ASSUME e.op \in {"AND", "SHL", "MOV", "OR", "XOR", "SHR", "MOVSX", "LOAD"}
      PROVE  \E v : Fp!Perform(s, e) = Fp!Set(s, e.d, v)
  BY <1>4 DEF Fp!Perform, Fp!AluOps
<1>5. CASE e.op \in {"MOV", "OR", "XOR", "SHR", "MOVSX", "LOAD"}
  <2>1. Fp!PerformFloat(s, e) = Fp!Perform(s, e)
    BY <1>5 DEF Fp!PerformFloat, Fp!SetOps, Fp!ArithOps
  <2>. QED
    BY <1>4, <1>5, <2>1
<1>6. CASE e.op \in {"AND", "SHL"}
  <2>1. \E g : Fp!PerformFloat(s, e) = [Fp!Perform(s, e) EXCEPT !.flags = g]
    BY <1>6 DEF Fp!PerformFloat, Fp!SetOps, Fp!ArithOps
  <2>. QED
    BY <1>4, <1>6, <2>1
<1>. QED
  BY <1>1, <1>2, <1>3, <1>5, <1>6 DEF Writers

LEMMA QuietWrite ==
    ASSUME NEW s, Machine(s), NEW e, e.op \in Quiet
    PROVE  LET t == Fp!PerformFloat(s, e) IN Machine(t) /\ t.reg = s.reg
<1>1. CASE e.op = "COMIS"
  <2>1. \E g : Fp!PerformFloat(s, e) = [s EXCEPT !.flags = g]
    BY <1>1 DEF Fp!PerformFloat, Fp!SetOps, Fp!ArithOps
  <2>. QED
    BY <2>1 DEF Machine
<1>2. ASSUME e.op \in {"CMP", "TEST", "STORE"} PROVE Fp!PerformFloat(s, e) = Fp!Perform(s, e)
  BY <1>2 DEF Fp!PerformFloat, Fp!SetOps, Fp!ArithOps
<1>3. CASE e.op \in {"CMP", "TEST"}
  <2>1. \E g : Fp!Perform(s, e) = [s EXCEPT !.flags = g]
    BY <1>3 DEF Fp!Perform, Fp!AluOps
  <2>. QED
    BY <1>2, <1>3, <2>1 DEF Machine
<1>4. CASE e.op = "STORE"
  <2>1. \E g : Fp!Perform(s, e) = [s EXCEPT !.mem = g]
    BY <1>4 DEF Fp!Perform, Fp!AluOps, Fp!StoreAt
  <2>. QED
    BY <1>2, <1>4, <2>1 DEF Machine
<1>. QED
  BY <1>1, <1>3, <1>4 DEF Quiet

LEMMA StepKeeps ==
    ASSUME NEW s, Machine(s), NEW e, NEW D, Harmless(e, D), e.op \notin Fp!JumpOps
    PROVE  KeepsRegs(s, Fp!PerformFloat(s, e), D)
<1>1. CASE e.op \in Quiet
  BY <1>1, QuietWrite DEF KeepsRegs
<1>2. CASE e.op \in Writers /\ e.d \in D
  <2>1. PICK v, g : Fp!PerformFloat(s, e) \in {Fp!Set(s, e.d, v), [Fp!Set(s, e.d, v) EXCEPT !.flags = g]}
    BY <1>2, WritersWrite
  <2>2. KeepsRegs(s, Fp!Set(s, e.d, v), D) /\ KeepsRegs(s, [Fp!Set(s, e.d, v) EXCEPT !.flags = g], D)
    BY <1>2, SetKeeps
  <2>. QED
    BY <2>1, <2>2
<1>. QED
  BY <1>1, <1>2 DEF Harmless

-----------------------------------------------------------------------------
(* Codes put together. *)

LEMMA InsHarmless ==
    ASSUME NEW D, NEW op, NEW w, NEW d, NEW s, NEW i, op \in Quiet \/ (op \in Writers /\ d \in D)
    PROVE  /\ Harmless(Fp!Ins(op, w, d, s, i), D)
           /\ Harmless(Fp!RR(op, w, d, s), D)
           /\ Harmless(Fp!RI(op, w, d, i), D)
           /\ Harmless(Fp!R1(op, w, d), D)
BY DEF Harmless, Fp!Ins, Fp!RR, Fp!RI, Fp!R1

LEMMA JumpHarmless ==
    ASSUME NEW D, NEW op \in Fp!JumpOps, NEW n \in Nat
    PROVE  Harmless(Fp!Jump(op, n), D)
BY DEF Harmless, Fp!Jump, Fp!Ins

LEMMA Short ==
    ASSUME NEW D
    PROVE  /\ Within(<<>>, D)
           /\ \A e : Harmless(e, D) => Within(<<e>>, D)
BY DEF Within

LEMMA JoinedWithin ==
    ASSUME NEW D, NEW c, Within(c, D), NEW u, Within(u, D)
    PROVE  Within(c \o u, D)
<1> DEFINE S == {c[k] : k \in 1 .. Len(c)} \cup {u[k] : k \in 1 .. Len(u)}
           x == c \o u
<1>1. c \in Seq(S) /\ u \in Seq(S)
  <2>1. c \in [1 .. Len(c) -> S] /\ u \in [1 .. Len(u) -> S] /\ Len(c) \in Nat /\ Len(u) \in Nat
    BY DEF Within
  <2>. QED
    BY <2>1
<1> HIDE DEF S
<1>2. x \in Seq(S) /\ Len(x) = Len(c) + Len(u)
  BY <1>1
<1>3. \A k \in 1 .. Len(x) : x[k] = IF k <= Len(c) THEN c[k] ELSE u[k - Len(c)]
  BY <1>1
<1> HIDE DEF x
<1>4. x = [k \in 1 .. Len(x) |-> x[k]] /\ Len(x) \in Nat
  BY <1>2
<1>5. ASSUME NEW k \in 1 .. Len(x) PROVE Harmless(x[k], D)
  <2>1. Len(c) \in Nat /\ Len(u) \in Nat
    BY DEF Within
  <2>2. CASE k <= Len(c)
    <3>1. k \in 1 .. Len(c) /\ x[k] = c[k]
      BY <1>3, <2>1, <2>2
    <3>. QED
      BY <3>1 DEF Within
  <2>3. CASE ~(k <= Len(c))
    <3>1. k - Len(c) \in 1 .. Len(u) /\ x[k] = u[k - Len(c)]
      BY <1>2, <1>3, <2>1, <2>3
    <3>. QED
      BY <3>1 DEF Within
  <2>. QED
    BY <2>2, <2>3
<1>6. Within(x, D)
  BY <1>4, <1>5 DEF Within
<1>. QED
  BY <1>6 DEF x

LEMMA Pair ==
    ASSUME NEW D, NEW a, NEW b, Harmless(a, D), Harmless(b, D)
    PROVE  Within(<<a, b>>, D)
BY DEF Within

LEMMA Triple ==
    ASSUME NEW D, NEW a, NEW b, NEW c, Harmless(a, D), Harmless(b, D), Harmless(c, D)
    PROVE  Within(<<a, b, c>>, D)
BY DEF Within

LEMMA Quadruple ==
    ASSUME NEW D, NEW a, NEW b, NEW c, NEW d,
           Harmless(a, D), Harmless(b, D), Harmless(c, D), Harmless(d, D)
    PROVE  Within(<<a, b, c, d>>, D)
BY DEF Within

LEMMA Jumps ==
    ASSUME NEW D, NEW cc \in Fp!JumpOps, NEW fall, Within(fall, D), NEW taken, Within(taken, D)
    PROVE  Within(Fp!SkipIf(cc, fall), D) /\ Within(Fp!Branch(cc, fall, taken), D)
<1>1. Len(fall) \in Nat /\ Len(taken) \in Nat /\ Len(fall) + 1 \in Nat /\ "ALWAYS" \in Fp!JumpOps
  BY DEF Within, Fp!JumpOps
<1>2. /\ Within(<<Fp!Jump(cc, Len(fall))>>, D) /\ Within(<<Fp!Jump(cc, Len(fall) + 1)>>, D)
      /\ Within(<<Fp!Jump("ALWAYS", Len(taken))>>, D)
  BY <1>1, JumpHarmless, Short
<1> DEFINE j == <<Fp!Jump(cc, Len(fall))>>
           k == <<Fp!Jump(cc, Len(fall) + 1)>>
           l == <<Fp!Jump("ALWAYS", Len(taken))>>
<1>3. Fp!SkipIf(cc, fall) = j \o fall /\ Fp!Branch(cc, fall, taken) = ((k \o fall) \o l) \o taken
  BY DEF Fp!SkipIf, Fp!Branch
<1> HIDE DEF j, k, l
<1>4. Within(j, D) /\ Within(k, D) /\ Within(l, D)
  BY <1>2 DEF j, k, l
<1>5. Within(j \o fall, D) /\ Within(k \o fall, D)
  BY <1>4, JoinedWithin
<1>6. Within((k \o fall) \o l, D)
  BY <1>4, <1>5, JoinedWithin
<1>7. Within(((k \o fall) \o l) \o taken, D)
  BY <1>6, JoinedWithin
<1>. QED
  BY <1>3, <1>5, <1>7

\* The pieces that move a floating point register.
LEMMA Pieces ==
    ASSUME NEW D, NEW r, NEW p, NEW s, NEW op
    PROVE  /\ p \in D => Within(Fp!getFpReg(r, p), D) /\ Within(Fp!FMove(p, s), D)
           /\ r \in Fp!fp_mapped \/ r \in D => Within(Fp!setFpReg(r, s), D)
           /\ op \in Quiet \/ (op \in Writers /\ p \in D) => Within(Fp!F(op, p, s), D)
<1>1. "FMOV" \in Writers
  BY DEF Writers
<1>2. p \in D => Within(<<Fp!RR("FMOV", XLEN, p, r)>>, D) /\ Within(<<Fp!RR("FMOV", XLEN, p, s)>>, D)
  BY <1>1, InsHarmless, Short
<1>3. r \in D => Within(<<Fp!RR("FMOV", XLEN, r, s)>>, D)
  BY <1>1, InsHarmless, Short
<1>4. op \in Quiet \/ (op \in Writers /\ p \in D) => Within(<<Fp!RR(op, XLEN, p, s)>>, D)
  BY InsHarmless, Short
<1>5. Within(<<>>, D)
  BY Short
<1>. QED
  BY <1>2, <1>3, <1>4, <1>5 DEF Fp!getFpReg, Fp!FMove, Fp!setFpReg, Fp!F

LEMMA Joined3 ==
    ASSUME NEW D, NEW a, Within(a, D), NEW b, Within(b, D), NEW c, Within(c, D)
    PROVE  Within(a \o b \o c, D)
BY JoinedWithin, Zenon

LEMMA Joined4 ==
    ASSUME NEW D, NEW a, Within(a, D), NEW b, Within(b, D), NEW c, Within(c, D), NEW d, Within(d, D)
    PROVE  Within(a \o b \o c \o d, D)
BY Joined3, JoinedWithin, Zenon

LEMMA Joined5 ==
    ASSUME NEW D, NEW a, Within(a, D), NEW b, Within(b, D), NEW c, Within(c, D), NEW d, Within(d, D),
           NEW e, Within(e, D)
    PROVE  Within(a \o b \o c \o d \o e, D)
BY Joined4, JoinedWithin, Zenon

\* D has the places of a floating point result, of an integer result.
FpResult(f, D) == {"FIRST", "SECOND", Fp!fpPlace(f.rd)} \subseteq D
GpResult(f, D) == {"FIRST", "SECOND", Fp!regGp(f, f.rd)} \subseteq D

LEMMA ResultPlace ==
    ASSUME NEW D, NEW f, FpResult(f, D)
    PROVE  /\ "FIRST" \in D /\ "SECOND" \in D
           /\ Fp!getFpRegNoLoad(f.rd, "FIRST") \in D /\ Fp!getFpRegNoLoad(f.rd, "SECOND") \in D
           /\ \A s : Within(Fp!setFpReg(f.rd, s), D)
<1>1. f.rd \in Fp!fp_mapped \/ f.rd \in D
  BY DEF FpResult, Fp!fpPlace, Fp!getFpRegNoLoad
<1>2. \A s : Within(Fp!setFpReg(f.rd, s), D)
  BY <1>1, Pieces
<1>. QED
  BY <1>2 DEF FpResult, Fp!fpPlace, Fp!getFpRegNoLoad

\* Arithmetic.
LEMMA CommutativeWithin ==
    ASSUME NEW D, NEW f, FpResult(f, D), NEW op \in Writers
    PROVE  Within(Fp!Commutative(f, op), D)
<1> DEFINE s1 == Fp!getFpRegNoLoad(f.rs1, "FIRST")
           s2 == Fp!getFpRegNoLoad(f.rs2, "SECOND")
           d == Fp!getFpRegNoLoad(f.rd, "FIRST")
<1>1. Fp!Commutative(f, op) = Fp!getFpReg(f.rs1, "FIRST") \o Fp!getFpReg(f.rs2, "SECOND")
                              \o Fp!doFpArithmCommutative(s1, s2, d, op) \o Fp!setFpReg(f.rd, d)
  BY DEF Fp!Commutative
<1>2. "FIRST" \in D /\ "SECOND" \in D /\ d \in D /\ Within(Fp!setFpReg(f.rd, d), D)
  BY ResultPlace
<1> HIDE DEF s1, s2, d
<1>3. Within(Fp!getFpReg(f.rs1, "FIRST"), D) /\ Within(Fp!getFpReg(f.rs2, "SECOND"), D)
  BY <1>2, Pieces
<1>4. Within(Fp!doFpArithmCommutative(s1, s2, d, op), D)
  <2>1. Within(Fp!F(op, d, s1), D) /\ Within(Fp!F(op, d, s2), D) /\ Within(Fp!FMove(d, s1), D)
    BY <1>2, Pieces
  <2>2. Within(Fp!FMove(d, s1) \o Fp!F(op, d, s2), D)
    BY <2>1, JoinedWithin
  <2>. QED
    BY <2>1, <2>2, Zenon DEF Fp!doFpArithmCommutative
<1>. QED
  BY <1>1, <1>2, <1>3, <1>4, Joined4

LEMMA IntoDestWithin ==
    ASSUME NEW D, NEW f, FpResult(f, D), NEW op \in Writers
    PROVE  Within(Fp!IntoDest(f, op), D)
<1> DEFINE d == Fp!getFpRegNoLoad(f.rd, "FIRST")
           s2 == Fp!getFpRegNoLoad(f.rs2, "SECOND")
           s1 == Fp!getFpRegNoLoad(f.rs1, d)
           saved == IF s2 = d THEN "SECOND" ELSE s2
<1>1. Fp!IntoDest(f, op) = Fp!getFpReg(f.rs2, "SECOND") \o Fp!FMove(saved, s2)
                           \o Fp!getFpReg(f.rs1, d) \o Fp!FMove(d, s1) \o Fp!F(op, d, saved)
  BY DEF Fp!IntoDest
<1>2. "SECOND" \in D /\ d \in D
  BY ResultPlace
<1>3. Within(Fp!FMove(saved, s2), D)
  <2>1. saved \in D \/ saved = s2
    BY <1>2
  <2>2. Within(<<>>, D)
    BY Short
  <2>. QED
    BY <2>1, <2>2, Pieces DEF Fp!FMove
<1> HIDE DEF s1, s2, d, saved
<1>4. /\ Within(Fp!getFpReg(f.rs2, "SECOND"), D) /\ Within(Fp!getFpReg(f.rs1, d), D)
      /\ Within(Fp!FMove(d, s1), D) /\ Within(Fp!F(op, d, saved), D)
  BY <1>2, Pieces
<1>. QED
  BY <1>1, <1>3, <1>4, Joined5

LEMMA DivSubWithin ==
    ASSUME NEW D, NEW f, FpResult(f, D)
    PROVE  Within(Fp!FDIV(f), D) /\ Within(Fp!FSUB(f), D)
<1> DEFINE d == Fp!getFpRegNoLoad(f.rd, "FIRST")
<1>1. d \in D /\ Within(Fp!setFpReg(f.rd, d), D)
  BY ResultPlace
<1>2. "FDIV" \in Writers /\ "FSUB" \in Writers /\ "FZERO" \in Writers
  BY DEF Writers, Fp!ArithOps
<1>3. Within(Fp!IntoDest(f, "FDIV"), D) /\ Within(Fp!IntoDest(f, "FSUB"), D)
  BY <1>2, IntoDestWithin
<1>4. Within(Fp!F("FZERO", d, d), D)
  BY <1>1, <1>2, Pieces
<1> HIDE DEF d
<1>5. /\ Within(Fp!IntoDest(f, "FDIV") \o Fp!setFpReg(f.rd, d), D)
      /\ Within(Fp!IntoDest(f, "FSUB") \o Fp!setFpReg(f.rd, d), D)
      /\ Within(Fp!F("FZERO", d, d) \o Fp!setFpReg(f.rd, d), D)
  BY <1>1, <1>3, <1>4, JoinedWithin
<1>. QED
  BY <1>5, Zenon DEF Fp!FDIV, Fp!FSUB, d

LEMMA UnaryWithin ==
    ASSUME NEW D, NEW f, FpResult(f, D), NEW op \in Writers
    PROVE  Within(Fp!Unary(f, op), D)
<1> DEFINE d == Fp!getFpRegNoLoad(f.rd, "FIRST")
           s == Fp!getFpRegNoLoad(f.rs1, "FIRST")
<1>1. Fp!Unary(f, op) = Fp!getFpReg(f.rs1, "FIRST") \o Fp!F(op, d, s) \o Fp!setFpReg(f.rd, d)
  BY DEF Fp!Unary
<1>2. "FIRST" \in D /\ d \in D /\ Within(Fp!setFpReg(f.rd, d), D)
  BY ResultPlace
<1> HIDE DEF d, s
<1>3. Within(Fp!getFpReg(f.rs1, "FIRST"), D) /\ Within(Fp!F(op, d, s), D)
  BY <1>2, Pieces
<1>. QED
  BY <1>1, <1>2, <1>3, Joined3

\* Fused operations.
LEMMA ProductWithin ==
    ASSUME NEW D, "FIRST" \in D, "SECOND" \in D, NEW f
    PROVE  Within(Fp!Product(f), D)
<1> DEFINE s1 == Fp!getFpRegNoLoad(f.rs1, "SECOND")
           s2 == Fp!getFpRegNoLoad(f.rs2, "FIRST")
<1>1. Fp!Product(f) = Fp!getFpReg(f.rs1, "SECOND") \o Fp!getFpReg(f.rs2, "FIRST")
                      \o Fp!FMove("SECOND", s1) \o Fp!F("FMUL", "SECOND", s2)
  BY DEF Fp!Product
<1>2. "FMUL" \in Writers
  BY DEF Writers, Fp!ArithOps
<1> HIDE DEF s1, s2
<1>3. /\ Within(Fp!getFpReg(f.rs1, "SECOND"), D) /\ Within(Fp!getFpReg(f.rs2, "FIRST"), D)
      /\ Within(Fp!FMove("SECOND", s1), D) /\ Within(Fp!F("FMUL", "SECOND", s2), D)
  BY <1>2, Pieces
<1>. QED
  BY <1>1, <1>3, Joined4

LEMMA LessRs3Within ==
    ASSUME NEW D, NEW f, NEW d \in D, NEW p, NEW free \in D
    PROVE  Within(Fp!LessRs3(f, d, p, free), D)
<1> DEFINE s3 == Fp!getFpRegNoLoad(f.rs3, free)
           away == IF s3 = d THEN Fp!FMove(free, s3) ELSE <<>>
           other == IF s3 = d THEN free ELSE s3
<1>1. Fp!LessRs3(f, d, p, free) = Fp!getFpReg(f.rs3, free) \o away \o Fp!FMove(d, p) \o Fp!F("FSUB", d, other)
  BY DEF Fp!LessRs3
<1>2. "FSUB" \in Writers
  BY DEF Writers, Fp!ArithOps
<1>3. Within(away, D)
  BY Pieces, Short
<1> HIDE DEF s3, away, other
<1>4. /\ Within(Fp!getFpReg(f.rs3, free), D) /\ Within(Fp!FMove(d, p), D)
      /\ Within(Fp!F("FSUB", d, other), D)
  BY <1>2, Pieces
<1>. QED
  BY <1>1, <1>3, <1>4, Joined4

LEMMA FusedWithin ==
    ASSUME NEW D, NEW f, FpResult(f, D)
    PROVE  /\ Within(Fp!FMADD(f), D) /\ Within(Fp!FNMSUB(f), D)
           /\ Within(Fp!FMSUB(f), D) /\ Within(Fp!FNMADD(f), D)
<1> DEFINE d == Fp!getFpRegNoLoad(f.rd, "FIRST")
           e == Fp!getFpRegNoLoad(f.rd, "SECOND")
           s == Fp!getFpRegNoLoad(f.rs3, d)
           t == Fp!getFpRegNoLoad(f.rs3, "FIRST")
<1>1. /\ Fp!FMADD(f) = Fp!Product(f) \o Fp!getFpReg(f.rs3, d) \o Fp!FMove(d, s)
                       \o Fp!F("FADD", d, "SECOND") \o Fp!setFpReg(f.rd, d)
      /\ Fp!FNMSUB(f) = Fp!Product(f) \o Fp!getFpReg(f.rs3, "FIRST") \o Fp!FMove(d, t)
                        \o Fp!F("FSUB", d, "SECOND") \o Fp!setFpReg(f.rd, d)
      /\ Fp!FMSUB(f) = Fp!Product(f) \o Fp!LessRs3(f, e, "SECOND", "FIRST") \o Fp!setFpReg(f.rd, e)
      /\ Fp!FNMADD(f) = Fp!Product(f) \o Fp!F("FZERO", "FIRST", "FIRST") \o Fp!F("FSUB", "FIRST", "SECOND")
                        \o Fp!LessRs3(f, d, "FIRST", "SECOND") \o Fp!setFpReg(f.rd, d)
  BY DEF Fp!FMADD, Fp!FNMSUB, Fp!FMSUB, Fp!FNMADD
<1>2. /\ "FIRST" \in D /\ "SECOND" \in D /\ d \in D /\ e \in D
      /\ Within(Fp!setFpReg(f.rd, d), D) /\ Within(Fp!setFpReg(f.rd, e), D)
  BY ResultPlace
<1>3. "FADD" \in Writers /\ "FSUB" \in Writers /\ "FZERO" \in Writers
  BY DEF Writers, Fp!ArithOps
<1> HIDE DEF d, e, s, t
<1>4. /\ Within(Fp!getFpReg(f.rs3, d), D) /\ Within(Fp!FMove(d, s), D) /\ Within(Fp!F("FADD", d, "SECOND"), D)
      /\ Within(Fp!getFpReg(f.rs3, "FIRST"), D) /\ Within(Fp!FMove(d, t), D)
      /\ Within(Fp!F("FSUB", d, "SECOND"), D)
      /\ Within(Fp!F("FZERO", "FIRST", "FIRST"), D) /\ Within(Fp!F("FSUB", "FIRST", "SECOND"), D)
  BY <1>2, <1>3, Pieces
<1>5. /\ Within(Fp!Product(f), D) /\ Within(Fp!LessRs3(f, e, "SECOND", "FIRST"), D)
      /\ Within(Fp!LessRs3(f, d, "FIRST", "SECOND"), D)
  BY <1>2, ProductWithin, LessRs3Within
<1>6. Within(Fp!FMADD(f), D)
  BY <1>1, <1>2, <1>4, <1>5, Joined5
<1>7. Within(Fp!FNMSUB(f), D)
  BY <1>1, <1>2, <1>4, <1>5, Joined5
<1>8. Within(Fp!FMSUB(f), D)
  BY <1>1, <1>2, <1>5, Joined3
<1>9. Within(Fp!FNMADD(f), D)
  BY <1>1, <1>2, <1>4, <1>5, Joined5
<1>. QED
  BY <1>6, <1>7, <1>8, <1>9

LEMMA MinMaxWithin ==
    ASSUME NEW D, NEW f, FpResult(f, D), NEW op \in Writers
    PROVE  Within(Fp!MinMax(f, op), D)
<1> DEFINE s1 == Fp!getFpRegNoLoad(f.rs1, "FIRST")
           s2 == Fp!getFpRegNoLoad(f.rs2, "SECOND")
           d == Fp!getFpRegNoLoad(f.rd, "FIRST")
           test1 == Fp!F("COMIS", s1, s1) \o Fp!SkipIf("P", Fp!F(op, d, s1))
           test2 == Fp!F("COMIS", s2, s2) \o Fp!SkipIf("P", Fp!F(op, d, s2))
           test == Fp!F("COMIS", s2, s2)
                   \o Fp!Branch("P", Fp!FMove(d, s1) \o Fp!F(op, d, s2), Fp!FMove(d, s1))
           middle == IF s1 = s2 THEN Fp!FMove(d, s1)
                     ELSE IF s2 = d THEN test1 ELSE IF s1 = d THEN test2 ELSE test
<1>1. Fp!MinMax(f, op) = Fp!getFpReg(f.rs1, "FIRST") \o Fp!getFpReg(f.rs2, "SECOND") \o middle
                         \o Fp!setFpReg(f.rd, d)
  BY Zenon DEF Fp!MinMax
<1>2. "FIRST" \in D /\ "SECOND" \in D /\ d \in D /\ Within(Fp!setFpReg(f.rd, d), D)
  BY ResultPlace
<1>3. "COMIS" \in Quiet /\ "P" \in Fp!JumpOps
  BY DEF Quiet, Fp!JumpOps
<1> HIDE DEF s1, s2, d
<1>4. /\ Within(Fp!getFpReg(f.rs1, "FIRST"), D) /\ Within(Fp!getFpReg(f.rs2, "SECOND"), D)
      /\ Within(Fp!FMove(d, s1), D) /\ Within(Fp!F(op, d, s1), D) /\ Within(Fp!F(op, d, s2), D)
      /\ Within(Fp!F("COMIS", s1, s1), D) /\ Within(Fp!F("COMIS", s2, s2), D)
  BY <1>2, <1>3, Pieces
<1>5. Within(Fp!FMove(d, s1) \o Fp!F(op, d, s2), D)
  BY <1>4, JoinedWithin
<1>6. /\ Within(Fp!SkipIf("P", Fp!F(op, d, s1)), D) /\ Within(Fp!SkipIf("P", Fp!F(op, d, s2)), D)
      /\ Within(Fp!Branch("P", Fp!FMove(d, s1) \o Fp!F(op, d, s2), Fp!FMove(d, s1)), D)
  BY <1>3, <1>4, <1>5, Jumps
<1>7. Within(test1, D) /\ Within(test2, D) /\ Within(test, D)
  BY <1>4, <1>6, JoinedWithin
<1>8. Within(middle, D)
  BY <1>4, <1>7, Zenon
<1> HIDE DEF middle
<1>. QED
  BY <1>1, <1>2, <1>4, <1>8, Joined4


\* Bits.
LEMMA Joined6 ==
    ASSUME NEW D, NEW a, Within(a, D), NEW b, Within(b, D), NEW c, Within(c, D), NEW d, Within(d, D),
           NEW e, Within(e, D), NEW g, Within(g, D)
    PROVE  Within(a \o b \o c \o d \o e \o g, D)
BY Joined5, JoinedWithin, Zenon

LEMMA InjectWithin ==
    ASSUME NEW D, NEW f, FpResult(f, D), {"AX", "DX", "CX"} \subseteq D, NEW sign, Within(sign, D)
    PROVE  Within(Fp!InjectS(f, sign), D) /\ Within(Fp!InjectD(f, sign), D)
<1> DEFINE s1 == Fp!getFpRegNoLoad(f.rs1, "FIRST")
           s2 == Fp!getFpRegNoLoad(f.rs2, "SECOND")
           d == Fp!getFpRegNoLoad(f.rd, "FIRST")
           inS == <<Fp!RR("MOV", HALF, "AX", s1), Fp!RR("MOV", HALF, "DX", s2)>>
           outS == <<Fp!RI("AND", HALF, "AX", Fp!NoSign(HALF)), Fp!RI("AND", HALF, "DX", Fp!SignBit(HALF)),
                     Fp!RR("OR", HALF, "AX", "DX"), Fp!RR("MOV", HALF, d, "AX")>>
           inD == <<Fp!RR("MOV", XLEN, "AX", s1), Fp!RR("MOV", XLEN, "CX", s2), Fp!RI("MOV", XLEN, "DX", 1),
                    Fp!R1("ROR1", XLEN, "DX")>>
           outD == <<Fp!RI("BTR", XLEN, "AX", XLEN - 1), Fp!RR("AND", XLEN, "CX", "DX"),
                     Fp!RR("OR", XLEN, "AX", "CX"), Fp!RR("MOV", XLEN, d, "AX")>>
<1>1. /\ Fp!InjectS(f, sign) = Fp!getFpReg(f.rs1, "FIRST") \o Fp!getFpReg(f.rs2, "SECOND") \o inS \o sign
                               \o outS \o Fp!setFpReg(f.rd, d)
      /\ Fp!InjectD(f, sign) = Fp!getFpReg(f.rs1, "FIRST") \o Fp!getFpReg(f.rs2, "SECOND") \o inD \o sign
                               \o outD \o Fp!setFpReg(f.rd, d)
  BY DEF Fp!InjectS, Fp!InjectD
<1>2. "FIRST" \in D /\ "SECOND" \in D /\ d \in D /\ Within(Fp!setFpReg(f.rd, d), D)
  BY ResultPlace
<1>3. {"MOV", "AND", "OR", "ROR1", "BTR"} \subseteq Writers
  BY DEF Writers
<1> HIDE DEF s1, s2, d
<1>4. Within(inS, D)
  BY <1>3, InsHarmless, Pair
<1>5. Within(outS, D)
  BY <1>2, <1>3, InsHarmless, Quadruple
<1>6. Within(inD, D)
  BY <1>3, InsHarmless, Quadruple
<1>7. Within(outD, D)
  BY <1>2, <1>3, InsHarmless, Quadruple
<1>8. Within(Fp!getFpReg(f.rs1, "FIRST"), D) /\ Within(Fp!getFpReg(f.rs2, "SECOND"), D)
  BY <1>2, Pieces
<1> HIDE DEF inS, outS, inD, outD
<1>9. Within(Fp!InjectS(f, sign), D)
  BY <1>1, <1>2, <1>4, <1>5, <1>8, Joined6
<1>10. Within(Fp!InjectD(f, sign), D)
  BY <1>1, <1>2, <1>6, <1>7, <1>8, Joined6
<1>. QED
  BY <1>9, <1>10

LEMMA MoveWithin ==
    ASSUME NEW D, NEW f, FpResult(f, D)
    PROVE  Within(Fp!MoveFloat(f), D)
<1> DEFINE d == Fp!getFpRegNoLoad(f.rd, "FIRST")
           s == Fp!getFpRegNoLoad(f.rs1, "FIRST")
<1>1. Fp!MoveFloat(f) = Fp!getFpReg(f.rs1, "FIRST") \o Fp!FMove(d, s) \o Fp!setFpReg(f.rd, d)
  BY DEF Fp!MoveFloat
<1>2. "FIRST" \in D /\ d \in D /\ Within(Fp!setFpReg(f.rd, d), D)
  BY ResultPlace
<1> HIDE DEF d, s
<1>3. Within(Fp!getFpReg(f.rs1, "FIRST"), D) /\ Within(Fp!FMove(d, s), D)
  BY <1>2, Pieces
<1>. QED
  BY <1>1, <1>2, <1>3, Joined3

LEMMA SignWithin ==
    ASSUME NEW D, NEW f, FpResult(f, D), {"AX", "DX", "CX"} \subseteq D
    PROVE  /\ Within(Fp!FSGNJS(f), D) /\ Within(Fp!FSGNJNS(f), D) /\ Within(Fp!FSGNJXS(f), D)
           /\ Within(Fp!FSGNJD(f), D) /\ Within(Fp!FSGNJND(f), D) /\ Within(Fp!FSGNJXD(f), D)
<1>1. {"NOT", "XOR"} \subseteq Writers
  BY DEF Writers
<1>2. /\ Within(<<>>, D)
      /\ Within(<<Fp!R1("NOT", HALF, "DX")>>, D) /\ Within(<<Fp!RR("XOR", HALF, "DX", "AX")>>, D)
      /\ Within(<<Fp!R1("NOT", XLEN, "CX")>>, D) /\ Within(<<Fp!RR("XOR", XLEN, "CX", "AX")>>, D)
  BY <1>1, InsHarmless, Short
<1>3. Within(Fp!MoveFloat(f), D)
  BY MoveWithin
<1>4. Within(Fp!FSGNJS(f), D) /\ Within(Fp!FSGNJD(f), D)
  BY <1>2, <1>3, InjectWithin DEF Fp!FSGNJS, Fp!FSGNJD
<1>5. Within(Fp!FSGNJNS(f), D) /\ Within(Fp!FSGNJXS(f), D)
  BY <1>2, InjectWithin DEF Fp!FSGNJNS, Fp!FSGNJXS
<1>6. Within(Fp!FSGNJND(f), D) /\ Within(Fp!FSGNJXD(f), D)
  BY <1>2, InjectWithin DEF Fp!FSGNJND, Fp!FSGNJXD
<1>. QED
  BY <1>4, <1>5, <1>6

LEMMA ClassifyWithin ==
    ASSUME NEW D, NEW d \in D, {"DX", "CX"} \subseteq D, NEW w, NEW mant,
           NEW cmp, Harmless(cmp, D), NEW test, Within(test, D)
    PROVE  Within(Fp!Classify(d, w, mant, cmp, test), D)
<1> DEFINE zero == <<Fp!RI("MOV", XLEN, d, 8), Fp!RR("SHL8", BYTE, d, "CX")>>
           nan == <<Fp!R1("TEST", w, "DX"), Fp!RI("MOV", XLEN, d, 256), Fp!R1("SETS", BYTE, "CX"),
                    Fp!RR("SHL16", SHORT, d, "CX")>>
           shift == <<Fp!RI("SHL", w, "DX", w - mant)>>
           mantissa == test \o shift
           small == Fp!Shifted(d, 32, 3)
           large == Fp!Shifted(d, 128, 7)
           normal == Fp!Shifted(d, 64, 5)
           zeroes == mantissa \o Fp!Branch("NZ", zero, small)
           ones == mantissa \o Fp!Branch("NZ", large, nan)
           other == <<cmp>> \o Fp!Branch("Z", test \o normal, ones)
<1>1. Fp!Classify(d, w, mant, cmp, test) = Fp!Branch("Z", other, zeroes)
  BY Zenon DEF Fp!Classify
<1>2. {"MOV", "SHL8", "SETS", "SHL16", "SHL", "DEC8", "AND8", "SHR8"} \subseteq Writers /\ "TEST" \in Quiet
  BY DEF Writers, Quiet
<1>3. {"Z", "NZ"} \subseteq Fp!JumpOps
  BY DEF Fp!JumpOps
<1>4. Within(zero, D)
  BY <1>2, InsHarmless, Pair
<1>5. Within(nan, D)
  BY <1>2, InsHarmless, Quadruple
<1>6. Within(shift, D) /\ Within(<<cmp>>, D)
  BY <1>2, InsHarmless, Short
<1>7. \A class, n : Within(Fp!Shifted(d, class, n), D)
  BY <1>2, InsHarmless, Quadruple DEF Fp!Shifted
<1> HIDE DEF zero, nan, shift
<1>8. Within(small, D) /\ Within(large, D) /\ Within(normal, D)
  BY <1>7
<1> HIDE DEF small, large, normal
<1>9. Within(mantissa, D) /\ Within(test \o normal, D)
  BY <1>6, <1>8, JoinedWithin
<1>10. Within(Fp!Branch("NZ", zero, small), D) /\ Within(Fp!Branch("NZ", large, nan), D)
  BY <1>3, <1>4, <1>5, <1>8, Jumps
<1> HIDE DEF mantissa
<1>11. Within(zeroes, D) /\ Within(ones, D)
  BY <1>9, <1>10, JoinedWithin
<1> HIDE DEF zeroes, ones
<1>12. Within(Fp!Branch("Z", test \o normal, ones), D)
  BY <1>3, <1>9, <1>11, Jumps
<1>13. Within(other, D)
  BY <1>6, <1>12, JoinedWithin
<1> HIDE DEF other
<1>14. Within(Fp!Branch("Z", other, zeroes), D)
  BY <1>3, <1>11, <1>13, Jumps
<1>. QED
  BY <1>1, <1>14

LEMMA ClassWithin ==
    ASSUME NEW D, NEW f, GpResult(f, D), {"DX", "CX"} \subseteq D
    PROVE  Within(Fp!FCLASSS(f), D) /\ Within(Fp!FCLASSD(f), D)
<1> DEFINE d == Fp!regGp(f, f.rd)
           s == Fp!getFpRegNoLoad(f.rs1, "FIRST")
           onesS == 2^(HALF - 1) - 2^MantS
           onesD == 2^(XLEN - 1) - 2^MantD
           inS == <<Fp!RR("MOV", XLEN, d, s), Fp!RR("MOV", XLEN, "DX", d)>>
           cutS == <<Fp!RI("AND", HALF, d, onesS)>>
           inD == <<Fp!RR("MOV", XLEN, d, s), Fp!RR("MOV", XLEN, "DX", d),
                    Fp!RI("MOV", XLEN, "CX", onesD), Fp!RR("AND", XLEN, d, "CX")>>
           cmpS == Fp!RI("CMP", HALF, d, onesS)
           cmpD == Fp!RR("CMP", XLEN, d, "CX")
<1>1. /\ Fp!FCLASSS(f) = Fp!getFpReg(f.rs1, "FIRST") \o inS \o Fp!Sign(HALF) \o cutS
                         \o Fp!Classify(d, HALF, MantS, cmpS, <<>>)
      /\ Fp!FCLASSD(f) = Fp!getFpReg(f.rs1, "FIRST") \o inD \o Fp!Classify(d, XLEN, MantD, cmpD, Fp!Sign(XLEN))
  BY Zenon DEF Fp!FCLASSS, Fp!FCLASSD
<1>2. "FIRST" \in D /\ d \in D /\ "DX" \in D /\ "CX" \in D
  BY DEF GpResult
<1>3. {"MOV", "AND", "SETNS"} \subseteq Writers /\ {"TEST", "CMP"} \subseteq Quiet
  BY DEF Writers, Quiet
<1> HIDE DEF d, s, onesS, onesD
<1>4. Within(inS, D)
  BY <1>2, <1>3, InsHarmless, Pair
<1>5. Within(inD, D)
  BY <1>2, <1>3, InsHarmless, Quadruple
<1>6. Within(cutS, D) /\ Within(<<>>, D) /\ Harmless(cmpS, D) /\ Harmless(cmpD, D)
  BY <1>2, <1>3, InsHarmless, Short
<1>7. \A w : Within(Fp!Sign(w), D)
  BY <1>2, <1>3, InsHarmless, Pair DEF Fp!Sign
<1>8. Within(Fp!getFpReg(f.rs1, "FIRST"), D)
  BY <1>2, Pieces
<1> HIDE DEF inS, cutS, inD, cmpS, cmpD
<1>9. /\ Within(Fp!Classify(d, HALF, MantS, cmpS, <<>>), D)
      /\ Within(Fp!Classify(d, XLEN, MantD, cmpD, Fp!Sign(XLEN)), D)
  BY <1>2, <1>6, <1>7, ClassifyWithin
<1>10. Within(Fp!FCLASSS(f), D)
  BY <1>1, <1>4, <1>6, <1>7, <1>8, <1>9, Joined5
<1>11. Within(Fp!FCLASSD(f), D)
  BY <1>1, <1>5, <1>8, <1>9, Joined3
<1>. QED
  BY <1>10, <1>11

\* Moves between the register files and memory.
LEMMA TransferWithin ==
    ASSUME NEW D, NEW f, NEW w
    PROVE  /\ GpResult(f, D) => Within(Fp!FMVXW(f), D) /\ Within(Fp!FMVXD(f), D)
           /\ FpResult(f, D) => Within(Fp!FMoveFromGp(f, w), D) /\ Within(Fp!FLoad(f, w), D)
           /\ "FIRST" \in D => Within(Fp!FStore(f, w), D)
<1>1. {"MOV", "MOVSX", "LOAD"} \subseteq Writers /\ "STORE" \in Quiet
  BY DEF Writers, Quiet
<1>2. "FIRST" \in D => Within(Fp!getFpReg(f.rs1, "FIRST"), D) /\ Within(Fp!getFpReg(f.rs2, "FIRST"), D)
  BY Pieces
<1>3. ASSUME GpResult(f, D) PROVE Within(Fp!FMVXW(f), D) /\ Within(Fp!FMVXD(f), D)
  <2> DEFINE d == Fp!regGp(f, f.rd)
             s == Fp!getFpRegNoLoad(f.rs1, "FIRST")
             word == <<Fp!RR("MOV", HALF, d, s), Fp!RR("MOVSX", HALF, d, d)>>
             whole == <<Fp!RR("MOV", XLEN, d, s)>>
  <2>1. /\ Fp!FMVXW(f) = Fp!getFpReg(f.rs1, "FIRST") \o word
        /\ Fp!FMVXD(f) = Fp!getFpReg(f.rs1, "FIRST") \o whole
    BY DEF Fp!FMVXW, Fp!FMVXD
  <2>2. "FIRST" \in D /\ d \in D
    BY <1>3 DEF GpResult
  <2> HIDE DEF d, s
  <2>3. Within(word, D)
    BY <1>1, <2>2, InsHarmless, Pair
  <2>4. Within(whole, D)
    BY <1>1, <2>2, InsHarmless, Short
  <2> HIDE DEF word, whole
  <2>. QED
    BY <1>2, <2>1, <2>2, <2>3, <2>4, JoinedWithin
<1>4. ASSUME FpResult(f, D) PROVE Within(Fp!FMoveFromGp(f, w), D) /\ Within(Fp!FLoad(f, w), D)
  <2> DEFINE d == Fp!getFpRegNoLoad(f.rd, "FIRST")
             moved == <<Fp!RR("MOV", w, d, Fp!regGp(f, f.rs1))>>
             read == <<Fp!Ins("LOAD", w, d, Fp!regGp(f, f.rs1), f.imm)>>
  <2>1. /\ Fp!FMoveFromGp(f, w) = moved \o Fp!setFpReg(f.rd, d)
        /\ Fp!FLoad(f, w) = read \o Fp!setFpReg(f.rd, d)
    BY DEF Fp!FMoveFromGp, Fp!FLoad
  <2>2. d \in D /\ Within(Fp!setFpReg(f.rd, d), D)
    BY <1>4, ResultPlace
  <2> HIDE DEF d
  <2>3. Within(moved, D) /\ Within(read, D)
    BY <1>1, <2>2, InsHarmless, Short
  <2> HIDE DEF moved, read
  <2>. QED
    BY <2>1, <2>2, <2>3, JoinedWithin
<1>5. ASSUME "FIRST" \in D PROVE Within(Fp!FStore(f, w), D)
  <2> DEFINE saved == <<Fp!Ins("STORE", w, Fp!regGp(f, f.rs1), Fp!getFpRegNoLoad(f.rs2, "FIRST"), f.imm)>>
  <2>1. Fp!FStore(f, w) = Fp!getFpReg(f.rs2, "FIRST") \o saved
    BY DEF Fp!FStore
  <2>2. Within(saved, D)
    BY <1>1, InsHarmless, Short
  <2> HIDE DEF saved
  <2>. QED
    BY <1>2, <1>5, <2>1, <2>2, JoinedWithin
<1>. QED
  BY <1>3, <1>4, <1>5

\* Comparisons.
LEMMA CompareWithin ==
    ASSUME NEW D, NEW f, GpResult(f, D), NEW swapped, NEW set, Within(set, D)
    PROVE  Within(Fp!FCompare(f, swapped, set), D)
<1> DEFINE s1 == Fp!getFpRegNoLoad(f.rs1, "FIRST")
           s2 == Fp!getFpRegNoLoad(f.rs2, "SECOND")
           d == Fp!regGp(f, f.rd)
           clear == <<Fp!RR("XOR", HALF, d, d)>>
           test == IF swapped THEN Fp!F("COMIS", s2, s1) ELSE Fp!F("COMIS", s1, s2)
<1>1. Fp!FCompare(f, swapped, set) = Fp!getFpReg(f.rs1, "FIRST") \o Fp!getFpReg(f.rs2, "SECOND") \o clear
                                     \o test \o set
  BY Zenon DEF Fp!FCompare
<1>2. "FIRST" \in D /\ "SECOND" \in D /\ d \in D
  BY DEF GpResult
<1>3. "XOR" \in Writers /\ "COMIS" \in Quiet
  BY DEF Writers, Quiet
<1> HIDE DEF s1, s2, d
<1>4. Within(clear, D)
  BY <1>2, <1>3, InsHarmless, Short
<1>5. Within(Fp!F("COMIS", s2, s1), D) /\ Within(Fp!F("COMIS", s1, s2), D)
  BY <1>3, Pieces
<1>6. Within(test, D)
  BY <1>5, Zenon
<1>7. Within(Fp!getFpReg(f.rs1, "FIRST"), D) /\ Within(Fp!getFpReg(f.rs2, "SECOND"), D)
  BY <1>2, Pieces
<1> HIDE DEF clear, test
<1>. QED
  BY <1>1, <1>4, <1>6, <1>7, Joined5

LEMMA ComparisonsWithin ==
    ASSUME NEW D, NEW f, GpResult(f, D)
    PROVE  /\ Fp!invalidateOldest(Fp!regGp(f, f.rd)) \in D => Within(Fp!FEQ(f), D)
           /\ Within(Fp!FLT(f), D) /\ Within(Fp!FLE(f), D)
<1> DEFINE d == Fp!regGp(f, f.rd)
           x == Fp!invalidateOldest(d)
           equal == <<Fp!RI("MOV", XLEN, x, 0), Fp!R1("SETNP", BYTE, d), Fp!RR("CMOVNZ", XLEN, d, x)>>
           less == <<Fp!R1("SETA", BYTE, d)>>
           atMost == <<Fp!R1("SETNC", BYTE, d)>>
<1>1. /\ Fp!FEQ(f) = Fp!FCompare(f, FALSE, equal)
      /\ Fp!FLT(f) = Fp!FCompare(f, TRUE, less)
      /\ Fp!FLE(f) = Fp!FCompare(f, TRUE, atMost)
  BY DEF Fp!FEQ, Fp!FLT, Fp!FLE
<1>2. d \in D
  BY DEF GpResult
<1>3. {"MOV", "SETNP", "CMOVNZ", "SETA", "SETNC"} \subseteq Writers
  BY DEF Writers
<1> SUFFICES (x \in D => Within(Fp!FEQ(f), D)) /\ Within(Fp!FLT(f), D) /\ Within(Fp!FLE(f), D)
  OBVIOUS
<1> HIDE DEF d, x
<1>4. Within(less, D) /\ Within(atMost, D)
  BY <1>2, <1>3, InsHarmless, Short
<1>5. ASSUME x \in D PROVE Within(equal, D)
  BY <1>2, <1>3, <1>5, InsHarmless, Triple
<1> HIDE DEF equal, less, atMost
<1>. QED
  BY <1>1, <1>4, <1>5, CompareWithin

\* Conversions to an integer.
LEMMA ConvertWithin ==
    ASSUME NEW D, NEW f, NEW w, NEW d \in D, NEW s
    PROVE  Within(Fp!Convert(f, w, d, s), D)
<1>1. "CVT" \in Writers
  BY DEF Writers
<1>. QED
  BY <1>1, InsHarmless, Short DEF Fp!Convert

LEMMA SignedWithin ==
    ASSUME NEW D, NEW f, GpResult(f, D)
    PROVE  Within(Fp!FCVTW(f), D) /\ Within(Fp!FCVTL(f), D)
<1> DEFINE d == Fp!regGp(f, f.rd)
           s == Fp!getFpRegNoLoad(f.rs1, "FIRST")
           extend == <<Fp!RR("MOVSX", HALF, d, d)>>
<1>1. /\ Fp!FCVTW(f) = Fp!getFpReg(f.rs1, "FIRST") \o Fp!Convert(f, HALF, d, s) \o extend
      /\ Fp!FCVTL(f) = Fp!getFpReg(f.rs1, "FIRST") \o Fp!Convert(f, XLEN, d, s)
  BY DEF Fp!FCVTW, Fp!FCVTL
<1>2. "FIRST" \in D /\ d \in D /\ "MOVSX" \in Writers
  BY DEF GpResult, Writers
<1> HIDE DEF d, s
<1>3. Within(extend, D)
  BY <1>2, InsHarmless, Short
<1>4. \A w : Within(Fp!Convert(f, w, d, s), D)
  BY <1>2, ConvertWithin
<1>5. Within(Fp!getFpReg(f.rs1, "FIRST"), D)
  BY <1>2, Pieces
<1> HIDE DEF extend
<1>6. Within(Fp!FCVTW(f), D)
  BY <1>1, <1>3, <1>4, <1>5, Joined3
<1>7. Within(Fp!FCVTL(f), D)
  BY <1>1, <1>4, <1>5, JoinedWithin
<1>. QED
  BY <1>6, <1>7

LEMMA ZeroUnlessWithin ==
    ASSUME NEW D, "SECOND" \in D, NEW d \in D, NEW c, Within(c, D)
    PROVE  Within(Fp!ZeroUnless(d, c), D)
<1> DEFINE zero == <<Fp!R1("FZERO", XLEN, "SECOND"), Fp!RR("XOR", XLEN, d, d),
                     Fp!RR("COMIS", XLEN, "SECOND", "FIRST")>>
<1>1. Fp!ZeroUnless(d, c) = zero \o Fp!SkipIf("A", c)
  BY DEF Fp!ZeroUnless
<1>2. {"FZERO", "XOR"} \subseteq Writers /\ "COMIS" \in Quiet /\ "A" \in Fp!JumpOps
  BY DEF Writers, Quiet, Fp!JumpOps
<1>3. Within(zero, D)
  BY <1>2, InsHarmless, Triple
<1>4. Within(<<>>, D)
  BY Short
<1>5. Within(Fp!SkipIf("A", c), D)
  BY <1>2, <1>4, Jumps
<1> HIDE DEF zero
<1>. QED
  BY <1>1, <1>3, <1>5, JoinedWithin

LEMMA UnsignedWithin ==
    ASSUME NEW D, NEW f, GpResult(f, D)
    PROVE  /\ Within(Fp!FCVTWU(f), D)
           /\ f.rs1 \notin Fp!fp_mapped /\ Fp!invalidateOldest(Fp!regGp(f, f.rd)) \in D
                 => Within(Fp!FCVTLU(f), D)
<1> DEFINE d == Fp!regGp(f, f.rd)
           s == Fp!getFpRegNoLoad(f.rs1, "FIRST")
           x == Fp!invalidateOldest(d)
           zero == <<Fp!R1("FZERO", XLEN, "SECOND")>>
           half == <<Fp!RI("MOV", XLEN, x, 0), Fp!Ins("FCONST", XLEN, "SECOND", x, 2^XLEN),
                     Fp!RR("COMIS", XLEN, s, "SECOND")>>
           top == <<Fp!RI("BTC", XLEN, d, XLEN - 1)>>
           low == Fp!Convert(f, XLEN, d, s)
           high == Fp!F("FSUB", s, "SECOND") \o low \o top
           either == half \o Fp!Branch("NC", low, high)
<1>1. /\ Fp!FCVTWU(f) = Fp!getFpReg(f.rs1, "FIRST") \o Fp!ZeroUnless(d, zero \o low)
      /\ Fp!FCVTLU(f) = Fp!getFpReg(f.rs1, "FIRST") \o Fp!ZeroUnless(d, either)
  BY Zenon DEF Fp!FCVTWU, Fp!FCVTLU
<1>2. "FIRST" \in D /\ "SECOND" \in D /\ d \in D
  BY DEF GpResult
<1>3. {"FZERO", "MOV", "FCONST", "BTC", "FSUB"} \subseteq Writers /\ "COMIS" \in Quiet /\ "NC" \in Fp!JumpOps
  BY DEF Writers, Quiet, Fp!ArithOps, Fp!JumpOps
<1>4. f.rs1 \notin Fp!fp_mapped => s \in D
  BY <1>2 DEF Fp!getFpRegNoLoad
<1> SUFFICES /\ Within(Fp!FCVTWU(f), D)
             /\ f.rs1 \notin Fp!fp_mapped /\ x \in D => Within(Fp!FCVTLU(f), D)
  OBVIOUS
<1> HIDE DEF d, s, x
<1>5. Within(Fp!getFpReg(f.rs1, "FIRST"), D)
  BY <1>2, Pieces
<1>6. Within(zero, D) /\ Within(top, D)
  BY <1>2, <1>3, InsHarmless, Short
<1>7. Within(low, D)
  BY <1>2, ConvertWithin
<1> HIDE DEF zero, top, low
<1>8. Within(zero \o low, D)
  BY <1>6, <1>7, JoinedWithin
<1>9. Within(Fp!ZeroUnless(d, zero \o low), D)
  BY <1>2, <1>8, ZeroUnlessWithin
<1>10. Within(Fp!FCVTWU(f), D)
  BY <1>1, <1>5, <1>9, JoinedWithin
<1>11. ASSUME s \in D, x \in D PROVE Within(Fp!FCVTLU(f), D)
  <2>1. Within(half, D)
    BY <1>2, <1>3, <1>11, InsHarmless, Triple
  <2>2. Within(Fp!F("FSUB", s, "SECOND"), D)
    BY <1>3, <1>11, Pieces
  <2> HIDE DEF half
  <2>3. Within(high, D)
    BY <1>6, <1>7, <2>2, Joined3
  <2> HIDE DEF high
  <2>4. Within(Fp!Branch("NC", low, high), D)
    BY <1>3, <1>7, <2>3, Jumps
  <2>5. Within(either, D)
    BY <2>1, <2>4, JoinedWithin
  <2> HIDE DEF either
  <2>6. Within(Fp!ZeroUnless(d, either), D)
    BY <1>2, <2>5, ZeroUnlessWithin
  <2>. QED
    BY <1>1, <1>5, <2>6, JoinedWithin
<1>. QED
  BY <1>4, <1>10, <1>11

\* Conversions from an integer.
LEMMA FromIntegerWithin ==
    ASSUME NEW D, NEW f, FpResult(f, D), NEW w
    PROVE  /\ Within(Fp!FromSigned(f, w), D)
           /\ Fp!invalidateOldest(Fp!regGp(f, f.rs1)) \in D => Within(Fp!FromUnsignedWord(f), D)
<1> DEFINE d == Fp!getFpRegNoLoad(f.rd, "FIRST")
           s == Fp!regGp(f, f.rs1)
           x == Fp!invalidateOldest(s)
           signed == <<Fp!RR("CVTSI", w, d, s)>>
           copy == <<Fp!RR("MOV", HALF, x, s)>>
           whole == <<Fp!RR("CVTSI", XLEN, d, x)>>
<1>1. /\ Fp!FromSigned(f, w) = Fp!F("FZERO", d, d) \o signed \o Fp!setFpReg(f.rd, d)
      /\ Fp!FromUnsignedWord(f) = copy \o Fp!F("FZERO", d, d) \o whole \o Fp!setFpReg(f.rd, d)
  BY DEF Fp!FromSigned, Fp!FromUnsignedWord
<1>2. d \in D /\ Within(Fp!setFpReg(f.rd, d), D)
  BY ResultPlace
<1>3. {"FZERO", "CVTSI", "MOV"} \subseteq Writers
  BY DEF Writers
<1> SUFFICES Within(Fp!FromSigned(f, w), D) /\ (x \in D => Within(Fp!FromUnsignedWord(f), D))
  OBVIOUS
<1> HIDE DEF d, s, x
<1>4. Within(Fp!F("FZERO", d, d), D)
  BY <1>2, <1>3, Pieces
<1>5. Within(signed, D) /\ Within(whole, D) /\ (x \in D => Within(copy, D))
  BY <1>2, <1>3, InsHarmless, Short
<1> HIDE DEF signed, copy, whole
<1>6. Within(Fp!FromSigned(f, w), D)
  BY <1>1, <1>2, <1>4, <1>5, Joined3
<1>7. x \in D => Within(Fp!FromUnsignedWord(f), D)
  BY <1>1, <1>2, <1>4, <1>5, Joined4
<1>. QED
  BY <1>6, <1>7

LEMMA DoubledWithin ==
    ASSUME NEW D, {"AX", "DX"} \subseteq D, NEW s
    PROVE  Within(Fp!Doubled(s), D)
<1>1. "MOV" \in Writers
  BY DEF Writers
<1>2. /\ Within(<<Fp!RR("MOV", XLEN, "DX", s), Fp!RR("MOV", XLEN, "AX", "DX")>>, D)
      /\ Within(<<Fp!RR("MOV", XLEN, "AX", s), Fp!RR("MOV", XLEN, "DX", "AX")>>, D)
      /\ Within(<<Fp!RR("MOV", XLEN, "AX", s), Fp!RR("MOV", XLEN, "DX", s)>>, D)
  BY <1>1, InsHarmless, Pair
<1>3. CASE s = "AX"
  BY <1>2, <1>3 DEF Fp!Doubled
<1>4. CASE s = "DX"
  BY <1>2, <1>4 DEF Fp!Doubled
<1>5. CASE s \notin {"AX", "DX"}
  <2>1. Fp!Doubled(s) = <<Fp!RR("MOV", XLEN, "AX", s), Fp!RR("MOV", XLEN, "DX", s)>>
    BY <1>5 DEF Fp!Doubled
  <2>. QED
    BY <1>2, <2>1
<1>. QED
  BY <1>3, <1>4, <1>5

LEMMA HalvedWithin ==
    ASSUME NEW D, "DX" \in D, NEW d \in D
    PROVE  Within(Fp!Halved(d), D)
<1>1. {"SHR", "OR", "CVTSI", "FADD"} \subseteq Writers
  BY DEF Writers, Fp!ArithOps
<1>. QED
  BY <1>1, InsHarmless, Quadruple DEF Fp!Halved

LEMMA FromUnsignedWithin ==
    ASSUME NEW D, NEW f, FpResult(f, D), {"AX", "DX"} \subseteq D
    PROVE  Within(Fp!FCVTSLU(f), D) /\ Within(Fp!FCVTDLU(f), D)
<1> DEFINE d == Fp!getFpRegNoLoad(f.rd, "FIRST")
           s == Fp!regGp(f, f.rs1)
           testS == <<Fp!R1("TEST", XLEN, s)>>
           testD == <<Fp!R1("TEST", XLEN, "AX")>>
           plainS == <<Fp!RR("CVTSI", XLEN, d, s)>>
           plainD == <<Fp!RR("CVTSI", XLEN, d, "AX")>>
           lowS == <<Fp!RI("AND", HALF, "AX", 1), Fp!R1("FZERO", XLEN, "FIRST")>>
           lowD == <<Fp!RI("AND", HALF, "AX", 1)>>
           highS == lowS \o Fp!Halved(d)
           highD == lowD \o Fp!Halved(d)
<1>1. /\ Fp!FCVTSLU(f) = Fp!Doubled(s) \o Fp!F("FZERO", d, d) \o testS \o Fp!Branch("S", plainS, highS)
                         \o Fp!setFpReg(f.rd, d)
      /\ Fp!FCVTDLU(f) = Fp!Doubled(s) \o Fp!F("FZERO", d, d) \o testD \o Fp!Branch("S", plainD, highD)
                         \o Fp!setFpReg(f.rd, d)
  BY Zenon DEF Fp!FCVTSLU, Fp!FCVTDLU
<1>2. "FIRST" \in D /\ d \in D /\ Within(Fp!setFpReg(f.rd, d), D)
  BY ResultPlace
<1>3. {"FZERO", "CVTSI", "AND"} \subseteq Writers /\ "TEST" \in Quiet /\ "S" \in Fp!JumpOps
  BY DEF Writers, Quiet, Fp!JumpOps
<1> HIDE DEF d, s
<1>4. Within(testS, D) /\ Within(testD, D) /\ Within(plainS, D) /\ Within(plainD, D) /\ Within(lowD, D)
  BY <1>2, <1>3, InsHarmless, Short
<1>5. Within(lowS, D)
  BY <1>2, <1>3, InsHarmless, Pair
<1>6. Within(Fp!Halved(d), D) /\ Within(Fp!Doubled(s), D)
  BY <1>2, HalvedWithin, DoubledWithin
<1>7. Within(Fp!F("FZERO", d, d), D)
  BY <1>2, <1>3, Pieces
<1> HIDE DEF testS, testD, plainS, plainD, lowS, lowD
<1>8. Within(highS, D) /\ Within(highD, D)
  BY <1>4, <1>5, <1>6, JoinedWithin
<1> HIDE DEF highS, highD
<1>9. Within(Fp!Branch("S", plainS, highS), D) /\ Within(Fp!Branch("S", plainD, highD), D)
  BY <1>3, <1>4, <1>8, Jumps
<1>10. Within(Fp!FCVTSLU(f), D)
  BY <1>1, <1>2, <1>4, <1>6, <1>7, <1>9, Joined5
<1>11. Within(Fp!FCVTDLU(f), D)
  BY <1>1, <1>2, <1>4, <1>6, <1>7, <1>9, Joined5
<1>. QED
  BY <1>10, <1>11

-----------------------------------------------------------------------------
(* The emission of a form writes what it may. *)

Allowed(f) == {"FIRST", "SECOND", Fp!Dest(f)} \cup
    (CASE f.mnem \in Fp!ClassOps \cup Fp!SignOps -> {"AX", "DX", "CX"}
       [] f.mnem \in {"FCVTSLU", "FCVTDLU"} -> {"AX", "DX"}
       [] f.mnem \in {"FEQ", "FCVTLU"} -> {Fp!invalidateOldest(Fp!regGp(f, f.rd))}
       [] f.mnem = "FCVTFWU" -> {Fp!invalidateOldest(Fp!regGp(f, f.rs1))}
       [] OTHER -> {})

LEMMA Allows ==
    ASSUME NEW f
    PROVE  /\ f.mnem \notin Fp!GpDests => FpResult(f, Allowed(f))
           /\ f.mnem \in Fp!GpDests => GpResult(f, Allowed(f))
           /\ "FIRST" \in Allowed(f)
           /\ f.mnem \in Fp!ClassOps \cup Fp!SignOps => {"AX", "DX", "CX"} \subseteq Allowed(f)
           /\ f.mnem \in {"FCVTSLU", "FCVTDLU"} => {"AX", "DX"} \subseteq Allowed(f)
           /\ f.mnem \in {"FEQ", "FCVTLU"} => Fp!invalidateOldest(Fp!regGp(f, f.rd)) \in Allowed(f)
           /\ f.mnem = "FCVTFWU" => Fp!invalidateOldest(Fp!regGp(f, f.rs1)) \in Allowed(f)
<1> DEFINE more == CASE f.mnem \in Fp!ClassOps \cup Fp!SignOps -> {"AX", "DX", "CX"}
                     [] f.mnem \in {"FCVTSLU", "FCVTDLU"} -> {"AX", "DX"}
                     [] f.mnem \in {"FEQ", "FCVTLU"} -> {Fp!invalidateOldest(Fp!regGp(f, f.rd))}
                     [] f.mnem = "FCVTFWU" -> {Fp!invalidateOldest(Fp!regGp(f, f.rs1))}
                     [] OTHER -> {}
<1>1. Allowed(f) = {"FIRST", "SECOND", Fp!Dest(f)} \cup more
  BY DEF Allowed
<1>2. /\ f.mnem \in Fp!ClassOps \cup Fp!SignOps => more = {"AX", "DX", "CX"}
      /\ f.mnem \in {"FCVTSLU", "FCVTDLU"} => more = {"AX", "DX"}
      /\ f.mnem \in {"FEQ", "FCVTLU"} => more = {Fp!invalidateOldest(Fp!regGp(f, f.rd))}
      /\ f.mnem = "FCVTFWU" => more = {Fp!invalidateOldest(Fp!regGp(f, f.rs1))}
  BY DEF Fp!ClassOps, Fp!SignOps
<1> HIDE DEF more
<1>3. /\ f.mnem \notin Fp!GpDests => FpResult(f, Allowed(f))
      /\ f.mnem \in Fp!GpDests => GpResult(f, Allowed(f))
  BY <1>1 DEF FpResult, GpResult, Fp!Dest
<1>. QED
  BY <1>1, <1>2, <1>3

LEMMA EmissionWithin ==
    ASSUME Fp!FormsAssumption, NEW f \in FpForms
    PROVE  Within(Fp!Emission(f), Allowed(f))
<1> DEFINE D == Allowed(f)
<1> USE DEF Fp!Emission, Fp!GpDests, Fp!CompareOps, Fp!ClassOps, Fp!FromFloatOps
<1>1. CASE f.mnem \in {"FADD", "FMUL"}
  <2>1. FpResult(f, D) /\ f.mnem \in Writers
    BY <1>1, Allows DEF Writers, Fp!ArithOps
  <2>2. Fp!Emission(f) = Fp!Commutative(f, f.mnem)
    BY <1>1
  <2>. QED
    BY <2>1, <2>2, CommutativeWithin
<1>2. CASE f.mnem \in {"FSUB", "FDIV"}
  <2>1. FpResult(f, D)
    BY <1>2, Allows
  <2>2. Fp!Emission(f) = Fp!FSUB(f) \/ Fp!Emission(f) = Fp!FDIV(f)
    BY <1>2
  <2>. QED
    BY <2>1, <2>2, DivSubWithin
<1>3. CASE f.mnem \in {"FSQRT", "FCVTDS", "FCVTSD"}
  <2>1. FpResult(f, D) /\ f.mnem \in Writers
    BY <1>3, Allows DEF Writers, Fp!ArithOps
  <2>2. Fp!Emission(f) = Fp!Unary(f, f.mnem)
    BY <1>3
  <2>. QED
    BY <2>1, <2>2, UnaryWithin
<1>4. CASE f.mnem \in {"FMIN", "FMAX"}
  <2>1. FpResult(f, D) /\ f.mnem \in Writers
    BY <1>4, Allows DEF Writers, Fp!ArithOps
  <2>2. Fp!Emission(f) = Fp!MinMax(f, f.mnem)
    BY <1>4
  <2>. QED
    BY <2>1, <2>2, MinMaxWithin
<1>5. CASE f.mnem \in {"FMADD", "FMSUB", "FNMADD", "FNMSUB"}
  <2>1. FpResult(f, D)
    BY <1>5, Allows
  <2>2. Fp!Emission(f) \in {Fp!FMADD(f), Fp!FMSUB(f), Fp!FNMADD(f), Fp!FNMSUB(f)}
    BY <1>5
  <2>. QED
    BY <2>1, <2>2, FusedWithin
<1>6. CASE f.mnem \in Fp!SignOps
  <2>1. FpResult(f, D) /\ {"AX", "DX", "CX"} \subseteq D
    BY <1>6, Allows DEF Fp!SignOps
  <2>2. Fp!Emission(f) \in {Fp!FSGNJS(f), Fp!FSGNJNS(f), Fp!FSGNJXS(f), Fp!FSGNJD(f), Fp!FSGNJND(f), Fp!FSGNJXD(f)}
    BY <1>6 DEF Fp!SignOps
  <2>. QED
    BY <2>1, <2>2, SignWithin
<1>7. CASE f.mnem \in {"FCLASSS", "FCLASSD"}
  <2>1. GpResult(f, D) /\ {"AX", "DX", "CX"} \subseteq D
    BY <1>7, Allows
  <2>2. Fp!Emission(f) = Fp!FCLASSS(f) \/ Fp!Emission(f) = Fp!FCLASSD(f)
    BY <1>7
  <2>. QED
    BY <2>1, <2>2, ClassWithin
<1>8. CASE f.mnem \in {"FEQ", "FLT", "FLE"}
  <2>1. GpResult(f, D) /\ (f.mnem = "FEQ" => Fp!invalidateOldest(Fp!regGp(f, f.rd)) \in D)
    BY <1>8, Allows
  <2>2. \/ f.mnem = "FEQ" /\ Fp!Emission(f) = Fp!FEQ(f)
        \/ Fp!Emission(f) = Fp!FLT(f)
        \/ Fp!Emission(f) = Fp!FLE(f)
    BY <1>8
  <2>. QED
    BY <2>1, <2>2, ComparisonsWithin
<1>9. CASE f.mnem \in {"FCVTW", "FCVTL"}
  <2>1. GpResult(f, D)
    BY <1>9, Allows
  <2>2. Fp!Emission(f) = Fp!FCVTW(f) \/ Fp!Emission(f) = Fp!FCVTL(f)
    BY <1>9
  <2>. QED
    BY <2>1, <2>2, SignedWithin
<1>10. CASE f.mnem = "FCVTWU"
  <2>1. GpResult(f, D)
    BY <1>10, Allows
  <2>2. Fp!Emission(f) = Fp!FCVTWU(f)
    BY <1>10
  <2>. QED
    BY <2>1, <2>2, UnsignedWithin
<1>11. CASE f.mnem = "FCVTLU"
  <2>1. GpResult(f, D) /\ Fp!invalidateOldest(Fp!regGp(f, f.rd)) \in D /\ f.rs1 \notin Fp!fp_mapped
    BY <1>11, Allows DEF Fp!FormsAssumption
  <2>2. Fp!Emission(f) = Fp!FCVTLU(f)
    BY <1>11
  <2>. QED
    BY <2>1, <2>2, UnsignedWithin
<1>12. CASE f.mnem \in {"FCVTFW", "FCVTFL"}
  <2>1. FpResult(f, D)
    BY <1>12, Allows
  <2>2. Fp!Emission(f) = Fp!FromSigned(f, HALF) \/ Fp!Emission(f) = Fp!FromSigned(f, XLEN)
    BY <1>12
  <2>. QED
    BY <2>1, <2>2, FromIntegerWithin
<1>13. CASE f.mnem = "FCVTFWU"
  <2>1. FpResult(f, D) /\ Fp!invalidateOldest(Fp!regGp(f, f.rs1)) \in D
    BY <1>13, Allows
  <2>2. Fp!Emission(f) = Fp!FromUnsignedWord(f)
    BY <1>13
  <2>. QED
    BY <2>1, <2>2, FromIntegerWithin
<1>14. CASE f.mnem \in {"FCVTSLU", "FCVTDLU"}
  <2>1. FpResult(f, D) /\ {"AX", "DX"} \subseteq D
    BY <1>14, Allows
  <2>2. Fp!Emission(f) = Fp!FCVTSLU(f) \/ Fp!Emission(f) = Fp!FCVTDLU(f)
    BY <1>14
  <2>. QED
    BY <2>1, <2>2, FromUnsignedWithin
<1>15. CASE f.mnem \in {"FMVXW", "FMVXD"}
  <2>1. GpResult(f, D)
    BY <1>15, Allows
  <2>2. Fp!Emission(f) = Fp!FMVXW(f) \/ Fp!Emission(f) = Fp!FMVXD(f)
    BY <1>15
  <2>. QED
    BY <2>1, <2>2, TransferWithin
<1>16. CASE f.mnem \in {"FMVWX", "FMVDX", "FLW", "FLD"}
  <2>1. FpResult(f, D)
    BY <1>16, Allows
  <2>2. \E w : Fp!Emission(f) = Fp!FMoveFromGp(f, w) \/ Fp!Emission(f) = Fp!FLoad(f, w)
    BY <1>16
  <2>. QED
    BY <2>1, <2>2, TransferWithin
<1>17. CASE f.mnem \in {"FSW", "FSD"}
  <2>1. "FIRST" \in D
    BY Allows
  <2>2. \E w : Fp!Emission(f) = Fp!FStore(f, w)
    BY <1>17
  <2>. QED
    BY <2>1, <2>2, TransferWithin
<1>18. f.mnem \in Fp!ArithOps \cup Fp!SignOps \cup Fp!CompareOps \cup Fp!ClassOps
                  \cup Fp!FromFloatOps \cup Fp!ToFloatOps \cup Fp!LoadOps \cup Fp!StoreOps
  BY DEF Fp!FormsAssumption
<1>. QED
  BY <1>1, <1>2, <1>3, <1>4, <1>5, <1>6, <1>7, <1>8, <1>9, <1>10, <1>11, <1>12, <1>13, <1>14, <1>15, <1>16, <1>17,
     <1>18 DEF Fp!ArithOps, Fp!ToFloatOps, Fp!LoadOps, Fp!StoreOps

-----------------------------------------------------------------------------
(* The registers that stay. *)

\* Between the steps of the code of a form, no other register has changed.
FloatInv ==
    /\ form \in FpForms /\ code = Fp!Emission(form)
    /\ ip \in Nat \ {0}
    /\ Machine(start) /\ KeepsRegs(start, m, Allowed(form))

LEMMA FloatInvInit ==
    ASSUME Fp!Init
    PROVE  FloatInv
<1>1. /\ form \in FpForms /\ code = Fp!Emission(form) /\ ip = 1 /\ m = start
      /\ \E val, stale, cell : start = Fp!HostWith(form, val, stale, cell)
  BY DEF Fp!Init
<1>2. Machine(start)
  BY <1>1 DEF Fp!HostWith, Machine
<1>. QED
  BY <1>1, <1>2 DEF FloatInv, KeepsRegs

LEMMA FloatInvNext ==
    ASSUME Fp!FormsAssumption, FloatInv, [Fp!Next]_(Fp!vars)
    PROVE  FloatInv'
<1> DEFINE D == Allowed(form)
<1>1. Within(code, D)
  BY EmissionWithin DEF FloatInv
<1>2. ip \in Nat \ {0} /\ KeepsRegs(start, m, D) /\ Machine(m)
  BY DEF FloatInv, KeepsRegs
<1>3. ASSUME ip <= Len(code) PROVE Harmless(code[ip], D)
  <2>1. Len(code) \in Nat /\ ip \in 1 .. Len(code)
    BY <1>1, <1>2, <1>3 DEF Within
  <2>. QED
    BY <1>1, <2>1 DEF Within
<1>4. CASE Fp!Step
  <2>1. /\ ip <= Len(code) /\ code[ip].op \notin Fp!JumpOps
        /\ m' = Fp!PerformFloat(m, code[ip]) /\ ip' = ip + 1
        /\ form' = form /\ start' = start /\ code' = code
    BY <1>4 DEF Fp!Step
  <2>2. KeepsRegs(m, m', D)
    BY <1>2, <1>3, <2>1, StepKeeps
  <2>3. KeepsRegs(start, m', D)
    BY <1>2, <2>2 DEF KeepsRegs
  <2>. QED
    BY <2>1, <2>3 DEF FloatInv
<1>5. CASE Fp!StepJump
  <2>1. /\ ip <= Len(code) /\ code[ip].op \in Fp!JumpOps
        /\ ip' = ip + 1 + (IF Fp!Flag(code[ip].op, m.flags) THEN code[ip].i ELSE 0)
        /\ form' = form /\ start' = start /\ code' = code /\ m' = m
    BY <1>5 DEF Fp!StepJump
  <2>2. code[ip].i \in Nat
    <3>1. Harmless(code[ip], D)
      BY <1>3, <2>1
    <3>2. code[ip].op \notin Quiet \cup Writers
      BY <2>1 DEF Fp!JumpOps, Quiet, Writers, Fp!ArithOps
    <3>. QED
      BY <3>1, <3>2 DEF Harmless
  <2>3. ip' \in Nat \ {0}
    BY <1>2, <2>1, <2>2
  <2>. QED
    BY <2>1, <2>3 DEF FloatInv
<1>6. CASE UNCHANGED Fp!vars
  BY <1>6 DEF Fp!vars, FloatInv
<1>. QED
  BY <1>4, <1>5, <1>6 DEF Fp!Next

LEMMA FloatInvKeeps ==
    ASSUME FloatInv
    PROVE  Fp!OthersKept
<1>1. Allowed(form) = {"FIRST", "SECOND", Fp!Dest(form)} \cup Fp!GivenUp
  BY DEF Allowed, Fp!GivenUp
<1>. QED
  BY <1>1 DEF FloatInv, KeepsRegs, Fp!OthersKept

\* No code emitted for a floating point instruction, whatever is mapped and
\* whichever operands coincide, changes a register of the guest other than rd
\* (the operands of translate_F*), those it has invalidated excepted.
THEOREM FloatOthersKept ==
    ASSUME Fp!FormsAssumption
    PROVE  Fp!Spec => []Fp!OthersKept
<1>1. Fp!Init => FloatInv
  BY FloatInvInit
<1>2. FloatInv /\ [Fp!Next]_(Fp!vars) => FloatInv'
  BY FloatInvNext
<1>3. FloatInv => Fp!OthersKept
  BY FloatInvKeeps
<1>. QED
  BY <1>1, <1>2, <1>3, PTL DEF Fp!Spec
=============================================================================
