-------------------------- MODULE ExitCodeProofs --------------------------
(***************************************************************************)
(* Proofs about ExitCode, for any set of exits and any gaps between the    *)
(* blocks: the code a block ends in stays what was emitted, but for the    *)
(* sites that are chained, and what is executed on the way through it.     *)
(***************************************************************************)
EXTENDS ExitCode, TLAPS

-----------------------------------------------------------------------------
(* What the text holds. *)

Has(t, p, m) == p \in DOMAIN t /\ t[p] = m

\* Whole instructions, below n, that do not overlap.
Tidy(t, n) ==
    /\ \A p \in DOMAIN t : p \in Nat \ {0} /\ t[p].len \in Nat \ {0} /\ p + t[p].len <= n
    /\ \A p, q \in DOMAIN t : p < q => p + t[p].len <= q

\* The end of the block at 0: the RET, or a jump to it.
Leave(t, p) ==
    \/ Has(t, p, I("RET", 1, 0))
    \/ \E q \in DOMAIN t : Has(t, p, I("JMP", 2, q)) /\ Has(t, q, I("RET", 1, 0))

\* To the main loop, with d for the guest's pc.
GoTo(t, p, d) ==
    \/ Has(t, p, MovPc(d)) /\ Leave(t, p + 12)
    \/ Has(t, p, MovAx(d)) /\ Has(t, p + 7, MovPcAx) /\ Leave(t, p + 15)

Near == {2, 5}      \* lengths of an unconditional jump

\* The unconditional exit to d: a direct jump, or a site, patched or not.
Direct(t, c, p, d) == c[d] >= TEXT /\ \E n \in Near : Has(t, p, I("JMP", n, c[d]))
Chained(t, c, p, d) ==
    /\ Has(t, p, LeaAx)
    /\ \/ Has(t, p + 7, SaveSite)
       \/ c[d] >= TEXT /\ Has(t, p + 7, I("JMP", 5, c[d]))
    /\ Has(t, p + 15, SaveType("JMP"))
    /\ GoTo(t, p + 26, d)
FirstCode(t, c, f, p, d) ==
    IF f THEN Direct(t, c, p, d) \/ Chained(t, c, p, d) ELSE GoTo(t, p, d)

\* The other exit of a branch: its conditional jump at j leads to the following
\* block or to code that saves j as the site.
SecondSite(t, n, j, cc) ==
    /\ Has(t, n, MovAx(j)) /\ Has(t, n + 7, SaveSite) /\ Has(t, n + 15, SaveType(cc))
    /\ GoTo(t, n + 26, next)
    /\ n # j + 6
SecondCode(t, c, f, j, cc) ==
    \E n \in DOMAIN t \cup {c[next]} :
       /\ Has(t, j, I(cc, 6, n))
       /\ IF f THEN (c[next] >= TEXT /\ n = c[next]) \/ SecondSite(t, n, j, cc)
          ELSE GoTo(t, n, next)

\* A block that ends in a JALR.
JalrCode(t, f, p, a) ==
    LET q == IF f THEN p + 28 ELSE p + 16
    IN  /\ Has(t, p, WriteBacks) /\ Has(t, p + 8, I("MOV_AX_RS1", 8, 0))
        /\ f => Has(t, p + 16, NoSite)
        /\ Has(t, q, MovPcAx) /\ Has(t, q + 8, I("RET", 1, a))

Dest(x) == IF x.kind = "PC_NEXT_INST" THEN next ELSE x.target
Compare(x) == I(IF x.zero THEN "TEST" ELSE "CMP", 3, 0)

\* The block at 0.
ExitLayout(t, c, f, x, p) ==
    IF x.kind = "BRANCH"
    THEN /\ Has(t, p + 4, Compare(x)) /\ Has(t, p + 7, WriteBacks)
         /\ SecondCode(t, c, f, p + 15, NotTaken[x.mnem])
         /\ FirstCode(t, c, f, p + 21, x.target)
    ELSE Has(t, p + 4, WriteBacks) /\ FirstCode(t, c, f, p + 12, Dest(x))

Layout(t, c, f, x, a) ==
    /\ c[a] >= TEXT /\ Has(t, c[a], Body(a))
    /\ IF a = 0 THEN ExitLayout(t, c, f, x, c[a]) ELSE JalrCode(t, f, c[a] + 4, a)

-----------------------------------------------------------------------------
(* The invariant: types, the blocks, and where execution is. *)

StateType ==
    /\ exit \in Exits /\ flag_chain \in BOOLEAN
    /\ cache \in [Addrs -> Nat] /\ currentPos \in Nat /\ currentPos >= TEXT
    /\ Tidy(text, currentPos)
    /\ mode \in {"loop", "run"}
    /\ DOMAIN host = {"ip", "ax", "x", "y", "pc"}
    /\ guest \in [rs1 : Word, rs2 : Word, due : Addrs]
    /\ returns \in [Addrs -> 0 .. 3]
    /\ ~flag_chain => chain_end = 0

Cached(a) == cache[a] # UNSEEN_CODE

Blocks == \A a \in Addrs : Cached(a) => Layout(text, cache, flag_chain, exit, a)

\* The exits of the block at 0.
ExitNames == IF exit.kind = "BRANCH" THEN {"first", "second"} ELSE {"first"}
FirstExit == cache[0] + (IF exit.kind = "BRANCH" THEN 21 ELSE 12)
Site(k) == IF k = "first" THEN FirstExit + 7 ELSE cache[0] + 15
Type(k) == IF k = "first" THEN "JMP" ELSE NotTaken[exit.mnem]
Leads(k) == IF k = "first" THEN Dest(exit) ELSE next

\* What is at the site of an exit, before and after it is chained.
Fresh(k) ==
    IF k = "first" THEN Has(text, Site(k), SaveSite)
    ELSE \E n \in DOMAIN text : Has(text, Site(k), I(Type(k), 6, n)) /\ Has(text, n, MovAx(Site(k)))
Used(k) ==
    /\ Cached(0) /\ Cached(Leads(k))
    /\ Has(text, Site(k), I(Type(k), IF k = "first" THEN 5 ELSE 6, cache[Leads(k)]))

Pending(k) ==
    /\ flag_chain /\ Cached(0) /\ guest.due = Leads(k) /\ Fresh(k)
    /\ chain_end = Site(k) /\ chain_type = Type(k)

Exiting == Cached(0) /\ IF flag_chain THEN \E k \in ExitNames : Pending(k) ELSE chain_end = 0

\* Places in the emitted code.
AtBody == \E a \in Addrs : Cached(a) /\ host.ip = cache[a] /\ guest.due = a /\ chain_end = 0
AtJalr ==
    /\ chain_end = 0
    /\ \E a \in Addrs \ {0} :
          LET p == cache[a] + 4
              q == IF flag_chain THEN p + 28 ELSE p + 16
          IN  /\ Cached(a)
              /\ \/ host.ip \in {p, p + 8}
                 \/ host.ip \in {p + 16, q} /\ host.ax = guest.due
                 \/ host.ip = q + 8 /\ host.pc = guest.due
AtCompare ==
    /\ exit.kind = "BRANCH" /\ Cached(0) /\ chain_end = 0
    /\ guest.due = Follows(guest.rs1, guest.rs2) /\ (exit.zero => guest.rs2 = 0)
    /\ \/ host.ip = cache[0] + 4
       \/ host.ip \in {cache[0] + 7, cache[0] + 15} /\ host.x = guest.rs1 /\ host.y = guest.rs2
AtWriteBacks ==
    /\ exit.kind # "BRANCH" /\ Cached(0) /\ chain_end = 0
    /\ guest.due = Dest(exit) /\ host.ip = cache[0] + 4
AtFirst == Cached(0) /\ chain_end = 0 /\ guest.due = Dest(exit) /\ host.ip = FirstExit
AtSecond ==
    /\ exit.kind = "BRANCH" /\ flag_chain /\ Cached(0) /\ chain_end = 0 /\ guest.due = next
    /\ Has(text, Site("second"), I(Type("second"), 6, host.ip))
    /\ SecondSite(text, host.ip, Site("second"), Type("second"))
AtJump ==
    /\ chain_end = 0 /\ Cached(guest.due)
    /\ \E n \in Near : Has(text, host.ip, I("JMP", n, cache[guest.due]))
AtSite ==
    /\ flag_chain /\ Cached(0) /\ chain_end = 0
    /\ \E k \in ExitNames :
          /\ guest.due = Leads(k) /\ Fresh(k) /\ host.ax = Site(k)
          /\ Has(text, host.ip, SaveSite) /\ Has(text, host.ip + 8, SaveType(Type(k)))
          /\ GoTo(text, host.ip + 19, Leads(k))
AtType ==
    /\ flag_chain /\ Cached(0)
    /\ \E k \in ExitNames :
          /\ guest.due = Leads(k) /\ Fresh(k) /\ chain_end = Site(k)
          /\ Has(text, host.ip, SaveType(Type(k))) /\ GoTo(text, host.ip + 11, Leads(k))
AtGoTo == Exiting /\ GoTo(text, host.ip, guest.due)
AtPcAx == Exiting /\ host.ax = guest.due /\ Has(text, host.ip, MovPcAx) /\ Leave(text, host.ip + 8)
AtLeave == Exiting /\ host.pc = guest.due /\ Leave(text, host.ip)

Place == \/ AtBody \/ AtJalr \/ AtCompare \/ AtWriteBacks \/ AtFirst \/ AtSecond
         \/ AtJump \/ AtSite \/ AtType \/ AtGoTo \/ AtPcAx \/ AtLeave

InLoop == host.pc = guest.due /\ (chain_end = 0 \/ \E k \in ExitNames : Pending(k))

\* An exit that has returned once is chained, or will be at once.
Gone(k) == Used(k) \/ (mode = "loop" /\ Pending(k))
Returned(a) ==
    (IF Leads("first") = a /\ Gone("first") THEN 1 ELSE 0)
    + (IF exit.kind = "BRANCH" /\ a = next /\ Gone("second") THEN 1 ELSE 0)
Counted == flag_chain => \A a \in Addrs : returns[a] <= Returned(a)

ExitInv ==
    /\ StateType /\ Blocks /\ Counted
    /\ mode = "run" => Place
    /\ mode = "loop" => InLoop

-----------------------------------------------------------------------------
(* The text: what is appended and what is written over. *)

\* Everything in t is still in u, but for what begins at s.
KeptBut(t, u, s) == \A p \in DOMAIN t : p # s => Has(u, p, t[p])
Grows(t, u) == \A p \in DOMAIN t : Has(u, p, t[p])

LEMMA PutAppends ==
    ASSUME NEW t, NEW n \in Nat, Tidy(t, n), NEW p \in Nat \ {0}, p >= n, NEW m, m.len \in Nat \ {0}
    PROVE  /\ Tidy(Put(t, p, m), p + m.len)
           /\ Grows(t, Put(t, p, m))
           /\ Has(Put(t, p, m), p, m)
<1> DEFINE u == Put(t, p, m)
<1>1. DOMAIN u = DOMAIN t \cup {p}
  BY DEF Put, Tidy
<1>2. \A q \in DOMAIN t : q # p /\ q < p
  BY DEF Tidy
<1>3. Has(u, p, m) /\ \A q \in DOMAIN t : u[q] = t[q]
  BY <1>2 DEF Put, Tidy, Has
<1>4. Grows(t, u)
  BY <1>1, <1>3 DEF Grows, Has
<1>5. \A q \in DOMAIN u : q \in Nat \ {0} /\ u[q].len \in Nat \ {0} /\ q + u[q].len <= p + m.len
  BY <1>1, <1>3 DEF Tidy, Has
<1>6. ASSUME NEW q \in DOMAIN u, NEW r \in DOMAIN u, q < r
      PROVE  q + u[q].len <= r
  <2>1. q \in DOMAIN t
    BY <1>1, <1>2, <1>6 DEF Tidy
  <2>. QED
    BY <1>1, <1>3, <1>6, <2>1 DEF Tidy, Has
<1>. QED
  BY <1>3, <1>4, <1>5, <1>6 DEF Tidy

LEMMA PutReplaces ==
    ASSUME NEW t, NEW n \in Nat, Tidy(t, n), NEW p \in DOMAIN t,
           NEW m, m.len \in Nat \ {0}, m.len <= t[p].len
    PROVE  /\ Tidy(Put(t, p, m), n)
           /\ KeptBut(t, Put(t, p, m), p)
           /\ Has(Put(t, p, m), p, m)
           /\ DOMAIN Put(t, p, m) = DOMAIN t
<1> DEFINE u == Put(t, p, m)
<1>0. /\ p \in Nat /\ t[p].len \in Nat /\ p + t[p].len <= n
      /\ \A q \in DOMAIN t : q \in Nat /\ t[q].len \in Nat \ {0} /\ q + t[q].len <= n
  BY DEF Tidy
<1>1. ASSUME NEW q \in DOMAIN t, q # p
      PROVE  q + t[q].len <= p \/ q >= p + m.len
  <2>1. q < p \/ p < q
    BY <1>0, <1>1
  <2>2. q < p => q + t[q].len <= p
    BY DEF Tidy
  <2>3. p < q => p + t[p].len <= q
    BY DEF Tidy
  <2>. QED
    BY <1>0, <2>1, <2>2, <2>3
<1>2. DOMAIN u = DOMAIN t
  BY <1>1 DEF Put
<1>3. Has(u, p, m) /\ \A q \in DOMAIN t : q # p => u[q] = t[q]
  BY <1>1 DEF Put, Has
<1>4. KeptBut(t, u, p)
  BY <1>2, <1>3 DEF KeptBut, Has
<1>5. \A q \in DOMAIN u : u[q].len \in Nat \ {0} /\ u[q].len <= t[q].len
  BY <1>0, <1>2, <1>3 DEF Has
<1>6. \A q \in DOMAIN u : q \in Nat /\ u[q].len \in Nat \ {0} /\ q + u[q].len <= n
  BY <1>0, <1>2, <1>5
<1>7. ASSUME NEW q \in DOMAIN u, NEW r \in DOMAIN u, q < r
      PROVE  q + u[q].len <= r
  <2>1. q + t[q].len <= r
    BY <1>2, <1>7 DEF Tidy
  <2>. QED
    BY <1>0, <1>2, <1>5, <2>1
<1>. QED
  BY <1>2, <1>3, <1>4, <1>6, <1>7 DEF Tidy

LEMMA GrowsKeeps ==
    ASSUME NEW t, NEW u, Grows(t, u), NEW p, NEW m, Has(t, p, m)
    PROVE  Has(u, p, m)
BY DEF Grows, Has

LEMMA GrowsTransitive ==
    ASSUME NEW t, NEW u, NEW w, Grows(t, u), Grows(u, w)
    PROVE  Grows(t, w)
BY DEF Grows, Has

LEMMA GrowsReplaced ==
    ASSUME NEW t, NEW n \in Nat, Tidy(t, n), NEW u, Grows(t, u),
           NEW q \in Nat, q >= n, NEW w, KeptBut(u, w, q)
    PROVE  Grows(t, w)
<1>1. \A p \in DOMAIN t : p # q
  BY DEF Tidy
<1>. QED
  BY <1>1 DEF Grows, KeptBut, Has

LEMMA KeptHas ==
    ASSUME NEW t, NEW u, NEW q, KeptBut(t, u, q), NEW p, NEW m, Has(t, p, m), p # q
    PROVE  Has(u, p, m)
BY DEF KeptBut, Has

-----------------------------------------------------------------------------
(* What is emitted. *)

Code(e) == e.at \in Nat \ {0} /\ Tidy(e.text, e.at)

LEMMA EncCode ==
    ASSUME NEW e, Code(e), NEW m, m.len \in Nat \ {0}
    PROVE  /\ Code(Enc(e, m)) /\ Enc(e, m).at = e.at + m.len
           /\ Grows(e.text, Enc(e, m).text)
           /\ Has(Enc(e, m).text, e.at, m)
<1>1. Enc(e, m).text = Put(e.text, e.at, m) /\ Enc(e, m).at = e.at + m.len
  BY DEF Enc
<1>2. /\ Tidy(Put(e.text, e.at, m), e.at + m.len) /\ Grows(e.text, Put(e.text, e.at, m))
      /\ Has(Put(e.text, e.at, m), e.at, m)
  BY PutAppends DEF Code
<1>3. e.at + m.len \in Nat
  BY DEF Code
<1>. QED
  BY <1>1, <1>2, <1>3 DEF Code

LEMMA EmitCode ==
    ASSUME NEW e, Code(e), NEW m, m.len \in Nat \ {0}, NEW n, n.len \in Nat \ {0}
    PROVE  /\ Code(Emit(e, m, n)) /\ Emit(e, m, n).at = e.at + m.len + n.len
           /\ Grows(e.text, Emit(e, m, n).text)
           /\ Has(Emit(e, m, n).text, e.at, m)
           /\ Has(Emit(e, m, n).text, e.at + m.len, n)
<1> DEFINE f == Enc(e, m)
<1>1. Code(f) /\ f.at = e.at + m.len /\ Grows(e.text, f.text) /\ Has(f.text, e.at, m)
  BY EncCode
<1> HIDE DEF f
<1>2. /\ Code(Enc(f, n)) /\ Enc(f, n).at = f.at + n.len
      /\ Grows(f.text, Enc(f, n).text) /\ Has(Enc(f, n).text, f.at, n)
  BY <1>1, EncCode
<1>3. Emit(e, m, n) = Enc(f, n)
  BY DEF Emit, f
<1>. QED
  BY <1>1, <1>2, <1>3, GrowsTransitive, GrowsKeeps

\* The instructions that set the guest's pc to d, from p to q.
Moves(t, p, d, q) ==
    \/ Has(t, p, MovPc(d)) /\ q = p + 12
    \/ Has(t, p, MovAx(d)) /\ Has(t, p + 7, MovPcAx) /\ q = p + 15

\* The site of an unconditional exit.
SaveHere(t, p) == Has(t, p, LeaAx) /\ Has(t, p + 7, SaveSite) /\ Has(t, p + 15, SaveType("JMP"))

\* An unconditional exit whose end is at q.
FirstPart(t, c, f, p, d, q) ==
    IF f THEN Direct(t, c, p, d) \/ (SaveHere(t, p) /\ Moves(t, p + 26, d, q)) ELSE Moves(t, p, d, q)

LEMMA SaveCode ==
    ASSUME NEW e, Code(e), NEW cc
    PROVE  LET r == Emit(e, SaveSite, SaveType(cc))
           IN  /\ Code(r) /\ r.at = e.at + 19 /\ Grows(e.text, r.text)
               /\ Has(r.text, e.at, SaveSite) /\ Has(r.text, e.at + 8, SaveType(cc))
<1> DEFINE m == SaveSite
           n == SaveType(cc)
           r == Emit(e, m, n)
<1>1. m.len = 8 /\ n.len = 11
  BY DEF SaveSite, SaveType, I
<1> HIDE DEF m, n
<1>2. m.len \in Nat \ {0} /\ n.len \in Nat \ {0}
  BY <1>1
<1>3. /\ Code(r) /\ r.at = e.at + m.len + n.len /\ Grows(e.text, r.text)
      /\ Has(r.text, e.at, m) /\ Has(r.text, e.at + m.len, n)
  BY <1>2, EmitCode
<1> HIDE DEF r
<1>4. r.at = e.at + 19 /\ e.at + m.len = e.at + 8
  BY <1>1, <1>3 DEF Code
<1>5. /\ Code(r) /\ r.at = e.at + 19 /\ Grows(e.text, r.text)
      /\ Has(r.text, e.at, m) /\ Has(r.text, e.at + 8, n)
  BY <1>3, <1>4
<1>. QED
  BY <1>5 DEF m, n, r

LEMMA SiteHereCode ==
    ASSUME NEW e, Code(e), flag_chain
    PROVE  /\ Code(SiteHere(e)) /\ SiteHere(e).at = e.at + 26
           /\ Grows(e.text, SiteHere(e).text)
           /\ SaveHere(SiteHere(e).text, e.at)
<1> DEFINE f == Enc(e, LeaAx)
           r == Emit(f, SaveSite, SaveType("JMP"))
<1>0. LeaAx.len = 7
  BY DEF LeaAx, I
<1>1. Code(f) /\ f.at = e.at + 7 /\ Grows(e.text, f.text) /\ Has(f.text, e.at, LeaAx)
  BY <1>0, EncCode
<1>2. SiteHere(e) = r
  BY DEF SiteHere
<1> HIDE DEF f
<1>3. /\ Code(r) /\ r.at = f.at + 19 /\ Grows(f.text, r.text)
      /\ Has(r.text, f.at, SaveSite) /\ Has(r.text, f.at + 8, SaveType("JMP"))
  BY <1>1, SaveCode
<1> HIDE DEF r
<1>4. e.at \in Nat
  BY DEF Code
<1>5. Grows(e.text, r.text) /\ Has(r.text, e.at, LeaAx)
  BY <1>1, <1>3, GrowsTransitive, GrowsKeeps
<1>. QED
  BY <1>1, <1>2, <1>3, <1>4, <1>5 DEF SaveHere

LEMMA SiteBeforeCode ==
    ASSUME NEW e, Code(e), flag_chain, NEW loc \in Int, NEW cc
    PROVE  LET r == SiteBefore(e, loc, cc)
           IN  /\ Code(r) /\ r.at = e.at + 26 /\ Grows(e.text, r.text)
               /\ Has(r.text, e.at, MovAx(loc - 6))
               /\ Has(r.text, e.at + 7, SaveSite) /\ Has(r.text, e.at + 15, SaveType(cc))
<1> DEFINE m == MovAx(loc - 6)
           f == Enc(e, m)
           r == Emit(f, SaveSite, SaveType(cc))
<1>0. m.len = 7
  BY DEF MovAx, I
<1> HIDE DEF m
<1>1. Code(f) /\ f.at = e.at + 7 /\ Grows(e.text, f.text) /\ Has(f.text, e.at, m)
  BY <1>0, EncCode
<1>2. SiteBefore(e, loc, cc) = r
  BY DEF SiteBefore, m
<1> HIDE DEF f
<1>3. /\ Code(r) /\ r.at = f.at + 19 /\ Grows(f.text, r.text)
      /\ Has(r.text, f.at, SaveSite) /\ Has(r.text, f.at + 8, SaveType(cc))
  BY <1>1, SaveCode
<1> HIDE DEF r
<1>4. e.at \in Nat
  BY DEF Code
<1>5. Grows(e.text, r.text) /\ Has(r.text, e.at, m)
  BY <1>1, <1>3, GrowsTransitive, GrowsKeeps
<1>6. /\ Code(r) /\ r.at = e.at + 26 /\ Grows(e.text, r.text)
      /\ Has(r.text, e.at, MovAx(loc - 6))
      /\ Has(r.text, e.at + 7, SaveSite) /\ Has(r.text, e.at + 15, SaveType(cc))
  BY <1>1, <1>3, <1>4, <1>5 DEF m
<1>. QED
  BY <1>2, <1>6

LEMMA GrowsMoves ==
    ASSUME NEW t, NEW u, Grows(t, u), NEW p, NEW d, NEW q, Moves(t, p, d, q)
    PROVE  Moves(u, p, d, q)
BY GrowsKeeps DEF Moves

LEMMA GrowsFirstPart ==
    ASSUME NEW t, NEW u, Grows(t, u), NEW c, NEW f, NEW p, NEW d, NEW q, FirstPart(t, c, f, p, d, q)
    PROVE  FirstPart(u, c, f, p, d, q)
<1>1. Direct(t, c, p, d) => Direct(u, c, p, d)
  BY GrowsKeeps DEF Direct
<1>2. SaveHere(t, p) => SaveHere(u, p)
  BY GrowsKeeps DEF SaveHere
<1>. QED
  BY <1>1, <1>2, GrowsMoves DEF FirstPart

LEMMA SiteHereMoves ==
    ASSUME NEW e, Code(e), NEW u, Grows(SiteHere(e).text, u), NEW c, NEW d, NEW q,
           Moves(u, SiteHere(e).at, d, q)
    PROVE  FirstPart(u, c, flag_chain, e.at, d, q)
<1>1. CASE flag_chain
  <2>1. SiteHere(e).at = e.at + 26 /\ SaveHere(SiteHere(e).text, e.at)
    BY <1>1, SiteHereCode
  <2>2. SaveHere(u, e.at)
    BY <2>1, GrowsKeeps DEF SaveHere
  <2>. QED
    BY <1>1, <2>1, <2>2 DEF FirstPart
<1>2. CASE ~flag_chain
  BY <1>2 DEF SiteHere, FirstPart
<1>. QED
  BY <1>1, <1>2

LEMMA SiteHereAny ==
    ASSUME NEW e, Code(e)
    PROVE  /\ Code(SiteHere(e)) /\ SiteHere(e).at \in {e.at, e.at + 26}
           /\ Grows(e.text, SiteHere(e).text)
<1>1. CASE flag_chain
  BY <1>1, SiteHereCode
<1>2. CASE ~flag_chain
  BY <1>2 DEF SiteHere, Grows, Has
<1>. QED
  BY <1>1, <1>2

\* The locations a translation knows: marks, and blocks in the code memory.
Known(c) == \A a \in Addrs : c[a] \notin {UNSEEN_CODE, TRANSLATION_STARTED} => c[a] \in Nat /\ c[a] >= TEXT

ToTarget(e, c, d) ==
    IF Ready(c, d) THEN Enc(e, Jump("JMP", e.at, c[d], FALSE)) ELSE Enc(SiteHere(e), MovPc(d))

LEMMA ToTargetCode ==
    ASSUME NEW e, Code(e), NEW c, Known(c), NEW d \in Addrs
    PROVE  LET r == ToTarget(e, c, d)
           IN  /\ Code(r) /\ r.at \in e.at + 2 .. e.at + 38 /\ Grows(e.text, r.text)
               /\ FirstPart(r.text, c, flag_chain, e.at, d, r.at)
<1>0. e.at \in Nat
  BY DEF Code
<1>1. CASE Ready(c, d)
  <2> DEFINE m == Jump("JMP", e.at, c[d], FALSE)
             r == Enc(e, m)
  <2>1. flag_chain /\ c[d] \in Nat /\ c[d] >= TEXT
    BY <1>1 DEF Ready, Known
  <2>2. m.len \in Near /\ m = I("JMP", m.len, c[d])
    BY DEF Jump, I, Near
  <2> HIDE DEF m
  <2>3. m.len \in Nat \ {0} /\ m.len \in 2 .. 38
    BY <2>2 DEF Near
  <2>4. Code(r) /\ r.at = e.at + m.len /\ Grows(e.text, r.text) /\ Has(r.text, e.at, m)
    BY <2>3, EncCode
  <2> HIDE DEF r
  <2>5. Direct(r.text, c, e.at, d)
    BY <2>1, <2>2, <2>4 DEF Direct
  <2>6. r.at \in e.at + 2 .. e.at + 38
    BY <1>0, <2>3, <2>4
  <2>. QED
    BY <1>1, <2>1, <2>4, <2>5, <2>6 DEF FirstPart, ToTarget, m, r
<1>2. CASE ~Ready(c, d)
  <2> DEFINE s == SiteHere(e)
             m == MovPc(d)
             r == Enc(s, m)
  <2>1. m.len = 12
    BY DEF MovPc, I
  <2>2. Code(s) /\ s.at \in {e.at, e.at + 26} /\ Grows(e.text, s.text)
    BY SiteHereAny
  <2> HIDE DEF m
  <2>3. Code(r) /\ r.at = s.at + 12 /\ Grows(s.text, r.text) /\ Has(r.text, s.at, m)
    BY <2>1, <2>2, EncCode
  <2>4. Moves(r.text, s.at, d, r.at)
    BY <2>3 DEF Moves, m
  <2>5. FirstPart(r.text, c, flag_chain, e.at, d, r.at)
    BY <2>3, <2>4, SiteHereMoves
  <2>6. Grows(e.text, r.text) /\ r.at \in e.at + 2 .. e.at + 38
    BY <1>0, <2>2, <2>3, GrowsTransitive
  <2>. QED
    BY <1>2, <2>3, <2>5, <2>6 DEF ToTarget, m
<1>. QED
  BY <1>1, <1>2

LEMMA ToNextCode ==
    ASSUME NEW e, Code(e), NEW c
    PROVE  LET r == Emit(SiteHere(e), MovAx(next), MovPcAx)
           IN  /\ Code(r) /\ Grows(e.text, r.text)
               /\ FirstPart(r.text, c, flag_chain, e.at, next, r.at)
<1> DEFINE s == SiteHere(e)
           m == MovAx(next)
           n == MovPcAx
           r == Emit(s, m, n)
<1>1. m.len = 7 /\ n.len = 8
  BY DEF MovAx, MovPcAx, I
<1>2. Code(s) /\ Grows(e.text, s.text)
  BY SiteHereAny
<1> HIDE DEF m, n
<1>3. m.len \in Nat \ {0} /\ n.len \in Nat \ {0}
  BY <1>1
<1>4. /\ Code(r) /\ r.at = s.at + m.len + n.len /\ Grows(s.text, r.text)
      /\ Has(r.text, s.at, m) /\ Has(r.text, s.at + m.len, n)
  BY <1>2, <1>3, EmitCode
<1>5. s.at \in Nat
  BY <1>2 DEF Code
<1>6. r.at = s.at + 15 /\ s.at + m.len = s.at + 7
  BY <1>1, <1>4, <1>5
<1>7. Moves(r.text, s.at, next, r.at)
  BY <1>4, <1>6 DEF Moves, m, n
<1>8. FirstPart(r.text, c, flag_chain, e.at, next, r.at)
  BY <1>4, <1>7, SiteHereMoves
<1>. QED
  BY <1>2, <1>4, <1>8, GrowsTransitive DEF m, n

LEMMA WriteBacksCode ==
    ASSUME NEW e, Code(e)
    PROVE  LET r == Enc(e, WriteBacks)
           IN  Code(r) /\ r.at = e.at + 8 /\ Grows(e.text, r.text) /\ Has(r.text, e.at, WriteBacks)
<1>1. WriteBacks.len = 8
  BY DEF WriteBacks, I
<1>. QED
  BY <1>1, EncCode

LEMMA JalCode ==
    ASSUME NEW e, Code(e), NEW c, Known(c), NEW x, x.target \in Addrs
    PROVE  LET r == translate_JAL(e, c, x)
           IN  /\ Code(r) /\ Grows(e.text, r.text) /\ Has(r.text, e.at, WriteBacks)
               /\ FirstPart(r.text, c, flag_chain, e.at + 8, x.target, r.at)
<1> DEFINE w == Enc(e, WriteBacks)
           r == ToTarget(w, c, x.target)
<1>1. translate_JAL(e, c, x) = r
  BY DEF translate_JAL, ToTarget
<1>2. Code(w) /\ w.at = e.at + 8 /\ Grows(e.text, w.text) /\ Has(w.text, e.at, WriteBacks)
  BY WriteBacksCode
<1> HIDE DEF w
<1>3. /\ Code(r) /\ Grows(w.text, r.text)
      /\ FirstPart(r.text, c, flag_chain, w.at, x.target, r.at)
  BY <1>2, ToTargetCode
<1> HIDE DEF r
<1>. QED
  BY <1>1, <1>2, <1>3, GrowsTransitive, GrowsKeeps

LEMMA PcNextCode ==
    ASSUME NEW e, Code(e), NEW c
    PROVE  LET r == translate_PC_NEXT_INST(e)
           IN  /\ Code(r) /\ Grows(e.text, r.text) /\ Has(r.text, e.at, WriteBacks)
               /\ FirstPart(r.text, c, flag_chain, e.at + 8, next, r.at)
<1> DEFINE w == Enc(e, WriteBacks)
           r == Emit(SiteHere(w), MovAx(next), MovPcAx)
<1>1. translate_PC_NEXT_INST(e) = r
  BY DEF translate_PC_NEXT_INST
<1>2. Code(w) /\ w.at = e.at + 8 /\ Grows(e.text, w.text) /\ Has(w.text, e.at, WriteBacks)
  BY WriteBacksCode
<1> HIDE DEF w
<1>3. /\ Code(r) /\ Grows(w.text, r.text)
      /\ FirstPart(r.text, c, flag_chain, w.at, next, r.at)
  BY <1>2, ToNextCode
<1> HIDE DEF r
<1>. QED
  BY <1>1, <1>2, <1>3, GrowsTransitive, GrowsKeeps

\* The code of a JALR, from p to q.
JalrPart(t, f, p, q) ==
    LET s == IF f THEN p + 28 ELSE p + 16
    IN  /\ Has(t, p, WriteBacks) /\ Has(t, p + 8, I("MOV_AX_RS1", 8, 0))
        /\ f => Has(t, p + 16, NoSite)
        /\ Has(t, s, MovPcAx) /\ q = s + 8

LEMMA JalrEmitted ==
    ASSUME NEW e, Code(e)
    PROVE  LET r == translate_JALR(e)
           IN  /\ Code(r) /\ Grows(e.text, r.text)
               /\ JalrPart(r.text, flag_chain, e.at, r.at)
<1> DEFINE ax == I("MOV_AX_RS1", 8, 0)
           read == Emit(e, WriteBacks, ax)
           site == IF flag_chain THEN Enc(read, NoSite) ELSE read
           r == Enc(site, MovPcAx)
<1>1. translate_JALR(e) = r
  BY DEF translate_JALR
<1>2. WriteBacks.len = 8 /\ ax.len = 8 /\ NoSite.len = 12 /\ MovPcAx.len = 8
  BY DEF WriteBacks, NoSite, MovPcAx, I
<1>3. e.at \in Nat
  BY DEF Code
<1> HIDE DEF ax
<1>4. WriteBacks.len \in Nat \ {0} /\ ax.len \in Nat \ {0}
  BY <1>2
<1>5. /\ Code(read) /\ read.at = e.at + WriteBacks.len + ax.len /\ Grows(e.text, read.text)
      /\ Has(read.text, e.at, WriteBacks) /\ Has(read.text, e.at + WriteBacks.len, ax)
  BY <1>4, EmitCode
<1> HIDE DEF read
<1>6. read.at = e.at + 16 /\ Has(read.text, e.at + 8, ax)
  BY <1>2, <1>3, <1>5
<1>7. /\ Code(site) /\ site.at = (IF flag_chain THEN e.at + 28 ELSE e.at + 16)
      /\ Grows(read.text, site.text)
      /\ flag_chain => Has(site.text, e.at + 16, NoSite)
  <2>1. CASE flag_chain
    BY <1>2, <1>3, <1>5, <1>6, <2>1, EncCode
  <2>2. CASE ~flag_chain
    BY <1>5, <1>6, <2>2 DEF Grows, Has
  <2>. QED
    BY <2>1, <2>2
<1> HIDE DEF site
<1>8. /\ Code(r) /\ r.at = site.at + 8 /\ Grows(site.text, r.text)
      /\ Has(r.text, site.at, MovPcAx)
  BY <1>2, <1>7, EncCode
<1> HIDE DEF r
<1>9. Grows(e.text, r.text) /\ Grows(read.text, r.text)
  BY <1>5, <1>7, <1>8, GrowsTransitive
<1>10. /\ Has(r.text, e.at, WriteBacks) /\ Has(r.text, e.at + 8, ax)
       /\ flag_chain => Has(r.text, e.at + 16, NoSite)
  BY <1>5, <1>6, <1>7, <1>8, <1>9, GrowsKeeps
<1>11. JalrPart(r.text, flag_chain, e.at, r.at)
  BY <1>7, <1>8, <1>10 DEF JalrPart, ax
<1>. QED
  BY <1>1, <1>8, <1>9, <1>11

-----------------------------------------------------------------------------
(* A branch: two dummies, both replaced. *)

Conds == {"JNZ", "JZ", "JGE", "JL", "JNC", "JC"}

LEMMA NotTakenType == \A m \in BranchOps : NotTaken[m] \in Conds
BY DEF BranchOps, NotTaken, Conds

LEMMA LongJump ==
    ASSUME NEW cc \in Conds, NEW p, NEW n
    PROVE  Jump(cc, p, n, TRUE) = I(cc, 6, n)
BY DEF Jump, I, Conds

LEMMA ShortJump ==
    ASSUME NEW p \in Nat, NEW n \in Nat, n \in p - 100 .. p + 100
    PROVE  Jump("JMP", p, n, FALSE) = I("JMP", 2, n)
<1>1. n - (p + 2) \in -128 .. 127
  OBVIOUS
<1>. QED
  BY <1>1 DEF Jump, I

IsCode(e) == Code(e) /\ e = [text |-> e.text, at |-> e.at]

LEMMA EncIsCode ==
    ASSUME NEW e, Code(e), NEW m, m.len \in Nat \ {0}
    PROVE  IsCode(Enc(e, m))
<1>1. Enc(e, m) = [text |-> Enc(e, m).text, at |-> Enc(e, m).at]
  BY DEF Enc
<1>. QED
  BY <1>1, EncCode DEF IsCode

LEMMA PutAtCode ==
    ASSUME NEW e, IsCode(e), NEW p \in DOMAIN e.text, NEW m,
           m.len \in Nat \ {0}, m.len <= e.text[p].len
    PROVE  LET r == PutAt(e, p, m)
           IN  /\ IsCode(r) /\ r.at = e.at
               /\ KeptBut(e.text, r.text, p) /\ Has(r.text, p, m)
<1> DEFINE u == Put(e.text, p, m)
           r == PutAt(e, p, m)
<1>1. r = [text |-> u, at |-> e.at]
  BY DEF PutAt, IsCode
<1>2. Tidy(u, e.at) /\ KeptBut(e.text, u, p) /\ Has(u, p, m)
  BY PutReplaces DEF IsCode, Code
<1> HIDE DEF u
<1>3. r.text = u /\ r.at = e.at
  BY <1>1
<1>. QED
  BY <1>1, <1>2, <1>3 DEF IsCode, Code

\* What is written over a jump changes nothing else of an exit.
JumpOps == Conds \cup {"JMP"}

LEMMA KeptMoves ==
    ASSUME NEW t, NEW u, NEW s, KeptBut(t, u, s), t[s].op \in JumpOps,
           NEW p, NEW d, NEW q, Moves(t, p, d, q)
    PROVE  Moves(u, p, d, q)
<1>1. \A b, m : Has(t, b, m) /\ m.op \notin JumpOps => Has(u, b, m)
  BY DEF KeptBut, Has
<1>2. MovPc(d).op \notin JumpOps /\ MovAx(d).op \notin JumpOps /\ MovPcAx.op \notin JumpOps
  BY DEF MovPc, MovAx, MovPcAx, I, JumpOps, Conds
<1>. QED
  BY <1>1, <1>2 DEF Moves

LEMMA KeptFirstPart ==
    ASSUME NEW t, NEW u, NEW s, KeptBut(t, u, s), t[s].op \in JumpOps, NEW p, p # s,
           NEW c, NEW f, NEW d, NEW q, FirstPart(t, c, f, p, d, q)
    PROVE  FirstPart(u, c, f, p, d, q)
<1>1. \A b, m : Has(t, b, m) /\ m.op \notin JumpOps => Has(u, b, m)
  BY DEF KeptBut, Has
<1>2. LeaAx.op \notin JumpOps /\ SaveSite.op \notin JumpOps /\ SaveType("JMP").op \notin JumpOps
  BY DEF LeaAx, SaveSite, SaveType, I, JumpOps, Conds
<1>3. SaveHere(t, p) => SaveHere(u, p)
  BY <1>1, <1>2 DEF SaveHere
<1>4. Direct(t, c, p, d) => Direct(u, c, p, d)
  BY KeptHas DEF Direct
<1>5. \A b : Moves(t, b, d, q) => Moves(u, b, d, q)
  BY KeptMoves
<1>. QED
  BY <1>3, <1>4, <1>5 DEF FirstPart

\* The other exit of a branch, whose end is at q.
SecondPart(t, f, n, j, cc, q) ==
    IF f THEN /\ Has(t, n, MovAx(j)) /\ Has(t, n + 7, SaveSite) /\ Has(t, n + 15, SaveType(cc))
              /\ Moves(t, n + 26, next, q)
    ELSE Moves(t, n, next, q)

LEMMA GrowsSecondPart ==
    ASSUME NEW t, NEW u, Grows(t, u), NEW f, NEW n, NEW j, NEW cc, NEW q,
           SecondPart(t, f, n, j, cc, q)
    PROVE  SecondPart(u, f, n, j, cc, q)
BY GrowsKeeps, GrowsMoves DEF SecondPart

LEMMA KeptSecondPart ==
    ASSUME NEW t, NEW u, NEW s, KeptBut(t, u, s), t[s].op \in JumpOps,
           NEW f, NEW n, NEW j, NEW cc, NEW q, SecondPart(t, f, n, j, cc, q)
    PROVE  SecondPart(u, f, n, j, cc, q)
<1>1. \A b, m : Has(t, b, m) /\ m.op \notin JumpOps => Has(u, b, m)
  BY DEF KeptBut, Has
<1>2. MovAx(j).op \notin JumpOps /\ SaveSite.op \notin JumpOps /\ SaveType(cc).op \notin JumpOps
  BY DEF MovAx, SaveSite, SaveType, I, JumpOps, Conds
<1>3. \A b : Moves(t, b, next, q) => Moves(u, b, next, q)
  BY KeptMoves
<1>. QED
  BY <1>1, <1>2, <1>3 DEF SecondPart

LEMMA OtherCode ==
    ASSUME NEW e, Code(e), NEW j \in Nat, NEW cc
    PROVE  LET r == Enc(SiteBefore(e, j + 6, cc), MovPc(next))
           IN  /\ IsCode(r) /\ r.at \in {e.at + 12, e.at + 38} /\ Grows(e.text, r.text)
               /\ SecondPart(r.text, flag_chain, e.at, j, cc, r.at)
<1> DEFINE s == SiteBefore(e, j + 6, cc)
           m == MovPc(next)
           r == Enc(s, m)
<1>1. m.len = 12
  BY DEF MovPc, I
<1>2. e.at \in Nat /\ j + 6 - 6 = j /\ j + 6 \in Int
  BY DEF Code
<1>3. CASE flag_chain
  <2>1. /\ Code(s) /\ s.at = e.at + 26 /\ Grows(e.text, s.text)
        /\ Has(s.text, e.at, MovAx(j))
        /\ Has(s.text, e.at + 7, SaveSite) /\ Has(s.text, e.at + 15, SaveType(cc))
    BY <1>2, <1>3, SiteBeforeCode
  <2> HIDE DEF s, m
  <2>2. IsCode(r) /\ r.at = s.at + 12 /\ Grows(s.text, r.text) /\ Has(r.text, s.at, m)
    BY <1>1, <2>1, EncCode, EncIsCode
  <2> HIDE DEF r
  <2>3. /\ Has(r.text, e.at, MovAx(j)) /\ Has(r.text, e.at + 7, SaveSite)
        /\ Has(r.text, e.at + 15, SaveType(cc))
    BY <2>1, <2>2, GrowsKeeps
  <2>4. Moves(r.text, e.at + 26, next, r.at)
    BY <2>1, <2>2 DEF Moves, m
  <2>5. Grows(e.text, r.text) /\ r.at = e.at + 38
    BY <1>2, <2>1, <2>2, GrowsTransitive
  <2>6. SecondPart(r.text, flag_chain, e.at, j, cc, r.at)
    BY <1>3, <2>3, <2>4 DEF SecondPart
  <2>. QED
    BY <2>2, <2>5, <2>6 DEF r, s, m
<1>4. CASE ~flag_chain
  <2>1. s = e
    BY <1>4 DEF SiteBefore
  <2> HIDE DEF m, s
  <2>2. IsCode(r) /\ r.at = e.at + 12 /\ Grows(e.text, r.text) /\ Has(r.text, e.at, m)
    BY <1>1, <2>1, EncCode, EncIsCode
  <2>3. SecondPart(r.text, flag_chain, e.at, j, cc, r.at)
    BY <1>4, <2>2 DEF SecondPart, Moves, m
  <2>. QED
    BY <2>2, <2>3 DEF s, m
<1>. QED
  BY <1>3, <1>4

\* Both exits of a branch, from the conditional jump at j to q.
BothExits(t, c, f, j, cc, d, q) ==
    /\ \E n \in Nat : /\ Has(t, j, I(cc, 6, n))
                      /\ \/ f /\ c[next] >= TEXT /\ n = c[next]
                         \/ n # j + 6 /\ SecondPart(t, f, n, j, cc, q)
    /\ \E b : FirstPart(t, c, f, j + 6, d, b) /\ Has(t, b, I("JMP", 2, q))

LEMMA SetPcCode ==
    ASSUME NEW e, Code(e), NEW c, Known(c), NEW x, x.target \in Addrs, NEW cc \in Conds,
           NEW j \in Nat, e.at = j + 6, Has(e.text, j, I(cc, 6, j))
    PROVE  LET r == translate_controlflow_set_pc2(e, c, x, j, cc)
           IN  /\ Code(r)
               /\ \A p, m : Has(e.text, p, m) /\ p # j => Has(r.text, p, m)
               /\ BothExits(r.text, c, flag_chain, j, cc, x.target, r.at)
<1> DEFINE d == x.target
           taken == ToTarget(e, c, d)
           z == taken.at
           dummy == Enc(taken, Jump("JMP", z, z, FALSE))
           n == IF Ready(c, next) THEN c[next] ELSE dummy.at
           jumped == PutAt(dummy, j, Jump(cc, j, n, TRUE))
           other == IF Ready(c, next) THEN jumped ELSE Enc(SiteBefore(jumped, j + 6, cc), MovPc(next))
           q == other.at
           r == PutAt(other, z, Jump("JMP", z, q, FALSE))
<1>1. translate_controlflow_set_pc2(e, c, x, j, cc) = r
  BY DEF translate_controlflow_set_pc2, ToTarget
<1>2. /\ Code(taken) /\ z \in e.at + 2 .. e.at + 38 /\ Grows(e.text, taken.text)
      /\ FirstPart(taken.text, c, flag_chain, e.at, d, z)
  BY ToTargetCode
<1> HIDE DEF taken
<1>3. z \in Nat /\ z >= j + 8
  BY <1>2
<1>4. Jump("JMP", z, z, FALSE) = I("JMP", 2, z)
  <2>1. z \in z - 100 .. z + 100
    BY <1>3
  <2>. QED
    BY <1>3, <2>1, ShortJump
<1>5. \A b : I("JMP", 2, b).len = 2 /\ I("JMP", 2, b).len \in Nat \ {0}
  BY DEF I
<1>6. /\ IsCode(dummy) /\ dummy.at = z + 2 /\ Grows(taken.text, dummy.text)
      /\ Has(dummy.text, z, I("JMP", 2, z))
  BY <1>2, <1>4, <1>5, EncCode, EncIsCode
<1> HIDE DEF dummy
<1>7. Grows(e.text, dummy.text) /\ FirstPart(dummy.text, c, flag_chain, j + 6, d, z)
  BY <1>2, <1>6, GrowsTransitive, GrowsFirstPart
<1>8. Has(dummy.text, j, I(cc, 6, j))
  BY <1>7, GrowsKeeps
<1>9. n \in Nat
  BY <1>3, <1>6 DEF Ready, Known, Addrs, next
<1> HIDE DEF n
<1>10. /\ Jump(cc, j, n, TRUE) = I(cc, 6, n) /\ I(cc, 6, n).len = 6 /\ I(cc, 6, j).len = 6
       /\ I(cc, 6, n).len \in Nat \ {0} /\ I(cc, 6, j).op \in JumpOps
  <2>1. Jump(cc, j, n, TRUE) = I(cc, 6, n)
    BY LongJump
  <2>2. \A b : I(cc, 6, b).len = 6 /\ I(cc, 6, b).len \in Nat \ {0} /\ I(cc, 6, b).op \in JumpOps
    BY DEF I, JumpOps
  <2>. QED
    BY <2>1, <2>2
<1>11. /\ IsCode(jumped) /\ jumped.at = z + 2
       /\ KeptBut(dummy.text, jumped.text, j) /\ Has(jumped.text, j, I(cc, 6, n))
  <2>1. j \in DOMAIN dummy.text /\ I(cc, 6, n).len <= dummy.text[j].len
    <3> HIDE DEF jumped
    <3>. QED
      BY <1>8, <1>10 DEF Has
  <2>2. jumped = PutAt(dummy, j, I(cc, 6, n))
    BY <1>10
  <2> HIDE DEF jumped
  <2>. QED
    BY <1>6, <1>10, <2>1, <2>2, PutAtCode
<1> HIDE DEF jumped
<1>12. /\ FirstPart(jumped.text, c, flag_chain, j + 6, d, z)
       /\ Has(jumped.text, z, I("JMP", 2, z))
  <2>1. j # j + 6 /\ z # j
    BY <1>3
  <2>. QED
    BY <1>6, <1>7, <1>8, <1>10, <1>11, <2>1, KeptFirstPart, KeptHas DEF Has
<1>13. /\ IsCode(other) /\ q \in {z + 2, z + 14, z + 40} /\ Grows(jumped.text, other.text)
       /\ \/ flag_chain /\ c[next] >= TEXT /\ n = c[next]
          \/ n # j + 6 /\ SecondPart(other.text, flag_chain, n, j, cc, q)
  <2>1. CASE Ready(c, next)
    <3>1. other = jumped /\ n = c[next] /\ flag_chain /\ c[next] >= TEXT
      BY <2>1 DEF Ready, Known, n, Addrs, next
    <3> HIDE DEF other
    <3>2. Grows(jumped.text, other.text)
      BY <3>1 DEF Grows, Has
    <3>. QED
      BY <1>11, <3>1, <3>2
  <2>2. CASE ~Ready(c, next)
    <3>1. n = z + 2 /\ n # j + 6
      BY <1>3, <1>6, <2>2 DEF n
    <3>2. /\ IsCode(other) /\ q \in {jumped.at + 12, jumped.at + 38}
          /\ Grows(jumped.text, other.text)
          /\ SecondPart(other.text, flag_chain, jumped.at, j, cc, q)
      BY <1>11, <2>2, OtherCode DEF IsCode
    <3>. QED
      BY <1>3, <1>11, <3>1, <3>2
  <2>. QED
    BY <2>1, <2>2
<1> HIDE DEF other
<1>14. /\ Has(other.text, j, I(cc, 6, n)) /\ Has(other.text, z, I("JMP", 2, z))
       /\ FirstPart(other.text, c, flag_chain, j + 6, d, z)
  BY <1>11, <1>12, <1>13, GrowsKeeps, GrowsFirstPart
<1>15. Jump("JMP", z, q, FALSE) = I("JMP", 2, q) /\ I("JMP", 2, q).len = 2
       /\ I("JMP", 2, z).op \in JumpOps
  <2>1. q \in Nat /\ q \in z - 100 .. z + 100
    BY <1>3, <1>13
  <2>. QED
    BY <1>3, <2>1, ShortJump DEF I, JumpOps
<1>16. /\ IsCode(r) /\ r.at = q
       /\ KeptBut(other.text, r.text, z) /\ Has(r.text, z, I("JMP", 2, q))
  <2>1. r = PutAt(other, z, I("JMP", 2, q))
    BY <1>15
  <2> HIDE DEF r
  <2>2. z \in DOMAIN other.text /\ I("JMP", 2, q).len <= other.text[z].len
    BY <1>5, <1>14 DEF Has
  <2>. QED
    BY <1>5, <1>13, <2>1, <2>2, PutAtCode
<1> HIDE DEF r
<1>17. z # j /\ z # j + 6
  BY <1>3
<1>18. other.text[z].op \in JumpOps
  BY <1>14, <1>15 DEF Has
<1>19. FirstPart(r.text, c, flag_chain, j + 6, d, z)
  BY <1>14, <1>16, <1>17, <1>18, KeptFirstPart
<1>20. Has(r.text, j, I(cc, 6, n))
  BY <1>14, <1>16, <1>17, KeptHas
<1>21. SecondPart(other.text, flag_chain, n, j, cc, q) => SecondPart(r.text, flag_chain, n, j, cc, q)
  BY <1>16, <1>18, KeptSecondPart
<1>22. BothExits(r.text, c, flag_chain, j, cc, d, r.at)
  BY <1>9, <1>13, <1>16, <1>19, <1>20, <1>21 DEF BothExits
<1>23. ASSUME NEW p, NEW m, Has(e.text, p, m), p # j
       PROVE  Has(r.text, p, m)
  <2>1. Has(dummy.text, p, m)
    BY <1>7, <1>23, GrowsKeeps
  <2>2. Has(jumped.text, p, m)
    BY <1>11, <1>23, <2>1, KeptHas
  <2>3. Has(other.text, p, m)
    BY <1>13, <2>2, GrowsKeeps
  <2>4. p # z
    BY <1>2, <1>3, <1>23 DEF Code, Tidy, Has
  <2>. QED
    BY <1>16, <2>3, <2>4, KeptHas
<1>. QED
  BY <1>1, <1>16, <1>22, <1>23 DEF IsCode

\* The end of a branch, from p to q.
BranchPart(t, c, f, x, p, q) ==
    /\ Has(t, p, Compare(x)) /\ Has(t, p + 3, WriteBacks)
    /\ BothExits(t, c, f, p + 11, NotTaken[x.mnem], x.target, q)

LEMMA BranchCode ==
    ASSUME NEW e, Code(e), NEW c, Known(c), NEW x, x.target \in Addrs, x.mnem \in BranchOps
    PROVE  LET r == translate_branch(e, c, x)
           IN  /\ Code(r) /\ Grows(e.text, r.text)
               /\ BranchPart(r.text, c, flag_chain, x, e.at, r.at)
<1> DEFINE cc == NotTaken[x.mnem]
           m == Compare(x)
           compared == Emit(e, m, WriteBacks)
           j == compared.at
           jump == Enc(compared, Dummy(cc, j))
           r == translate_controlflow_set_pc2(jump, c, x, j, cc)
<1>1. translate_branch(e, c, x) = r
  BY DEF translate_branch, translate_controlflow_cmp_rs1_rs2, Compare
<1>2. /\ m.len = 3 /\ WriteBacks.len = 8
      /\ m.len \in Nat \ {0} /\ WriteBacks.len \in Nat \ {0}
  BY DEF Compare, WriteBacks, I
<1>3. e.at \in Nat
  BY DEF Code
<1>4. cc \in Conds
  BY NotTakenType
<1> HIDE DEF m, cc
<1>5. /\ Code(compared) /\ j = e.at + m.len + WriteBacks.len /\ Grows(e.text, compared.text)
      /\ Has(compared.text, e.at, m) /\ Has(compared.text, e.at + m.len, WriteBacks)
  BY <1>2, EmitCode
<1> HIDE DEF compared
<1>6. j = e.at + 11 /\ Has(compared.text, e.at + 3, WriteBacks)
  BY <1>2, <1>3, <1>5
<1>7. Dummy(cc, j) = I(cc, 6, j)
  BY <1>4, LongJump DEF Dummy
<1>8. I(cc, 6, j).len = 6 /\ I(cc, 6, j).len \in Nat \ {0}
  BY DEF I
<1>9. /\ Code(jump) /\ jump.at = j + 6 /\ Grows(compared.text, jump.text)
      /\ Has(jump.text, j, I(cc, 6, j))
  BY <1>5, <1>7, <1>8, EncCode
<1> HIDE DEF jump
<1>10. j \in Nat
  BY <1>3, <1>6
<1>11. /\ Code(r)
       /\ \A p, n : Has(jump.text, p, n) /\ p # j => Has(r.text, p, n)
       /\ BothExits(r.text, c, flag_chain, j, cc, x.target, r.at)
  BY <1>4, <1>9, <1>10, SetPcCode
<1> HIDE DEF r
<1>12. Grows(e.text, jump.text)
  BY <1>5, <1>9, GrowsTransitive
<1>13. Has(jump.text, e.at, m) /\ Has(jump.text, e.at + 3, WriteBacks)
  BY <1>5, <1>6, <1>9, GrowsKeeps
<1>14. Has(r.text, e.at, m) /\ Has(r.text, e.at + 3, WriteBacks)
  BY <1>3, <1>6, <1>11, <1>13
<1>15. Grows(e.text, r.text)
  <2>1. \A p \in DOMAIN e.text : p # j
    BY <1>3, <1>6 DEF Code, Tidy
  <2>. QED
    BY <1>11, <1>12, <2>1 DEF Grows
<1>16. BranchPart(r.text, c, flag_chain, x, e.at, r.at)
  BY <1>6, <1>11, <1>14 DEF BranchPart, m, cc
<1>. QED
  BY <1>1, <1>11, <1>15, <1>16

-----------------------------------------------------------------------------
(* A block. *)

LEMMA MovesGoTo ==
    ASSUME NEW t, NEW p, NEW d, NEW q, Moves(t, p, d, q), Leave(t, q)
    PROVE  GoTo(t, p, d)
BY DEF Moves, GoTo

LEMMA FirstPartCode ==
    ASSUME NEW t, NEW c, NEW f, NEW p, NEW d, NEW q, FirstPart(t, c, f, p, d, q), Leave(t, q)
    PROVE  FirstCode(t, c, f, p, d)
<1>1. SaveHere(t, p) /\ Moves(t, p + 26, d, q) => Chained(t, c, p, d)
  BY MovesGoTo DEF SaveHere, Chained
<1>. QED
  BY <1>1, MovesGoTo DEF FirstPart, FirstCode

LEMMA SecondPartCode ==
    ASSUME NEW t, NEW c, NEW f, NEW j, NEW cc, NEW n, NEW q,
           Has(t, j, I(cc, 6, n)), n # j + 6, SecondPart(t, f, n, j, cc, q), Leave(t, q)
    PROVE  SecondCode(t, c, f, j, cc)
<1>1. n \in DOMAIN t
  BY DEF SecondPart, Moves, Has
<1>2. f => SecondSite(t, n, j, cc)
  BY MovesGoTo DEF SecondPart, SecondSite
<1>3. ~f => GoTo(t, n, next)
  BY MovesGoTo DEF SecondPart
<1>. QED
  BY <1>1, <1>2, <1>3 DEF SecondCode

LEMMA BothExitsCode ==
    ASSUME NEW t, NEW c, NEW f, NEW j, NEW cc, NEW d, NEW q,
           BothExits(t, c, f, j, cc, d, q), Has(t, q, I("RET", 1, 0))
    PROVE  SecondCode(t, c, f, j, cc) /\ FirstCode(t, c, f, j + 6, d)
<1>1. Leave(t, q)
  BY DEF Leave
<1>2. PICK b : FirstPart(t, c, f, j + 6, d, b) /\ Has(t, b, I("JMP", 2, q))
  BY DEF BothExits
<1>3. Leave(t, b)
  BY <1>2 DEF Leave, Has
<1>4. PICK n \in Nat : /\ Has(t, j, I(cc, 6, n))
                      /\ \/ f /\ c[next] >= TEXT /\ n = c[next]
                         \/ n # j + 6 /\ SecondPart(t, f, n, j, cc, q)
  BY DEF BothExits
<1>5. SecondCode(t, c, f, j, cc)
  <2>1. CASE f /\ c[next] >= TEXT /\ n = c[next]
    BY <1>4, <2>1 DEF SecondCode
  <2>2. CASE n # j + 6 /\ SecondPart(t, f, n, j, cc, q)
    BY <1>1, <1>4, <2>2, SecondPartCode
  <2>. QED
    BY <1>4, <2>1, <2>2
<1>. QED
  BY <1>2, <1>3, <1>5, FirstPartCode

\* A cache that has more blocks, or the same.
Extends(c, d) == \A a \in Addrs : c[a] >= TEXT => d[a] = c[a]

LEMMA GrowsLeave ==
    ASSUME NEW t, NEW u, Grows(t, u)
    PROVE  \A p : Leave(t, p) => Leave(u, p)
<1>1. \A p, m : Has(t, p, m) => Has(u, p, m)
  BY GrowsKeeps
<1>2. \A p : p \in DOMAIN t => p \in DOMAIN u
  BY DEF Grows, Has
<1>. QED
  BY <1>1, <1>2 DEF Leave

LEMMA GrowsGoTo ==
    ASSUME NEW t, NEW u, Grows(t, u)
    PROVE  \A p, d : GoTo(t, p, d) => GoTo(u, p, d)
<1>1. \A p, m : Has(t, p, m) => Has(u, p, m)
  BY GrowsKeeps
<1>2. \A p : Leave(t, p) => Leave(u, p)
  BY GrowsLeave
<1>. QED
  BY <1>1, <1>2 DEF GoTo

LEMMA GrowsFirstCode ==
    ASSUME NEW t, NEW u, Grows(t, u), NEW c, NEW d, Extends(c, d),
           NEW f, NEW p, NEW a \in Addrs, FirstCode(t, c, f, p, a)
    PROVE  FirstCode(u, d, f, p, a)
<1>1. \A q, m : Has(t, q, m) => Has(u, q, m)
  BY GrowsKeeps
<1>2. \A q : GoTo(t, q, a) => GoTo(u, q, a)
  BY GrowsGoTo
<1>3. c[a] >= TEXT => d[a] = c[a]
  BY DEF Extends
<1>4. Direct(t, c, p, a) => Direct(u, d, p, a)
  BY <1>1, <1>3 DEF Direct
<1>5. Chained(t, c, p, a) => Chained(u, d, p, a)
  BY <1>1, <1>2, <1>3 DEF Chained
<1>. QED
  BY <1>2, <1>4, <1>5 DEF FirstCode

LEMMA GrowsSecondSite ==
    ASSUME NEW t, NEW u, Grows(t, u), NEW n, NEW j, NEW cc, SecondSite(t, n, j, cc)
    PROVE  SecondSite(u, n, j, cc)
BY GrowsKeeps, GrowsGoTo DEF SecondSite

LEMMA GrowsSecondCode ==
    ASSUME NEW t, NEW u, Grows(t, u), NEW c, NEW d, Extends(c, d),
           NEW f, NEW j, NEW cc, SecondCode(t, c, f, j, cc)
    PROVE  SecondCode(u, d, f, j, cc)
<1>1. PICK n \in DOMAIN t \cup {c[next]} :
        /\ Has(t, j, I(cc, 6, n))
        /\ IF f THEN (c[next] >= TEXT /\ n = c[next]) \/ SecondSite(t, n, j, cc)
           ELSE GoTo(t, n, next)
  BY DEF SecondCode
<1>2. Has(u, j, I(cc, 6, n))
  BY <1>1, GrowsKeeps
<1>3. next \in Addrs
  BY DEF next, Addrs
<1>4. CASE f /\ c[next] >= TEXT /\ n = c[next]
  BY <1>2, <1>3, <1>4 DEF SecondCode, Extends
<1>5. CASE f /\ SecondSite(t, n, j, cc)
  <2>1. SecondSite(u, n, j, cc)
    BY <1>5, GrowsSecondSite
  <2>2. n \in DOMAIN u
    BY <2>1 DEF SecondSite, Has
  <2>. QED
    BY <1>2, <1>5, <2>1, <2>2 DEF SecondCode
<1>6. CASE ~f /\ GoTo(t, n, next)
  <2>1. GoTo(u, n, next)
    BY <1>6, GrowsGoTo
  <2>2. n \in DOMAIN u
    BY <2>1 DEF GoTo, Has
  <2>. QED
    BY <1>2, <1>6, <2>1, <2>2 DEF SecondCode
<1>. QED
  BY <1>1, <1>4, <1>5, <1>6

LEMMA ExitFields ==
    ASSUME NEW x \in Exits
    PROVE  /\ x.kind \in {"BRANCH", "JAL", "PC_NEXT_INST"}
           /\ x.target \in Addrs /\ Dest(x) \in Addrs /\ next \in Addrs
           /\ x.kind = "BRANCH" => x.mnem \in BranchOps /\ x.zero \in BOOLEAN /\ Dest(x) = x.target
<1>1. \/ x \in [kind : {"BRANCH"}, mnem : BranchOps, zero : BOOLEAN, target : Addrs]
      \/ x \in [kind : {"JAL", "PC_NEXT_INST"}, target : Addrs]
  BY ExitsAssumption
<1>. QED
  BY <1>1 DEF Dest, next, Addrs

LEMMA GrowsLayout ==
    ASSUME NEW t, NEW u, Grows(t, u), NEW c, NEW d, Extends(c, d),
           NEW f, NEW x \in Exits, NEW a \in Addrs, Layout(t, c, f, x, a)
    PROVE  Layout(u, d, f, x, a)
<1>1. \A p, m : Has(t, p, m) => Has(u, p, m)
  BY GrowsKeeps
<1>2. d[a] = c[a]
  BY DEF Layout, Extends
<1>3. \A p : JalrCode(t, f, p, a) => JalrCode(u, f, p, a)
  BY <1>1 DEF JalrCode
<1>4. \A p : ExitLayout(t, c, f, x, p) => ExitLayout(u, d, f, x, p)
  BY <1>1, ExitFields, GrowsFirstCode, GrowsSecondCode DEF ExitLayout
<1>. QED
  BY <1>1, <1>2, <1>3, <1>4 DEF Layout

LEMMA RetCode ==
    ASSUME NEW e, Code(e), NEW a
    PROVE  LET r == Enc(e, [Ret EXCEPT !.v = a])
           IN  /\ Code(r) /\ r.at = e.at + 1 /\ Grows(e.text, r.text)
               /\ Has(r.text, e.at, I("RET", 1, a))
<1> DEFINE m == I("RET", 1, a)
<1>1. [Ret EXCEPT !.v = a] = m
  BY DEF Ret, I
<1>2. m.len = 1
  BY DEF I
<1> HIDE DEF m
<1>3. LET r == Enc(e, m)
      IN  Code(r) /\ r.at = e.at + 1 /\ Grows(e.text, r.text) /\ Has(r.text, e.at, m)
  BY <1>2, EncCode
<1>. QED
  BY <1>1, <1>3 DEF m

LEMMA AlignUp ==
    ASSUME NEW p \in Nat
    PROVE  Align(p) \in Nat /\ Align(p) >= p
BY DEF Align

\* What the code after the body of a block is, from p to q.
EndPart(t, c, f, x, a, p, q) ==
    IF a # 0 THEN JalrPart(t, f, p, q)
    ELSE IF x.kind = "BRANCH" THEN BranchPart(t, c, f, x, p, q)
    ELSE Has(t, p, WriteBacks) /\ FirstPart(t, c, f, p + 8, Dest(x), q)

LEMMA EndCode ==
    ASSUME exit \in Exits, NEW e, Code(e), NEW c, Known(c), NEW a
    PROVE  LET r == CASE a # 0 -> translate_JALR(e)
                      [] a = 0 /\ exit.kind = "BRANCH" -> translate_branch(e, c, exit)
                      [] a = 0 /\ exit.kind = "JAL" -> translate_JAL(e, c, exit)
                      [] a = 0 /\ exit.kind = "PC_NEXT_INST" -> translate_PC_NEXT_INST(e)
           IN  /\ Code(r) /\ Grows(e.text, r.text)
               /\ EndPart(r.text, c, flag_chain, exit, a, e.at, r.at)
<1>1. CASE a # 0
  BY <1>1, JalrEmitted DEF EndPart
<1>2. CASE a = 0 /\ exit.kind = "BRANCH"
  BY <1>2, BranchCode, ExitFields DEF EndPart
<1>3. CASE a = 0 /\ exit.kind = "JAL"
  BY <1>3, JalCode, ExitFields DEF EndPart, Dest
<1>4. CASE a = 0 /\ exit.kind = "PC_NEXT_INST"
  BY <1>4, PcNextCode, ExitFields DEF EndPart, Dest
<1>. QED
  BY <1>1, <1>2, <1>3, <1>4, ExitFields

LEMMA EndPartLayout ==
    ASSUME NEW t, NEW u, Grows(t, u), NEW c, NEW f, NEW x \in Exits, NEW a \in Addrs,
           NEW p \in Nat, p >= TEXT, NEW q,
           Has(t, p, Body(a)), EndPart(t, c, f, x, a, p + 4, q), Has(u, q, I("RET", 1, a)),
           NEW d, Extends(c, d), d[a] = p
    PROVE  Layout(u, d, f, x, a)
<1>1. Has(u, p, Body(a))
  BY GrowsKeeps
<1>2. CASE a # 0
  <2>1. JalrCode(u, f, p + 4, a)
    BY <1>2, GrowsKeeps DEF EndPart, JalrPart, JalrCode
  <2>. QED
    BY <1>1, <1>2, <2>1 DEF Layout
<1>3. CASE a = 0 /\ x.kind = "BRANCH"
  <2> DEFINE cc == NotTaken[x.mnem]
             j == p + 4 + 11
  <2>1. /\ Has(u, p + 4, Compare(x)) /\ Has(u, p + 4 + 3, WriteBacks)
        /\ BothExits(t, c, f, j, cc, x.target, q)
    BY <1>3, GrowsKeeps DEF EndPart, BranchPart
  <2> HIDE DEF cc
  <2>2. BothExits(u, c, f, j, cc, x.target, q)
    <3>1. PICK n \in Nat : /\ Has(t, j, I(cc, 6, n))
                          /\ \/ f /\ c[next] >= TEXT /\ n = c[next]
                             \/ n # j + 6 /\ SecondPart(t, f, n, j, cc, q)
      BY <2>1 DEF BothExits
    <3>2. PICK b : FirstPart(t, c, f, j + 6, x.target, b) /\ Has(t, b, I("JMP", 2, q))
      BY <2>1 DEF BothExits
    <3>3. Has(u, j, I(cc, 6, n)) /\ Has(u, b, I("JMP", 2, q))
      BY <3>1, <3>2, GrowsKeeps
    <3>4. FirstPart(u, c, f, j + 6, x.target, b)
      BY <3>2, GrowsFirstPart
    <3>5. SecondPart(t, f, n, j, cc, q) => SecondPart(u, f, n, j, cc, q)
      BY GrowsSecondPart
    <3>. QED
      BY <3>1, <3>3, <3>4, <3>5 DEF BothExits
  <2>3. SecondCode(u, c, f, j, cc) /\ FirstCode(u, c, f, j + 6, x.target)
    BY <1>3, <2>2, BothExitsCode
  <2>4. Grows(u, u)
    BY DEF Grows, Has
  <2>5. SecondCode(u, d, f, j, cc) /\ FirstCode(u, d, f, j + 6, x.target)
    BY <2>3, <2>4, GrowsSecondCode, GrowsFirstCode, ExitFields
  <2>6. p + 4 + 3 = p + 7 /\ j = p + 15 /\ j + 6 = p + 21
    OBVIOUS
  <2>. QED
    BY <1>1, <1>3, <2>1, <2>5, <2>6 DEF Layout, ExitLayout, cc
<1>4. CASE a = 0 /\ x.kind # "BRANCH"
  <2>1. Has(u, p + 4, WriteBacks) /\ FirstPart(u, c, f, p + 4 + 8, Dest(x), q)
    BY <1>4, GrowsKeeps, GrowsFirstPart DEF EndPart
  <2>2. Leave(u, q)
    BY <1>4 DEF Leave
  <2>3. FirstCode(u, c, f, p + 4 + 8, Dest(x))
    BY <2>1, <2>2, FirstPartCode
  <2>4. Grows(u, u)
    BY DEF Grows, Has
  <2>5. FirstCode(u, d, f, p + 4 + 8, Dest(x))
    BY <2>3, <2>4, GrowsFirstCode, ExitFields
  <2>6. p + 4 + 8 = p + 12
    OBVIOUS
  <2>. QED
    BY <1>1, <1>4, <2>1, <2>5, <2>6 DEF Layout, ExitLayout
<1>. QED
  BY <1>2, <1>3, <1>4

\* A translation appends a block and leaves what is there alone.
LEMMA BlockCode ==
    ASSUME exit \in Exits, NEW t, NEW at \in Nat, at >= TEXT, Tidy(t, at),
           NEW c, Known(c), NEW a \in Addrs, NEW d, Extends(c, d), d[a] = at
    PROVE  LET r == translate_block(a, c, t, at)
           IN  /\ r.at \in Nat /\ r.at >= at /\ Tidy(r.text, r.at) /\ Grows(t, r.text)
               /\ Layout(r.text, d, flag_chain, exit, a)
<1> DEFINE e == Enc([text |-> t, at |-> at], Body(a))
           x == CASE a # 0 -> translate_JALR(e)
                  [] a = 0 /\ exit.kind = "BRANCH" -> translate_branch(e, c, exit)
                  [] a = 0 /\ exit.kind = "JAL" -> translate_JAL(e, c, exit)
                  [] a = 0 /\ exit.kind = "PC_NEXT_INST" -> translate_PC_NEXT_INST(e)
           r == Enc(x, [Ret EXCEPT !.v = a])
<1>1. translate_block(a, c, t, at) = [text |-> r.text, at |-> Align(r.at)]
  BY DEF translate_block
<1>2. Body(a).len = 4
  BY DEF Body, I
<1>3. Code([text |-> t, at |-> at])
  BY DEF Code, TEXT
<1>4. /\ Code(e) /\ e.at = at + 4 /\ Grows(t, e.text) /\ Has(e.text, at, Body(a))
  BY <1>2, <1>3, EncCode
<1> HIDE DEF e
<1>5. /\ Code(x) /\ Grows(e.text, x.text)
      /\ EndPart(x.text, c, flag_chain, exit, a, e.at, x.at)
  BY <1>4, EndCode
<1> HIDE DEF x
<1>6. /\ Code(r) /\ r.at = x.at + 1 /\ Grows(x.text, r.text)
      /\ Has(r.text, x.at, I("RET", 1, a))
  BY <1>5, RetCode
<1> HIDE DEF r
<1>7. Has(x.text, at, Body(a))
  BY <1>4, <1>5, GrowsKeeps
<1>8. Layout(r.text, d, flag_chain, exit, a)
  BY <1>4, <1>5, <1>6, <1>7, EndPartLayout
<1>9. Grows(t, r.text)
  BY <1>4, <1>5, <1>6, GrowsTransitive
<1>10. Align(r.at) \in Nat /\ Align(r.at) >= r.at /\ r.at \in Nat
  BY <1>6, AlignUp DEF Code
<1>11. Has(r.text, at, Body(a)) /\ r.at >= at
  <2>1. Has(r.text, at, Body(a))
    BY <1>6, <1>7, GrowsKeeps
  <2>2. at + r.text[at].len <= r.at /\ r.text[at].len \in Nat
    BY <1>6, <2>1 DEF Code, Tidy, Has
  <2>. QED
    BY <1>10, <2>1, <2>2
<1>12. Tidy(r.text, Align(r.at))
  <2>1. \A p \in DOMAIN r.text : p \in Nat /\ r.text[p].len \in Nat /\ p + r.text[p].len <= Align(r.at)
    BY <1>6, <1>10 DEF Code, Tidy
  <2>. QED
    BY <1>6, <2>1 DEF Code, Tidy
<1>. QED
  BY <1>1, <1>8, <1>9, <1>10, <1>11, <1>12

-----------------------------------------------------------------------------
(* Steps that leave the text as it is. *)

LEMMA CachedSame ==
    ASSUME UNCHANGED cache, NEW a
    PROVE  Cached(a)' <=> Cached(a)
BY DEF Cached

LEMMA ExitsSame ==
    ASSUME UNCHANGED <<exit, cache>>
    PROVE  /\ FirstExit' = FirstExit /\ ExitNames' = ExitNames
           /\ \A k : Site(k)' = Site(k) /\ Type(k)' = Type(k) /\ Leads(k)' = Leads(k)
<1>1. FirstExit' = FirstExit /\ ExitNames' = ExitNames
  BY DEF FirstExit, ExitNames
<1>2. \A k : Site(k)' = Site(k) /\ Type(k)' = Type(k) /\ Leads(k)' = Leads(k)
  BY <1>1 DEF Site, Type, Leads, Dest
<1>. QED
  BY <1>1, <1>2

LEMMA FreshSame ==
    ASSUME UNCHANGED <<exit, cache, text>>, NEW k
    PROVE  Fresh(k)' <=> Fresh(k)
BY ExitsSame DEF Fresh

LEMMA UsedSame ==
    ASSUME UNCHANGED <<exit, cache, text>>, NEW k
    PROVE  Used(k)' <=> Used(k)
BY ExitsSame DEF Used, Cached

LEMMA PendingSame ==
    ASSUME UNCHANGED <<exit, flag_chain, cache, text, chain_end, chain_type>>,
           guest'.due = guest.due, NEW k, Pending(k)
    PROVE  Pending(k)'
<1>1. Fresh(k)'
  BY FreshSame DEF Pending
<1>. QED
  BY <1>1, ExitsSame DEF Pending, Cached

LEMMA ExitingSame ==
    ASSUME UNCHANGED <<exit, flag_chain, cache, text, chain_end, chain_type>>,
           guest'.due = guest.due, Exiting
    PROVE  Exiting'
<1>1. CASE flag_chain
  <2>1. PICK k \in ExitNames : Pending(k)
    BY <1>1 DEF Exiting
  <2>2. Pending(k)' /\ k \in ExitNames'
    BY <2>1, PendingSame, ExitsSame
  <2>. QED
    BY <1>1, <2>2 DEF Exiting, Cached
<1>2. CASE ~flag_chain
  BY <1>2 DEF Exiting, Cached
<1>. QED
  BY <1>1, <1>2

LEMMA CountKept ==
    ASSUME Counted, UNCHANGED <<exit, flag_chain, returns>>, returns \in [Addrs -> 0 .. 3],
           \A k \in ExitNames : Gone(k) => Gone(k)'
    PROVE  Counted'
<1>1. \A k : Leads(k)' = Leads(k)
  BY DEF Leads, Dest
<1>2. /\ Gone("first") => Gone("first")'
      /\ exit.kind = "BRANCH" /\ Gone("second") => Gone("second")'
  BY DEF ExitNames
<1>3. ASSUME flag_chain, NEW a \in Addrs
      PROVE  returns[a] <= Returned(a)'
  <2> DEFINE first == IF Leads("first") = a /\ Gone("first") THEN 1 ELSE 0
             second == IF exit.kind = "BRANCH" /\ a = next /\ Gone("second") THEN 1 ELSE 0
             first1 == IF Leads("first") = a /\ Gone("first")' THEN 1 ELSE 0
             second1 == IF exit.kind = "BRANCH" /\ a = next /\ Gone("second")' THEN 1 ELSE 0
  <2>1. returns[a] <= first + second
    BY <1>3 DEF Counted, Returned
  <2>2. Returned(a)' = first1 + second1
    BY <1>1 DEF Returned, next
  <2>3. first <= first1 /\ second <= second1
    BY <1>2
  <2>4. first \in 0 .. 1 /\ second \in 0 .. 1 /\ first1 \in 0 .. 1 /\ second1 \in 0 .. 1
    OBVIOUS
  <2>5. returns[a] \in Int
    OBVIOUS
  <2> HIDE DEF first, second, first1, second1
  <2>. QED
    BY <2>1, <2>2, <2>3, <2>4, <2>5
<1>. QED
  BY <1>3 DEF Counted

\* In the emitted code nothing but registers and the site changes.
Runs == UNCHANGED <<exit, flag_chain, cache, text, currentPos, mode, returns>>

LEMMA RunKept ==
    ASSUME ExitInv, mode = "run", Runs, Place',
           DOMAIN host' = {"ip", "ax", "x", "y", "pc"},
           guest' \in [rs1 : Word, rs2 : Word, due : Addrs],
           ~flag_chain => chain_end' = 0
    PROVE  ExitInv'
<1>1. StateType'
  BY DEF ExitInv, StateType, Runs
<1>2. Blocks'
  BY DEF ExitInv, Blocks, Cached, Runs
<1>3. Counted'
  <2>1. ASSUME NEW k, Gone(k)
        PROVE  Gone(k)'
    BY <2>1, UsedSame DEF Gone, Runs
  <2>. QED
    BY <2>1, CountKept DEF ExitInv, StateType, Runs
<1>. QED
  BY <1>1, <1>2, <1>3 DEF ExitInv, Runs

\* Which action executes an instruction.
LEMMA Executes ==
    ASSUME Next, mode = "run", NEW m, Has(text, host.ip, m)
    PROVE  /\ i = m /\ After = host.ip + m.len
           /\ m.op = "BODY" => RunBody
           /\ m.op \in {"CMP", "TEST"} => RunCompare
           /\ m.op \in Jumps => RunJump
           /\ m.op \in {"MOV", "LEA_AX", "MOV_AX", "MOV_AX_RS1", "MOV_PC", "MOV_PC_AX"} => RunMove
           /\ m.op \in {"MOV_CHAIN_END", "CHAIN_END_NULL", "MOV_CHAIN_TYPE"} => RunSite
           /\ m.op = "RET" => RunRet
<1>1. i = m /\ After = host.ip + m.len
  BY DEF Has, i, After
<1>2. \A op : Fetched(op) => m.op = op
  BY DEF Has, Fetched
<1>3. RunBody \/ RunCompare \/ RunJump \/ RunMove \/ RunSite \/ RunRet
  BY DEF Next, TranslateTarget, TranslateNested, TranslateNext, Execute
<1>4. RunBody => m.op = "BODY"
  BY <1>2 DEF RunBody
<1>5. RunCompare => m.op \in {"CMP", "TEST"}
  BY <1>2 DEF RunCompare
<1>6. RunJump => m.op \in Jumps
  BY <1>2 DEF RunJump
<1>7. RunMove => m.op \in {"MOV", "LEA_AX", "MOV_AX", "MOV_AX_RS1", "MOV_PC", "MOV_PC_AX"}
  BY <1>2 DEF RunMove
<1>8. RunSite => m.op \in {"MOV_CHAIN_END", "CHAIN_END_NULL", "MOV_CHAIN_TYPE"}
  BY <1>2 DEF RunSite
<1>9. RunRet => m.op = "RET"
  BY <1>2 DEF RunRet
<1>. QED
  BY <1>1, <1>3, <1>4, <1>5, <1>6, <1>7, <1>8, <1>9 DEF Jumps

Registers == {"ip", "ax", "x", "y", "pc"}

\* What a move does.
LEMMA Moved ==
    ASSUME Next, mode = "run", DOMAIN host = Registers, NEW m, Has(text, host.ip, m),
           m.op \in {"MOV", "LEA_AX", "MOV_AX", "MOV_AX_RS1", "MOV_PC", "MOV_PC_AX"}
    PROVE  /\ Runs /\ UNCHANGED <<chain_end, chain_type, guest>>
           /\ DOMAIN host' = Registers /\ host'.ip = host.ip + m.len
           /\ host'.x = host.x /\ host'.y = host.y
           /\ host'.ax = (CASE m.op = "LEA_AX" -> host.ip + m.len
                            [] m.op = "MOV_AX" -> m.v
                            [] m.op = "MOV_AX_RS1" -> guest.due
                            [] OTHER -> host.ax)
           /\ host'.pc = (CASE m.op = "MOV_PC" -> m.v
                            [] m.op = "MOV_PC_AX" -> host.ax
                            [] OTHER -> host.pc)
<1>1. RunMove /\ i = m /\ After = host.ip + m.len
  BY Executes
<1>2. \A op : Fetched(op) => m.op = op
  BY DEF Has, Fetched
<1>3. Runs /\ UNCHANGED <<chain_end, chain_type, guest>>
  BY <1>1 DEF RunMove, Runs
<1>4. CASE m.op = "MOV"
  <2>1. host' = [host EXCEPT !.ip = host.ip + m.len]
    BY <1>1, <1>2, <1>4 DEF RunMove
  <2>. QED
    BY <1>3, <1>4, <2>1 DEF Registers
<1>5. CASE m.op = "LEA_AX"
  <2>1. host' = [host EXCEPT !.ip = host.ip + m.len, !.ax = host.ip + m.len]
    BY <1>1, <1>2, <1>5 DEF RunMove
  <2>. QED
    BY <1>3, <1>5, <2>1 DEF Registers
<1>6. CASE m.op = "MOV_AX"
  <2>1. host' = [host EXCEPT !.ip = host.ip + m.len, !.ax = m.v]
    BY <1>1, <1>2, <1>6 DEF RunMove
  <2>. QED
    BY <1>3, <1>6, <2>1 DEF Registers
<1>7. CASE m.op = "MOV_AX_RS1"
  <2>1. host' = [host EXCEPT !.ip = host.ip + m.len, !.ax = guest.due]
    BY <1>1, <1>2, <1>7 DEF RunMove
  <2>. QED
    BY <1>3, <1>7, <2>1 DEF Registers
<1>8. CASE m.op = "MOV_PC"
  <2>1. host' = [host EXCEPT !.ip = host.ip + m.len, !.pc = m.v]
    BY <1>1, <1>2, <1>8 DEF RunMove
  <2>. QED
    BY <1>3, <1>8, <2>1 DEF Registers
<1>9. CASE m.op = "MOV_PC_AX"
  <2>1. host' = [host EXCEPT !.ip = host.ip + m.len, !.pc = host.ax]
    BY <1>1, <1>2, <1>9 DEF RunMove
  <2>. QED
    BY <1>3, <1>9, <2>1 DEF Registers
<1>. QED
  BY <1>4, <1>5, <1>6, <1>7, <1>8, <1>9

\* What the instructions at a site do.
LEMMA Saved ==
    ASSUME Next, mode = "run", DOMAIN host = Registers, NEW m, Has(text, host.ip, m),
           m.op \in {"MOV_CHAIN_END", "CHAIN_END_NULL", "MOV_CHAIN_TYPE"}
    PROVE  /\ Runs /\ UNCHANGED guest
           /\ host' = [host EXCEPT !.ip = host.ip + m.len]
           /\ DOMAIN host' = Registers /\ host'.ip = host.ip + m.len
           /\ host'.ax = host.ax /\ host'.pc = host.pc
           /\ chain_end' = (CASE m.op = "MOV_CHAIN_END" -> host.ax
                              [] m.op = "CHAIN_END_NULL" -> 0
                              [] m.op = "MOV_CHAIN_TYPE" -> chain_end)
           /\ chain_type' = IF m.op = "MOV_CHAIN_TYPE" THEN m.v ELSE chain_type
<1>1. RunSite /\ i = m /\ After = host.ip + m.len
  BY Executes
<1>2. \A op : Fetched(op) => m.op = op
  BY DEF Has, Fetched
<1>3. /\ Runs /\ UNCHANGED guest /\ host' = [host EXCEPT !.ip = host.ip + m.len]
  BY <1>1 DEF RunSite, Runs
<1>4. /\ DOMAIN host' = Registers /\ host'.ip = host.ip + m.len
      /\ host'.ax = host.ax /\ host'.pc = host.pc
  BY <1>3 DEF Registers
<1>5. CASE m.op = "MOV_CHAIN_END"
  BY <1>1, <1>2, <1>3, <1>4, <1>5 DEF RunSite
<1>6. CASE m.op = "CHAIN_END_NULL"
  BY <1>1, <1>2, <1>3, <1>4, <1>6 DEF RunSite
<1>7. CASE m.op = "MOV_CHAIN_TYPE"
  BY <1>1, <1>2, <1>3, <1>4, <1>7 DEF RunSite
<1>. QED
  BY <1>5, <1>6, <1>7

LEMMA Jumped ==
    ASSUME Next, mode = "run", DOMAIN host = Registers, NEW m, Has(text, host.ip, m),
           m.op \in Jumps
    PROVE  /\ Runs /\ UNCHANGED <<chain_end, chain_type, guest>>
           /\ DOMAIN host' = Registers
           /\ host'.ip = (IF Holds(m.op) THEN m.v ELSE host.ip + m.len)
           /\ host'.ax = host.ax /\ host'.pc = host.pc
<1>1. RunJump /\ i = m /\ After = host.ip + m.len
  BY Executes
<1>2. host' = [host EXCEPT !.ip = IF Holds(m.op) THEN m.v ELSE host.ip + m.len]
  BY <1>1 DEF RunJump
<1>3. Runs /\ UNCHANGED <<chain_end, chain_type, guest>>
  BY <1>1 DEF RunJump, Runs
<1>. QED
  BY <1>2, <1>3 DEF Registers

LEMMA JumpedAlways ==
    ASSUME Next, mode = "run", DOMAIN host = Registers, NEW m, Has(text, host.ip, m), m.op = "JMP"
    PROVE  /\ Runs /\ UNCHANGED <<chain_end, chain_type, guest>>
           /\ DOMAIN host' = Registers /\ host'.ip = m.v
           /\ host'.ax = host.ax /\ host'.pc = host.pc
<1>1. Holds("JMP") /\ "JMP" \in Jumps
  BY DEF Holds, Jumps
<1>. QED
  BY <1>1, Jumped

LEMMA LayoutAt ==
    ASSUME ExitInv, NEW a \in Addrs, Cached(a)
    PROVE  /\ Layout(text, cache, flag_chain, exit, a)
           /\ cache[a] \in Nat /\ cache[a] >= TEXT
           /\ Has(text, cache[a], Body(a))
BY DEF ExitInv, StateType, Blocks, Layout

\* What RunKept asks for when a step leaves the guest's registers alone.
LEMMA MovedKept ==
    ASSUME ExitInv, mode = "run", Runs, UNCHANGED <<chain_end, guest>>,
           DOMAIN host' = Registers, Place'
    PROVE  ExitInv'
<1>1. /\ guest' \in [rs1 : Word, rs2 : Word, due : Addrs]
      /\ ~flag_chain => chain_end' = 0
  BY DEF ExitInv, StateType
<1>. QED
  BY <1>1, RunKept DEF Registers

LEMMA HostRegisters == ExitInv => DOMAIN host = Registers
BY DEF ExitInv, StateType, Registers

-----------------------------------------------------------------------------
(* The way through the code of a block, place by place. *)

LEMMA BodyStep ==
    ASSUME ExitInv, mode = "run", Next, AtBody
    PROVE  ExitInv'
<1>1. PICK a \in Addrs : Cached(a) /\ host.ip = cache[a] /\ guest.due = a /\ chain_end = 0
  BY DEF AtBody
<1>2. Has(text, host.ip, Body(a))
  BY <1>1, LayoutAt
<1>3. Body(a).op = "BODY" /\ Body(a).len = 4 /\ Body(a).v = a
  BY DEF Body, I
<1>4. RunBody /\ i = Body(a) /\ After = host.ip + 4
  BY <1>2, <1>3, Executes
<1>5. Runs /\ UNCHANGED <<chain_end, chain_type>> /\ host' = [host EXCEPT !.ip = cache[a] + 4]
  BY <1>1, <1>4 DEF RunBody, Runs
<1>6. DOMAIN host' = Registers /\ host'.ip = cache[a] + 4
  BY <1>5, HostRegisters DEF Registers
<1>7. exit \in Exits
  BY DEF ExitInv, StateType
<1>8. CASE a = 0
  <2>1. PICK b \in Word, d \in Word :
          /\ (exit.kind # "BRANCH" \/ exit.zero) => d = 0
          /\ guest' = [rs1 |-> b, rs2 |-> d, due |-> Follows(b, d)]
    BY <1>3, <1>4, <1>8 DEF RunBody
  <2>2. Follows(b, d) \in Addrs /\ (exit.kind # "BRANCH" => Follows(b, d) = Dest(exit))
    BY <1>7, ExitFields DEF Follows, Dest
  <2>3. guest' \in [rs1 : Word, rs2 : Word, due : Addrs]
    BY <2>1, <2>2
  <2>4. CASE exit.kind = "BRANCH"
    <3>1. Follows(b, d)' = Follows(b, d)
      BY <1>5 DEF Follows, Taken, Runs, next
    <3>2. guest'.rs1 = b /\ guest'.rs2 = d /\ guest'.due = Follows(b, d)
      BY <2>1
    <3>3. AtCompare'
      BY <1>1, <1>5, <1>6, <1>8, <2>1, <2>4, <3>1, <3>2 DEF AtCompare, Runs, Cached, Follows, Taken
    <3>. QED
      BY <1>1, <1>5, <1>6, <2>3, <3>3, RunKept DEF Place, Registers
  <2>5. CASE exit.kind # "BRANCH"
    <3>1. AtWriteBacks'
      BY <1>1, <1>5, <1>6, <1>8, <2>1, <2>2, <2>5 DEF AtWriteBacks, Runs, Cached, Dest
    <3>. QED
      BY <1>1, <1>5, <1>6, <2>3, <3>1, RunKept DEF Place, Registers
  <2>. QED
    BY <2>4, <2>5
<1>9. CASE a # 0
  <2>1. PICK b \in Addrs : guest' = [guest EXCEPT !.due = b]
    BY <1>3, <1>4, <1>9 DEF RunBody
  <2>2. guest' \in [rs1 : Word, rs2 : Word, due : Addrs]
    BY <2>1 DEF ExitInv, StateType
  <2>3. AtJalr'
    BY <1>1, <1>5, <1>6, <1>9 DEF AtJalr, Runs, Cached
  <2>. QED
    BY <1>1, <1>5, <1>6, <2>2, <2>3, RunKept DEF Place, Registers
<1>. QED
  BY <1>8, <1>9

LEMMA JalrStep ==
    ASSUME ExitInv, mode = "run", Next, AtJalr
    PROVE  ExitInv'
<1> DEFINE At(a) == cache[a] + 4
           Tail(a) == IF flag_chain THEN At(a) + 28 ELSE At(a) + 16
<1>1. PICK a \in Addrs \ {0} :
        /\ Cached(a)
        /\ \/ host.ip \in {At(a), At(a) + 8}
           \/ host.ip \in {At(a) + 16, Tail(a)} /\ host.ax = guest.due
           \/ host.ip = Tail(a) + 8 /\ host.pc = guest.due
  BY DEF AtJalr
<1>2. JalrCode(text, flag_chain, At(a), a) /\ At(a) \in Nat
  BY <1>1, LayoutAt DEF Layout
<1>3. chain_end = 0
  BY DEF AtJalr
<1>4. Runs => cache' = cache /\ flag_chain' = flag_chain /\ Cached(a)'
  BY <1>1 DEF Runs, Cached
<1>5. CASE host.ip = At(a)
  <2>1. Has(text, host.ip, WriteBacks) /\ WriteBacks.op = "MOV" /\ WriteBacks.len = 8
    BY <1>2, <1>5 DEF JalrCode, WriteBacks, I
  <2>2. /\ Runs /\ UNCHANGED <<chain_end, chain_type, guest>>
        /\ DOMAIN host' = Registers /\ host'.ip = At(a) + 8
    BY <1>5, <2>1, Moved, HostRegisters
  <2>3. AtJalr'
    BY <1>1, <1>3, <1>4, <2>2 DEF AtJalr
  <2>. QED
    BY <2>2, <2>3, MovedKept DEF Place
<1>6. CASE host.ip = At(a) + 8
  <2> DEFINE m == I("MOV_AX_RS1", 8, 0)
  <2>1. Has(text, host.ip, m) /\ m.op = "MOV_AX_RS1" /\ m.len = 8
    BY <1>2, <1>6 DEF JalrCode, I
  <2> HIDE DEF m
  <2>2. /\ Runs /\ UNCHANGED <<chain_end, chain_type, guest>>
        /\ DOMAIN host' = Registers /\ host'.ip = At(a) + 8 + 8 /\ host'.ax = guest.due
    BY <1>6, <2>1, Moved, HostRegisters
  <2>3. host'.ip = At(a) + 16
    BY <1>2, <2>2
  <2>4. AtJalr'
    BY <1>1, <1>3, <1>4, <2>2, <2>3 DEF AtJalr
  <2>. QED
    BY <2>2, <2>4, MovedKept DEF Place
<1>7. CASE host.ip = At(a) + 16 /\ host.ip # Tail(a) /\ host.ax = guest.due
  <2>1. flag_chain
    BY <1>7
  <2>2. Has(text, host.ip, NoSite) /\ NoSite.op = "CHAIN_END_NULL" /\ NoSite.len = 12
    BY <1>2, <1>7, <2>1 DEF JalrCode, NoSite, I
  <2>3. /\ Runs /\ UNCHANGED guest /\ DOMAIN host' = Registers
        /\ host'.ip = At(a) + 16 + 12 /\ host'.ax = host.ax /\ chain_end' = 0
    BY <1>7, <2>2, Saved, HostRegisters
  <2>4. host'.ip = At(a) + 28
    BY <1>2, <2>3
  <2>5. AtJalr'
    BY <1>1, <1>4, <1>7, <2>1, <2>3, <2>4 DEF AtJalr
  <2>. QED
    BY <1>3, <2>3, <2>5, MovedKept DEF Place
<1>8. CASE host.ip = Tail(a) /\ host.ax = guest.due
  <2>1. Has(text, host.ip, MovPcAx) /\ MovPcAx.op = "MOV_PC_AX" /\ MovPcAx.len = 8
    BY <1>2, <1>8 DEF JalrCode, MovPcAx, I
  <2>2. /\ Runs /\ UNCHANGED <<chain_end, chain_type, guest>>
        /\ DOMAIN host' = Registers /\ host'.ip = Tail(a) + 8 /\ host'.pc = host.ax
    BY <1>8, <2>1, Moved, HostRegisters
  <2>3. AtJalr'
    BY <1>1, <1>3, <1>4, <1>8, <2>2 DEF AtJalr
  <2>. QED
    BY <2>2, <2>3, MovedKept DEF Place
<1>9. CASE host.ip = Tail(a) + 8 /\ host.pc = guest.due
  <2> DEFINE m == I("RET", 1, a)
  <2>1. Has(text, host.ip, m) /\ m.op = "RET" /\ m.v = a
    BY <1>2, <1>9 DEF JalrCode, I
  <2> HIDE DEF m
  <2>2. RunRet /\ i = m
    BY <2>1, Executes
  <2>3. /\ mode' = "loop"
        /\ UNCHANGED <<exit, flag_chain, cache, text, currentPos, chain_end, chain_type, host,
                       guest, returns>>
    BY <1>1, <2>1, <2>2 DEF RunRet
  <2>4. StateType' /\ Blocks'
    BY <2>3 DEF ExitInv, StateType, Blocks, Cached
  <2>5. ASSUME NEW k, Gone(k)
        PROVE  Gone(k)'
    BY <2>3, <2>5, UsedSame DEF Gone
  <2>6. Counted'
    BY <2>3, <2>5, CountKept DEF ExitInv, StateType
  <2>7. InLoop'
    BY <1>3, <1>9, <2>3 DEF InLoop
  <2>. QED
    BY <2>3, <2>4, <2>6, <2>7 DEF ExitInv
<1>. QED
  BY <1>1, <1>5, <1>6, <1>7, <1>8, <1>9

LEMMA CompareStep ==
    ASSUME ExitInv, mode = "run", Next, AtCompare, host.ip = cache[0] + 4
    PROVE  ExitInv'
<1> DEFINE m == Compare(exit)
<1>1. exit \in Exits /\ 0 \in Addrs /\ exit.kind = "BRANCH" /\ Cached(0)
  BY DEF ExitInv, StateType, AtCompare, Addrs
<1>2. Has(text, host.ip, m) /\ cache[0] \in Nat
  BY <1>1, LayoutAt DEF Layout, ExitLayout
<1>3. m.op = (IF exit.zero THEN "TEST" ELSE "CMP") /\ m.len = 3
  BY DEF Compare, I
<1> HIDE DEF m
<1>4. RunCompare /\ i = m /\ After = host.ip + 3
  BY <1>2, <1>3, Executes
<1>5. /\ Runs /\ UNCHANGED <<chain_end, chain_type, guest>>
      /\ host' = [host EXCEPT !.ip = host.ip + 3, !.x = guest.rs1,
                              !.y = IF exit.zero THEN 0 ELSE guest.rs2]
  BY <1>3, <1>4 DEF RunCompare, Runs
<1>6. /\ DOMAIN host' = Registers /\ host'.ip = cache[0] + 7
      /\ host'.x = guest.rs1 /\ host'.y = guest.rs2
  BY <1>2, <1>5, HostRegisters DEF Registers, AtCompare
<1>7. Follows(guest.rs1, guest.rs2)' = Follows(guest.rs1, guest.rs2)
  BY <1>5 DEF Runs, Follows, Taken, next
<1>8. AtCompare'
  BY <1>1, <1>5, <1>6, <1>7 DEF AtCompare, Runs, Cached
<1>. QED
  BY <1>5, <1>6, <1>8, MovedKept DEF Place

LEMMA ComparedStep ==
    ASSUME ExitInv, mode = "run", Next, AtCompare, host.ip = cache[0] + 7,
           host.x = guest.rs1, host.y = guest.rs2
    PROVE  ExitInv'
<1>1. 0 \in Addrs /\ exit.kind = "BRANCH" /\ Cached(0)
  BY DEF AtCompare, Addrs
<1>2. /\ Has(text, host.ip, WriteBacks) /\ cache[0] \in Nat
      /\ WriteBacks.op = "MOV" /\ WriteBacks.len = 8
  BY <1>1, LayoutAt DEF Layout, ExitLayout, WriteBacks, I
<1>3. /\ Runs /\ UNCHANGED <<chain_end, chain_type, guest>>
      /\ DOMAIN host' = Registers /\ host'.ip = cache[0] + 7 + 8
      /\ host'.x = host.x /\ host'.y = host.y
  BY <1>2, Moved, HostRegisters
<1>4. host'.ip = cache[0] + 15
  BY <1>2, <1>3
<1>5. Follows(guest.rs1, guest.rs2)' = Follows(guest.rs1, guest.rs2)
  BY <1>3 DEF Runs, Follows, Taken, next
<1>6. AtCompare'
  BY <1>1, <1>3, <1>4, <1>5 DEF AtCompare, Runs, Cached
<1>. QED
  BY <1>3, <1>6, MovedKept DEF Place

LEMMA SignedInt ==
    ASSUME WidthAssumption, PowersOf2, NEW v \in Word
    PROVE  Signed(v) \in Int
<1>1. XLEN \in 0 .. XLEN /\ XLEN - 1 \in 0 .. XLEN
  BY DEF WidthAssumption
<1>2. 2^XLEN \in Nat \ {0} /\ 2^(XLEN - 1) \in Nat \ {0}
  BY <1>1 DEF PowersOf2
<1> DEFINE p == 2^XLEN
           h == 2^(XLEN - 1)
<1>3. v \in Int
  BY DEF Word
<1>4. p \in Nat \ {0} /\ h \in Nat
  BY <1>2
<1>5. Signed(v) = IF v % p < h THEN v % p ELSE (v % p) - p
  BY DEF Signed, SignedOf
<1> HIDE DEF p, h
<1>6. v % p \in Int
  BY <1>3, <1>4
<1>. QED
  BY <1>4, <1>5, <1>6

\* The conditional jump is made if the branch is not taken.
LEMMA JumpsIfNotTaken ==
    ASSUME PowersOf2, exit.mnem \in BranchOps, guest.rs1 \in Word, guest.rs2 \in Word,
           host.x = guest.rs1, host.y = guest.rs2
    PROVE  Holds(NotTaken[exit.mnem]) <=> ~Taken(guest.rs1, guest.rs2)
<1> DEFINE a == guest.rs1
           b == guest.rs2
<1>1. Signed(a) \in Int /\ Signed(b) \in Int
  BY SignedInt, WidthAssumption
<1>2. a \in Int /\ b \in Int
  BY DEF Word
<1>3. CASE exit.mnem = "BEQ"
  BY <1>3 DEF NotTaken, Holds, Taken
<1>4. CASE exit.mnem = "BNE"
  BY <1>4 DEF NotTaken, Holds, Taken
<1>5. CASE exit.mnem = "BLT"
  BY <1>1, <1>5 DEF NotTaken, Holds, Taken
<1>6. CASE exit.mnem = "BGE"
  BY <1>1, <1>6 DEF NotTaken, Holds, Taken
<1>7. CASE exit.mnem = "BLTU"
  BY <1>2, <1>7 DEF NotTaken, Holds, Taken
<1>8. CASE exit.mnem = "BGEU"
  BY <1>2, <1>8 DEF NotTaken, Holds, Taken
<1>. QED
  BY <1>3, <1>4, <1>5, <1>6, <1>7, <1>8 DEF BranchOps

LEMMA BranchStep ==
    ASSUME PowersOf2, ExitInv, mode = "run", Next, AtCompare, host.ip = cache[0] + 15,
           host.x = guest.rs1, host.y = guest.rs2
    PROVE  ExitInv'
<1> DEFINE cc == NotTaken[exit.mnem]
           j == cache[0] + 15
<1>1. /\ 0 \in Addrs /\ next \in Addrs /\ exit.kind = "BRANCH" /\ Cached(0) /\ chain_end = 0
      /\ exit \in Exits /\ guest.rs1 \in Word /\ guest.rs2 \in Word /\ cache \in [Addrs -> Nat]
  BY DEF ExitInv, StateType, AtCompare, Addrs, next
<1>2. cache[0] \in Nat /\ SecondCode(text, cache, flag_chain, j, cc)
  BY <1>1, LayoutAt DEF Layout, ExitLayout
<1>3. cc \in Conds /\ exit.mnem \in BranchOps /\ Dest(exit) = exit.target
  BY <1>1, ExitFields, NotTakenType
<1>4. PICK n \in DOMAIN text \cup {cache[next]} :
        /\ Has(text, j, I(cc, 6, n))
        /\ IF flag_chain THEN (cache[next] >= TEXT /\ n = cache[next]) \/ SecondSite(text, n, j, cc)
           ELSE GoTo(text, n, next)
  BY <1>2 DEF SecondCode
<1>5. Holds(cc) <=> ~Taken(guest.rs1, guest.rs2)
  BY <1>1, <1>3, JumpsIfNotTaken
<1>6. guest.due = IF Taken(guest.rs1, guest.rs2) THEN exit.target ELSE next
  BY <1>1 DEF AtCompare, Follows
<1> HIDE DEF cc
<1>7. I(cc, 6, n).op = cc /\ I(cc, 6, n).len = 6 /\ I(cc, 6, n).v = n /\ cc \in Jumps
  BY <1>3 DEF I, Conds, Jumps
<1>8. /\ Runs /\ UNCHANGED <<chain_end, chain_type, guest>> /\ DOMAIN host' = Registers
      /\ host'.ip = IF Holds(cc) THEN n ELSE host.ip + 6
  BY <1>4, <1>7, Jumped, HostRegisters
<1>9. /\ Site("second") = j /\ Type("second") = cc /\ FirstExit = cache[0] + 21
      /\ Site("second")' = j /\ Type("second")' = cc /\ FirstExit' = cache[0] + 21
  BY <1>1, <1>8 DEF Site, Type, FirstExit, cc, Runs
<1>10. CASE ~Holds(cc)
  <2>1. host'.ip = FirstExit'
    BY <1>2, <1>8, <1>9, <1>10
  <2>2. AtFirst'
    BY <1>1, <1>3, <1>5, <1>6, <1>8, <1>10, <2>1 DEF AtFirst, Runs, Cached, Dest
  <2>. QED
    BY <1>8, <2>2, MovedKept DEF Place
<1>11. CASE Holds(cc) /\ flag_chain /\ cache[next] >= TEXT /\ n = cache[next]
  <2>1. cache[next] # UNSEEN_CODE
    BY <1>1, <1>11 DEF UNSEEN_CODE, TEXT
  <2>2. AtBody'
    BY <1>1, <1>5, <1>6, <1>8, <1>11, <2>1 DEF AtBody, Runs, Cached
  <2>. QED
    BY <1>8, <2>2, MovedKept DEF Place
<1>12. CASE Holds(cc) /\ flag_chain /\ SecondSite(text, n, j, cc)
  <2>1. host'.ip = n /\ text' = text /\ guest'.due = next /\ chain_end' = 0
    BY <1>1, <1>5, <1>6, <1>8, <1>12 DEF Runs
  <2>2. AtSecond'
    BY <1>1, <1>4, <1>8, <1>9, <1>12, <2>1 DEF AtSecond, Runs, Cached, next
  <2>. QED
    BY <1>8, <2>2, MovedKept DEF Place
<1>13. CASE Holds(cc) /\ ~flag_chain /\ GoTo(text, n, next)
  <2>1. AtGoTo'
    BY <1>1, <1>5, <1>6, <1>8, <1>13 DEF AtGoTo, Exiting, Runs, Cached
  <2>. QED
    BY <1>8, <2>1, MovedKept DEF Place
<1>. QED
  BY <1>4, <1>10, <1>11, <1>12, <1>13

LEMMA WriteBacksStep ==
    ASSUME ExitInv, mode = "run", Next, AtWriteBacks
    PROVE  ExitInv'
<1>1. 0 \in Addrs /\ exit.kind # "BRANCH" /\ Cached(0) /\ host.ip = cache[0] + 4
  BY DEF AtWriteBacks, Addrs
<1>2. /\ Has(text, host.ip, WriteBacks) /\ cache[0] \in Nat
      /\ WriteBacks.op = "MOV" /\ WriteBacks.len = 8
  BY <1>1, LayoutAt DEF Layout, ExitLayout, WriteBacks, I
<1>3. /\ Runs /\ UNCHANGED <<chain_end, chain_type, guest>>
      /\ DOMAIN host' = Registers /\ host'.ip = cache[0] + 4 + 8
  BY <1>1, <1>2, Moved, HostRegisters
<1>4. host'.ip = cache[0] + 12
  BY <1>2, <1>3
<1>5. AtFirst'
  BY <1>1, <1>3, <1>4 DEF AtFirst, AtWriteBacks, Runs, Cached, Dest, FirstExit
<1>. QED
  BY <1>3, <1>5, MovedKept DEF Place

LEMMA InText ==
    ASSUME ExitInv, NEW p, NEW m, Has(text, p, m)
    PROVE  p \in Nat
BY DEF ExitInv, StateType, Tidy, Has

LEMMA GoToStep ==
    ASSUME ExitInv, mode = "run", Next, AtGoTo
    PROVE  ExitInv'
<1> DEFINE d == guest.due
           p == host.ip
<1>1. CASE Has(text, p, MovPc(d)) /\ Leave(text, p + 12)
  <2>1. MovPc(d).op = "MOV_PC" /\ MovPc(d).len = 12 /\ MovPc(d).v = d
    BY DEF MovPc, I
  <2>2. /\ Runs /\ UNCHANGED <<chain_end, chain_type, guest>> /\ DOMAIN host' = Registers
        /\ host'.ip = p + 12 /\ host'.pc = d
    BY <1>1, <2>1, Moved, HostRegisters
  <2>3. Exiting'
    BY <2>2, ExitingSame DEF AtGoTo, Runs
  <2>4. AtLeave'
    BY <1>1, <2>2, <2>3 DEF AtLeave, Runs
  <2>. QED
    BY <2>2, <2>4, MovedKept DEF Place
<1>2. CASE Has(text, p, MovAx(d)) /\ Has(text, p + 7, MovPcAx) /\ Leave(text, p + 15)
  <2>1. MovAx(d).op = "MOV_AX" /\ MovAx(d).len = 7 /\ MovAx(d).v = d
    BY DEF MovAx, I
  <2>2. /\ Runs /\ UNCHANGED <<chain_end, chain_type, guest>> /\ DOMAIN host' = Registers
        /\ host'.ip = p + 7 /\ host'.ax = d
    BY <1>2, <2>1, Moved, HostRegisters
  <2>3. Exiting'
    BY <2>2, ExitingSame DEF AtGoTo, Runs
  <2>4. host'.ip + 8 = p + 15
    BY <1>2, <2>2, InText
  <2>5. AtPcAx'
    BY <1>2, <2>2, <2>3, <2>4 DEF AtPcAx, Runs
  <2>. QED
    BY <2>2, <2>5, MovedKept DEF Place
<1>. QED
  BY <1>1, <1>2 DEF AtGoTo, GoTo

LEMMA PcAxStep ==
    ASSUME ExitInv, mode = "run", Next, AtPcAx
    PROVE  ExitInv'
<1>1. Has(text, host.ip, MovPcAx) /\ MovPcAx.op = "MOV_PC_AX" /\ MovPcAx.len = 8
  BY DEF AtPcAx, MovPcAx, I
<1>2. /\ Runs /\ UNCHANGED <<chain_end, chain_type, guest>> /\ DOMAIN host' = Registers
      /\ host'.ip = host.ip + 8 /\ host'.pc = host.ax
  BY <1>1, Moved, HostRegisters
<1>3. Exiting'
  BY <1>2, ExitingSame DEF AtPcAx, Runs
<1>4. AtLeave'
  BY <1>2, <1>3 DEF AtLeave, AtPcAx, Runs
<1>. QED
  BY <1>2, <1>4, MovedKept DEF Place

LEMMA JumpStep ==
    ASSUME ExitInv, mode = "run", Next, AtJump
    PROVE  ExitInv'
<1>1. PICK n \in Near : Has(text, host.ip, I("JMP", n, cache[guest.due]))
  BY DEF AtJump
<1> DEFINE m == I("JMP", n, cache[guest.due])
<1>2. m.op = "JMP" /\ m.v = cache[guest.due]
  BY DEF I
<1> HIDE DEF m
<1>3. /\ Runs /\ UNCHANGED <<chain_end, chain_type, guest>> /\ DOMAIN host' = Registers
      /\ host'.ip = cache[guest.due]
  BY <1>1, <1>2, JumpedAlways, HostRegisters DEF m
<1>4. guest.due \in Addrs /\ chain_end = 0 /\ Cached(guest.due)
  BY DEF ExitInv, StateType, AtJump
<1>5. AtBody'
  BY <1>3, <1>4 DEF AtBody, Runs, Cached
<1>. QED
  BY <1>3, <1>5, MovedKept DEF Place

LEMMA FirstCodeAt ==
    ASSUME ExitInv, Cached(0)
    PROVE  FirstCode(text, cache, flag_chain, FirstExit, Dest(exit)) /\ FirstExit \in Nat
<1>1. 0 \in Addrs /\ exit \in Exits
  BY DEF Addrs, ExitInv, StateType
<1>2. ExitLayout(text, cache, flag_chain, exit, cache[0]) /\ cache[0] \in Nat
  BY <1>1, LayoutAt DEF Layout
<1>. QED
  BY <1>1, <1>2, ExitFields DEF ExitLayout, FirstExit

LEMMA FirstStep ==
    ASSUME ExitInv, mode = "run", Next, AtFirst
    PROVE  ExitInv'
<1> DEFINE d == Dest(exit)
           p == FirstExit
<1>1. Cached(0) /\ chain_end = 0 /\ guest.due = d /\ host.ip = p
  BY DEF AtFirst
<1>2. FirstCode(text, cache, flag_chain, p, d) /\ p \in Nat
  BY <1>1, FirstCodeAt
<1>3. exit \in Exits /\ d \in Addrs /\ cache \in [Addrs -> Nat]
  BY ExitFields DEF ExitInv, StateType
<1>4. cache[d] >= TEXT => Cached(d)
  BY DEF TEXT, Cached, UNSEEN_CODE
<1>5. CASE flag_chain /\ Direct(text, cache, p, d)
  <2>1. AtJump
    BY <1>1, <1>4, <1>5 DEF AtJump, Direct
  <2>. QED
    BY <2>1, JumpStep
<1>6. CASE ~flag_chain
  <2>1. AtGoTo
    BY <1>1, <1>2, <1>6 DEF AtGoTo, Exiting, FirstCode
  <2>. QED
    BY <2>1, GoToStep
<1>7. CASE flag_chain /\ Chained(text, cache, p, d)
  <2>1. Has(text, host.ip, LeaAx) /\ LeaAx.op = "LEA_AX" /\ LeaAx.len = 7
    BY <1>1, <1>7 DEF Chained, LeaAx, I
  <2>2. /\ Runs /\ UNCHANGED <<chain_end, chain_type, guest>> /\ DOMAIN host' = Registers
        /\ host'.ip = p + 7 /\ host'.ax = p + 7
    BY <1>1, <2>1, Moved, HostRegisters
  <2>3. /\ FirstExit' = p /\ "first" \in ExitNames'
        /\ Site("first")' = p + 7 /\ Leads("first")' = d /\ Type("first")' = "JMP"
    <3>1. Site("first") = p + 7 /\ Leads("first") = d /\ Type("first") = "JMP"
          /\ "first" \in ExitNames
      BY DEF Site, Leads, Type, ExitNames
    <3>. QED
      BY <2>2, <3>1, ExitsSame DEF Runs
  <2>4. CASE Has(text, p + 7, SaveSite)
    <3>1. p + 7 + 8 = p + 15 /\ p + 7 + 19 = p + 26
      BY <1>2
    <3>2. Has(text, p + 15, SaveType("JMP")) /\ GoTo(text, p + 26, d)
      BY <1>7 DEF Chained
    <3>3. Fresh("first")'
      BY <2>2, <2>3, <2>4 DEF Fresh, Runs
    <3>4. AtSite'
      BY <1>1, <1>7, <2>2, <2>3, <2>4, <3>1, <3>2, <3>3 DEF AtSite, Runs, Cached
    <3>. QED
      BY <2>2, <3>4, MovedKept DEF Place
  <2>5. CASE cache[d] >= TEXT /\ Has(text, p + 7, I("JMP", 5, cache[d]))
    <3>1. AtJump'
      BY <1>1, <1>4, <2>2, <2>5 DEF AtJump, Runs, Cached, Near
    <3>. QED
      BY <2>2, <3>1, MovedKept DEF Place
  <2>. QED
    BY <1>7, <2>4, <2>5 DEF Chained
<1>. QED
  BY <1>2, <1>5, <1>6, <1>7 DEF FirstCode

LEMMA SecondStep ==
    ASSUME ExitInv, mode = "run", Next, AtSecond
    PROVE  ExitInv'
<1> DEFINE j == Site("second")
           cc == Type("second")
           p == host.ip
<1>1. /\ exit.kind = "BRANCH" /\ flag_chain /\ Cached(0) /\ chain_end = 0 /\ guest.due = next
      /\ Has(text, j, I(cc, 6, p))
      /\ Has(text, p, MovAx(j)) /\ Has(text, p + 7, SaveSite) /\ Has(text, p + 15, SaveType(cc))
      /\ GoTo(text, p + 26, next)
  BY DEF AtSecond, SecondSite
<1>2. MovAx(j).op = "MOV_AX" /\ MovAx(j).len = 7 /\ MovAx(j).v = j
  BY DEF MovAx, I
<1>3. /\ Runs /\ UNCHANGED <<chain_end, chain_type, guest>> /\ DOMAIN host' = Registers
      /\ host'.ip = p + 7 /\ host'.ax = j
  BY <1>1, <1>2, Moved, HostRegisters
<1>4. p \in Nat
  BY <1>1, InText
<1>5. p + 7 + 8 = p + 15 /\ p + 7 + 19 = p + 26
  BY <1>4
<1>6. Fresh("second") /\ Leads("second") = next /\ "second" \in ExitNames
  BY <1>1 DEF Fresh, Leads, ExitNames, Has
<1>7. /\ Fresh("second")' /\ Leads("second")' = next /\ "second" \in ExitNames'
      /\ Site("second")' = j /\ Type("second")' = cc
  BY <1>3, <1>6, FreshSame, ExitsSame DEF Runs
<1> HIDE DEF j, cc
<1>8. AtSite'
  BY <1>1, <1>3, <1>5, <1>7 DEF AtSite, Runs, Cached
<1>. QED
  BY <1>3, <1>8, MovedKept DEF Place

LEMMA SiteStep ==
    ASSUME ExitInv, mode = "run", Next, AtSite
    PROVE  ExitInv'
<1> DEFINE p == host.ip
<1>1. flag_chain /\ Cached(0)
  BY DEF AtSite
<1>2. PICK k \in ExitNames :
        /\ guest.due = Leads(k) /\ Fresh(k) /\ host.ax = Site(k)
        /\ Has(text, p, SaveSite) /\ Has(text, p + 8, SaveType(Type(k)))
        /\ GoTo(text, p + 19, Leads(k))
  BY DEF AtSite
<1>3. SaveSite.op = "MOV_CHAIN_END" /\ SaveSite.len = 8
  BY DEF SaveSite, I
<1>4. /\ Runs /\ UNCHANGED guest /\ DOMAIN host' = Registers
      /\ host'.ip = p + 8 /\ chain_end' = Site(k)
  BY <1>2, <1>3, Saved, HostRegisters
<1>5. p \in Nat
  BY <1>2, InText
<1>6. p + 8 + 11 = p + 19
  BY <1>5
<1>7. /\ Fresh(k)' /\ k \in ExitNames'
      /\ Site(k)' = Site(k) /\ Type(k)' = Type(k) /\ Leads(k)' = Leads(k)
  BY <1>2, <1>4, FreshSame, ExitsSame DEF Runs
<1>8. AtType'
  BY <1>1, <1>2, <1>4, <1>6, <1>7 DEF AtType, Runs, Cached
<1>9. guest' \in [rs1 : Word, rs2 : Word, due : Addrs]
  BY <1>4 DEF ExitInv, StateType
<1>. QED
  BY <1>1, <1>4, <1>8, <1>9, RunKept DEF Place, Registers

LEMMA TypeStep ==
    ASSUME ExitInv, mode = "run", Next, AtType
    PROVE  ExitInv'
<1> DEFINE p == host.ip
<1>1. flag_chain /\ Cached(0)
  BY DEF AtType
<1>2. PICK k \in ExitNames :
        /\ guest.due = Leads(k) /\ Fresh(k) /\ chain_end = Site(k)
        /\ Has(text, p, SaveType(Type(k))) /\ GoTo(text, p + 11, Leads(k))
  BY DEF AtType
<1> DEFINE m == SaveType(Type(k))
<1>3. m.op = "MOV_CHAIN_TYPE" /\ m.len = 11 /\ m.v = Type(k)
  BY DEF SaveType, I
<1> HIDE DEF m
<1>4. /\ Runs /\ UNCHANGED guest /\ DOMAIN host' = Registers
      /\ host'.ip = p + 11 /\ chain_end' = chain_end /\ chain_type' = Type(k)
  BY <1>2, <1>3, Saved, HostRegisters DEF m
<1>5. /\ Fresh(k)' /\ k \in ExitNames'
      /\ Site(k)' = Site(k) /\ Type(k)' = Type(k) /\ Leads(k)' = Leads(k)
  BY <1>2, <1>4, FreshSame, ExitsSame DEF Runs
<1>6. Pending(k)'
  BY <1>1, <1>2, <1>4, <1>5 DEF Pending, Runs, Cached
<1>7. Exiting'
  BY <1>1, <1>4, <1>5, <1>6 DEF Exiting, Runs, Cached
<1>8. AtGoTo'
  BY <1>2, <1>4, <1>7 DEF AtGoTo, Runs
<1>. QED
  BY <1>4, <1>8, MovedKept DEF Place

\* A site has not been chained while it still saves itself.
LEMMA FreshNotUsed ==
    ASSUME ExitInv, NEW k, Fresh(k)
    PROVE  ~Used(k)
<1> SUFFICES ASSUME Used(k)
             PROVE  FALSE
  OBVIOUS
<1>1. CASE k = "first"
  <2>1. SaveSite.op = "MOV_CHAIN_END" /\ \A n, v : I("JMP", n, v).op = "JMP"
    BY DEF SaveSite, I
  <2>. QED
    BY <1>1, <2>1 DEF Fresh, Used, Type, Has
<1>2. CASE k # "first"
  <2> DEFINE cc == Type(k)
  <2>1. PICK n \in DOMAIN text : Has(text, Site(k), I(cc, 6, n)) /\ Has(text, n, MovAx(Site(k)))
    BY <1>2 DEF Fresh
  <2>2. Has(text, Site(k), I(cc, 6, cache[Leads(k)])) /\ Cached(Leads(k))
    BY <1>2 DEF Used
  <2>3. Leads(k) = next /\ next \in Addrs
    BY <1>2 DEF Leads, next, Addrs
  <2>4. I(cc, 6, n).v = n /\ I(cc, 6, cache[next]).v = cache[next]
    BY DEF I
  <2>5. n = cache[next]
    BY <2>1, <2>2, <2>3, <2>4 DEF Has
  <2>6. Has(text, n, Body(next))
    BY <2>2, <2>3, <2>5, LayoutAt
  <2>7. Body(next).op = "BODY" /\ MovAx(Site(k)).op = "MOV_AX"
    BY DEF Body, MovAx, I
  <2>. QED
    BY <2>1, <2>6, <2>7 DEF Has
<1>. QED
  BY <1>1, <1>2

LEMMA ReturnCounted ==
    ASSUME ExitInv, mode = "run", Exiting, mode' = "loop",
           UNCHANGED <<exit, flag_chain, cache, text, chain_end, chain_type, guest>>,
           returns' = [returns EXCEPT ![guest.due] = IF @ < 3 THEN @ + 1 ELSE 3]
    PROVE  Counted'
<1> SUFFICES ASSUME flag_chain, NEW a \in Addrs
             PROVE  returns'[a] <= Returned(a)'
  BY DEF Counted
<1>1. PICK k \in ExitNames : Pending(k)
  BY DEF Exiting
<1>2. Pending(k)'
  BY <1>1, PendingSame
<1>3. Gone(k)' /\ ~Gone(k)
  BY <1>1, <1>2, FreshNotUsed DEF Gone, Pending
<1>4. ASSUME NEW n, Gone(n)
      PROVE  Gone(n)'
  BY <1>4, UsedSame DEF Gone
<1>5. Gone("first") => Gone("first")'
  BY <1>4
<1>6. Gone("second") => Gone("second")'
  BY <1>4
<1>7. Leads("first")' = Leads("first")
  BY ExitsSame
<1>8. returns[a] <= Returned(a) /\ returns \in [Addrs -> 0 .. 3] /\ guest.due \in Addrs
  BY DEF ExitInv, Counted, StateType
<1>9. guest.due = Leads(k)
  BY <1>1 DEF Pending
<1> DEFINE first == IF Leads("first") = a /\ Gone("first") THEN 1 ELSE 0
           second == IF exit.kind = "BRANCH" /\ a = next /\ Gone("second") THEN 1 ELSE 0
           first1 == IF Leads("first") = a /\ Gone("first")' THEN 1 ELSE 0
           second1 == IF exit.kind = "BRANCH" /\ a = next /\ Gone("second")' THEN 1 ELSE 0
<1>10. Returned(a) = first + second
  BY DEF Returned
<1>11. Returned(a)' = first1 + second1
  BY <1>7 DEF Returned, next
<1>12. first <= first1 /\ second <= second1
  BY <1>5, <1>6
<1>13. first \in 0 .. 1 /\ second \in 0 .. 1 /\ first1 \in 0 .. 1 /\ second1 \in 0 .. 1
  OBVIOUS
<1>14. a = guest.due => first + second + 1 <= first1 + second1
  <2>1. CASE k = "first"
    <3>1. a = guest.due => first = 0 /\ first1 = 1
      BY <1>3, <1>9, <2>1
    <3> HIDE DEF first, second, first1, second1
    <3>. QED
      BY <1>12, <1>13, <3>1
  <2>2. CASE k = "second"
    <3>1. exit.kind = "BRANCH" /\ Leads(k) = next
      BY <2>2 DEF ExitNames, Leads
    <3>2. a = guest.due => second = 0 /\ second1 = 1
      BY <1>3, <1>9, <2>2, <3>1
    <3> HIDE DEF first, second, first1, second1
    <3>. QED
      BY <1>12, <1>13, <3>2
  <2>. QED
    BY <2>1, <2>2 DEF ExitNames
<1> HIDE DEF first, second, first1, second1
<1>15. returns'[a] = IF a = guest.due THEN IF returns[a] < 3 THEN returns[a] + 1 ELSE 3 ELSE returns[a]
  BY <1>8
<1>16. returns[a] \in 0 .. 3
  BY <1>8
<1>17. returns'[a] <= IF a = guest.due THEN returns[a] + 1 ELSE returns[a]
  BY <1>15, <1>16
<1>. QED
  BY <1>8, <1>10, <1>11, <1>12, <1>13, <1>14, <1>15, <1>16, <1>17

LEMMA LeaveStep ==
    ASSUME ExitInv, mode = "run", Next, AtLeave
    PROVE  ExitInv'
<1>1. Exiting /\ host.pc = guest.due
  BY DEF AtLeave
<1>2. CASE Has(text, host.ip, I("RET", 1, 0))
  <2>1. I("RET", 1, 0).op = "RET" /\ I("RET", 1, 0).v = 0
    BY DEF I
  <2>2. RunRet /\ i.v = 0
    BY <1>2, <2>1, Executes
  <2>3. /\ mode' = "loop"
        /\ UNCHANGED <<exit, flag_chain, cache, text, currentPos, chain_end, chain_type, host, guest>>
        /\ returns' = [returns EXCEPT ![guest.due] = IF @ < 3 THEN @ + 1 ELSE 3]
    BY <2>2 DEF RunRet
  <2>4. returns \in [Addrs -> 0 .. 3] /\ guest.due \in Addrs
    BY DEF ExitInv, StateType
  <2>5. returns' \in [Addrs -> 0 .. 3]
    <3>1. \A n \in 0 .. 3 : (IF n < 3 THEN n + 1 ELSE 3) \in 0 .. 3
      OBVIOUS
    <3>. QED
      BY <2>3, <2>4, <3>1
  <2>6. StateType' /\ Blocks'
    BY <2>3, <2>5 DEF ExitInv, StateType, Blocks, Cached
  <2>7. Counted'
    BY <1>1, <2>3, ReturnCounted
  <2>8. InLoop'
    <3>1. CASE flag_chain
      <4>1. PICK k \in ExitNames : Pending(k)
        BY <1>1, <3>1 DEF Exiting
      <4>2. Pending(k)' /\ k \in ExitNames'
        BY <2>3, <4>1, PendingSame, ExitsSame
      <4>. QED
        BY <1>1, <2>3, <4>2 DEF InLoop
    <3>2. CASE ~flag_chain
      BY <1>1, <2>3, <3>2 DEF InLoop, Exiting
    <3>. QED
      BY <3>1, <3>2
  <2>. QED
    BY <2>3, <2>6, <2>7, <2>8 DEF ExitInv
<1>3. ASSUME NEW q \in DOMAIN text, Has(text, host.ip, I("JMP", 2, q)), Has(text, q, I("RET", 1, 0))
      PROVE  ExitInv'
  <2>1. I("JMP", 2, q).op = "JMP" /\ I("JMP", 2, q).v = q
    BY DEF I
  <2>2. /\ Runs /\ UNCHANGED <<chain_end, chain_type, guest>> /\ DOMAIN host' = Registers
        /\ host'.ip = q /\ host'.pc = host.pc
    BY <1>3, <2>1, JumpedAlways, HostRegisters
  <2>3. Exiting'
    BY <1>1, <2>2, ExitingSame DEF Runs
  <2>4. AtLeave'
    BY <1>1, <1>3, <2>2, <2>3 DEF AtLeave, Leave, Runs
  <2>. QED
    BY <2>2, <2>4, MovedKept DEF Place
<1>. QED
  BY <1>2, <1>3 DEF AtLeave, Leave

LEMMA RunStep ==
    ASSUME PowersOf2, ExitInv, mode = "run", Next
    PROVE  ExitInv'
<1>1. CASE AtCompare
  BY <1>1, CompareStep, ComparedStep, BranchStep DEF AtCompare
<1>2. Place
  BY DEF ExitInv
<1>. QED
  BY <1>1, <1>2, BodyStep, JalrStep, WriteBacksStep, FirstStep, SecondStep, JumpStep, SiteStep,
     TypeStep, GoToStep, PcAxStep, LeaveStep DEF Place

-----------------------------------------------------------------------------
(* Chaining: what a jump that is written over a site changes. *)

Patchable == {"MOV_CHAIN_END"} \cup Conds

\* u is t with another instruction at s, where one that is chained was.
Patched(t, u, s) == KeptBut(t, u, s) /\ DOMAIN u = DOMAIN t /\ t[s].op \in Patchable

LEMMA PatchedHas ==
    ASSUME NEW t, NEW u, NEW s, Patched(t, u, s)
    PROVE  /\ \A p, m : Has(t, p, m) /\ m.op \notin Patchable => Has(u, p, m)
           /\ \A p, m : Has(t, p, m) /\ p # s => Has(u, p, m)
BY DEF Patched, KeptBut, Has

LEMMA PatchedLeave ==
    ASSUME NEW t, NEW u, NEW s, Patched(t, u, s), NEW p, Leave(t, p)
    PROVE  Leave(u, p)
<1>1. I("RET", 1, 0).op \notin Patchable /\ \A q : I("JMP", 2, q).op \notin Patchable
  BY DEF I, Patchable, Conds
<1>2. Has(t, p, I("RET", 1, 0)) => Has(u, p, I("RET", 1, 0))
  BY <1>1, PatchedHas
<1>3. \A q \in DOMAIN t : Has(t, p, I("JMP", 2, q)) /\ Has(t, q, I("RET", 1, 0))
                        => Has(u, p, I("JMP", 2, q)) /\ Has(u, q, I("RET", 1, 0))
  BY <1>1, PatchedHas
<1>. QED
  BY <1>2, <1>3 DEF Leave, Patched

LEMMA PatchedGoTo ==
    ASSUME NEW t, NEW u, NEW s, Patched(t, u, s), NEW p, NEW d, GoTo(t, p, d)
    PROVE  GoTo(u, p, d)
<1>1. MovPc(d).op \notin Patchable /\ MovAx(d).op \notin Patchable /\ MovPcAx.op \notin Patchable
  BY DEF MovPc, MovAx, MovPcAx, I, Patchable, Conds
<1>. QED
  BY <1>1, PatchedHas, PatchedLeave DEF GoTo

LEMMA PatchedJalr ==
    ASSUME NEW t, NEW u, NEW s, Patched(t, u, s), NEW f, NEW p, NEW a, JalrCode(t, f, p, a)
    PROVE  JalrCode(u, f, p, a)
<1>1. /\ WriteBacks.op \notin Patchable /\ I("MOV_AX_RS1", 8, 0).op \notin Patchable
      /\ NoSite.op \notin Patchable /\ MovPcAx.op \notin Patchable /\ I("RET", 1, a).op \notin Patchable
  BY DEF WriteBacks, NoSite, MovPcAx, I, Patchable, Conds
<1>. QED
  BY <1>1, PatchedHas DEF JalrCode

\* All of an unconditional exit but its site.
LEMMA PatchedFirst ==
    ASSUME NEW t, NEW u, NEW s, Patched(t, u, s), NEW c, NEW f, NEW p, NEW d,
           FirstCode(t, c, f, p, d),
           Has(t, p + 7, SaveSite) =>
               Has(u, p + 7, SaveSite) \/ (c[d] >= TEXT /\ Has(u, p + 7, I("JMP", 5, c[d])))
    PROVE  FirstCode(u, c, f, p, d)
<1>1. /\ LeaAx.op \notin Patchable /\ SaveType("JMP").op \notin Patchable
      /\ \A n, v : I("JMP", n, v).op \notin Patchable
  BY DEF LeaAx, SaveType, I, Patchable, Conds
<1>2. \A q, m : Has(t, q, m) /\ m.op \notin Patchable => Has(u, q, m)
  BY PatchedHas
<1>3. Direct(t, c, p, d) => Direct(u, c, p, d)
  BY <1>1, <1>2 DEF Direct
<1>4. Chained(t, c, p, d) => Chained(u, c, p, d)
  BY <1>1, <1>2, PatchedGoTo DEF Chained
<1>. QED
  BY <1>3, <1>4, PatchedGoTo DEF FirstCode

\* The site of the unconditional exit becomes a jump to its target.
LEMMA FirstChained ==
    ASSUME NEW t, NEW u, NEW n, Tidy(t, n), NEW c, NEW f, NEW x \in Exits, NEW p \in Nat,
           ExitLayout(t, c, f, x, p), c[Dest(x)] >= TEXT,
           NEW s, s = p + (IF x.kind = "BRANCH" THEN 28 ELSE 19),
           Patched(t, u, s), Has(t, s, SaveSite), Has(u, s, I("JMP", 5, c[Dest(x)]))
    PROVE  ExitLayout(u, c, f, x, p)
<1>1. /\ WriteBacks.op \notin Patchable /\ Compare(x).op \notin Patchable
  BY DEF WriteBacks, Compare, I, Patchable, Conds
<1>2. /\ \A q, m : Has(t, q, m) /\ m.op \notin Patchable => Has(u, q, m)
      /\ \A q, m : Has(t, q, m) /\ q # s => Has(u, q, m)
  BY PatchedHas
<1>3. CASE x.kind = "BRANCH"
  <2> DEFINE cc == NotTaken[x.mnem]
             j == p + 15
  <2>1. /\ Has(t, p + 4, Compare(x)) /\ Has(t, p + 7, WriteBacks)
        /\ SecondCode(t, c, f, j, cc) /\ FirstCode(t, c, f, p + 21, x.target)
    BY <1>3 DEF ExitLayout
  <2>2. Has(u, p + 4, Compare(x)) /\ Has(u, p + 7, WriteBacks)
    BY <1>1, <1>2, <2>1
  <2>3. Dest(x) = x.target
    BY <1>3, ExitFields
  <2>4. p + 21 + 7 = s /\ s = j + 13 /\ j \in Nat
    BY <1>3
  <2>5. FirstCode(u, c, f, p + 21, x.target)
    BY <2>1, <2>3, <2>4, PatchedFirst
  <2> HIDE DEF cc, j
  <2>6. PICK b \in DOMAIN t \cup {c[next]} :
          /\ Has(t, j, I(cc, 6, b))
          /\ IF f THEN (c[next] >= TEXT /\ b = c[next]) \/ SecondSite(t, b, j, cc)
             ELSE GoTo(t, b, next)
    BY <2>1 DEF SecondCode
  <2>7. Has(u, j, I(cc, 6, b))
    <3>1. j # s
      BY <2>4
    <3>. QED
      BY <1>2, <2>6, <3>1
  <2>8. SecondSite(t, b, j, cc) => SecondSite(u, b, j, cc)
    <3> SUFFICES ASSUME SecondSite(t, b, j, cc)
                 PROVE  SecondSite(u, b, j, cc)
      OBVIOUS
    <3>1. /\ Has(t, b, MovAx(j)) /\ Has(t, b + 7, SaveSite) /\ Has(t, b + 15, SaveType(cc))
          /\ GoTo(t, b + 26, next) /\ b # j + 6
      BY DEF SecondSite
    <3>2. b \in Nat
      BY <3>1 DEF Tidy, Has
    <3>3. b + 7 # s
      BY <2>4, <3>1, <3>2
    <3>4. MovAx(j).op \notin Patchable /\ SaveType(cc).op \notin Patchable
      BY DEF MovAx, SaveType, I, Patchable, Conds
    <3>5. Has(u, b, MovAx(j)) /\ Has(u, b + 7, SaveSite) /\ Has(u, b + 15, SaveType(cc))
      BY <1>2, <3>1, <3>3, <3>4
    <3>6. GoTo(u, b + 26, next)
      BY <3>1, PatchedGoTo
    <3>. QED
      BY <3>1, <3>5, <3>6 DEF SecondSite
  <2>9. GoTo(t, b, next) => GoTo(u, b, next)
    BY PatchedGoTo
  <2>10. b \in DOMAIN u \cup {c[next]}
    BY <2>6 DEF Patched
  <2>11. SecondCode(u, c, f, j, cc)
    BY <2>6, <2>7, <2>8, <2>9, <2>10 DEF SecondCode
  <2>. QED
    BY <1>3, <2>2, <2>5, <2>11 DEF ExitLayout, cc, j
<1>4. CASE x.kind # "BRANCH"
  <2>1. Has(t, p + 4, WriteBacks) /\ FirstCode(t, c, f, p + 12, Dest(x))
    BY <1>4 DEF ExitLayout
  <2>2. p + 12 + 7 = s
    BY <1>4
  <2>3. FirstCode(u, c, f, p + 12, Dest(x))
    BY <2>1, <2>2, PatchedFirst
  <2>. QED
    BY <1>1, <1>2, <1>4, <2>1, <2>3 DEF ExitLayout
<1>. QED
  BY <1>3, <1>4

\* The conditional jump of a branch leads to the following block.
LEMMA SecondChained ==
    ASSUME NEW t, NEW u, NEW c, NEW f, NEW x \in Exits, NEW p \in Nat, f, x.kind = "BRANCH",
           ExitLayout(t, c, f, x, p), c[next] >= TEXT,
           Patched(t, u, p + 15), t[p + 15].op \in Conds,
           Has(u, p + 15, I(NotTaken[x.mnem], 6, c[next]))
    PROVE  ExitLayout(u, c, f, x, p)
<1>1. /\ WriteBacks.op \notin Patchable /\ Compare(x).op \notin Patchable
  BY DEF WriteBacks, Compare, I, Patchable, Conds
<1>2. /\ \A q, m : Has(t, q, m) /\ m.op \notin Patchable => Has(u, q, m)
      /\ \A q, m : Has(t, q, m) /\ q # p + 15 => Has(u, q, m)
  BY PatchedHas
<1>3. /\ Has(t, p + 4, Compare(x)) /\ Has(t, p + 7, WriteBacks)
      /\ FirstCode(t, c, f, p + 21, x.target)
  BY DEF ExitLayout
<1>4. Has(u, p + 4, Compare(x)) /\ Has(u, p + 7, WriteBacks)
  BY <1>1, <1>2, <1>3
<1>5. p + 21 + 7 # p + 15
  OBVIOUS
<1>6. FirstCode(u, c, f, p + 21, x.target)
  <2>1. Has(t, p + 21 + 7, SaveSite) => Has(u, p + 21 + 7, SaveSite)
    BY <1>2, <1>5
  <2>. QED
    BY <1>3, <2>1, PatchedFirst
<1>7. SecondCode(u, c, f, p + 15, NotTaken[x.mnem])
  BY DEF SecondCode
<1>. QED
  BY <1>4, <1>6, <1>7 DEF ExitLayout

LEMMA SiteType ==
    ASSUME ExitInv, Cached(0), NEW k \in ExitNames
    PROVE  /\ Site(k) \in Nat /\ Site(k) >= TEXT /\ Leads(k) \in Addrs
           /\ k # "first" => k = "second" /\ exit.kind = "BRANCH" /\ Type(k) \in Conds
           /\ k = "first" => Type(k) = "JMP"
<1>1. cache[0] \in Nat /\ cache[0] >= TEXT
  <2>1. 0 \in Addrs
    BY DEF Addrs
  <2>. QED
    BY <2>1 DEF ExitInv, StateType, Blocks, Layout
<1>2. /\ Dest(exit) \in Addrs /\ next \in Addrs
      /\ exit.kind = "BRANCH" => exit.mnem \in BranchOps
  BY ExitFields DEF ExitInv, StateType
<1>3. Site(k) \in Nat /\ Site(k) >= TEXT
  BY <1>1 DEF Site, FirstExit, TEXT
<1>4. Leads(k) \in Addrs
  BY <1>2 DEF Leads
<1>5. k # "first" => k = "second" /\ exit.kind = "BRANCH"
  BY DEF ExitNames
<1>. QED
  BY <1>2, <1>3, <1>4, <1>5, NotTakenType DEF Type

\* The jump that chain writes, and what it writes it over.
LEMMA ChainWrites ==
    ASSUME ExitInv, NEW k \in ExitNames, Pending(k), NEW b
    PROVE  LET u == chain(text, b)
           IN  /\ Tidy(u, currentPos) /\ Patched(text, u, Site(k))
               /\ Has(u, Site(k), I(Type(k), IF k = "first" THEN 5 ELSE 6, b))
               /\ k = "first" => Has(text, Site(k), SaveSite)
               /\ k # "first" => text[Site(k)].op \in Conds
<1>1. flag_chain /\ Cached(0) /\ Fresh(k) /\ chain_end = Site(k) /\ chain_type = Type(k)
  BY DEF Pending
<1>2. /\ Site(k) \in Nat /\ Site(k) >= TEXT
      /\ k # "first" => Type(k) \in Conds
      /\ k = "first" => Type(k) = "JMP"
  BY <1>1, SiteType
<1> DEFINE m == I(Type(k), IF k = "first" THEN 5 ELSE 6, b)
<1>3. Jump(Type(k), Site(k), b, TRUE) = m
  <2>1. CASE k = "first"
    BY <1>2, <2>1 DEF Jump, I
  <2>2. CASE k # "first"
    BY <1>2, <2>2, LongJump
  <2>. QED
    BY <2>1, <2>2
<1>4. chain(text, b) = Put(text, Site(k), m)
  <2>1. chain_end # 0
    BY <1>1, <1>2 DEF TEXT
  <2>2. chain(text, b) = Put(text, chain_end, Jump(chain_type, chain_end, b, TRUE))
    BY <1>1, <2>1 DEF chain
  <2>. QED
    BY <1>1, <1>3, <2>2
<1>5. /\ Site(k) \in DOMAIN text /\ m.len \in Nat \ {0} /\ m.len <= text[Site(k)].len
      /\ text[Site(k)].op \in Patchable
      /\ k = "first" => Has(text, Site(k), SaveSite)
      /\ k # "first" => text[Site(k)].op \in Conds
  <2>1. CASE k = "first"
    <3>1. Has(text, Site(k), SaveSite) /\ SaveSite.len = 8 /\ SaveSite.op = "MOV_CHAIN_END"
      BY <1>1, <2>1 DEF Fresh, SaveSite, I
    <3>2. m.len = 5
      BY <2>1 DEF I
    <3>. QED
      BY <2>1, <3>1, <3>2 DEF Has, Patchable
  <2>2. CASE k # "first"
    <3>1. PICK n \in DOMAIN text : Has(text, Site(k), I(Type(k), 6, n))
      BY <1>1, <2>2 DEF Fresh
    <3>2. I(Type(k), 6, n).len = 6 /\ I(Type(k), 6, n).op = Type(k)
      BY DEF I
    <3>3. m.len = 6
      BY <2>2 DEF I
    <3>. QED
      BY <1>2, <2>2, <3>1, <3>2, <3>3 DEF Has, Patchable
  <2>. QED
    BY <2>1, <2>2
<1> HIDE DEF m
<1>6. Tidy(text, currentPos) /\ currentPos \in Nat
  BY DEF ExitInv, StateType
<1>7. /\ Tidy(Put(text, Site(k), m), currentPos) /\ KeptBut(text, Put(text, Site(k), m), Site(k))
      /\ Has(Put(text, Site(k), m), Site(k), m) /\ DOMAIN Put(text, Site(k), m) = DOMAIN text
  BY <1>5, <1>6, PutReplaces
<1>8. Has(chain(text, b), Site(k), m)
  BY <1>4, <1>7
<1>. QED
  BY <1>4, <1>5, <1>7, <1>8 DEF Patched, m

\* The blocks that are there stay what they are when an exit is chained.
LEMMA ChainKeepsBlocks ==
    ASSUME ExitInv, NEW k \in ExitNames, Pending(k), Cached(Leads(k)), NEW a \in Addrs, Cached(a)
    PROVE  Layout(chain(text, cache[Leads(k)]), cache, flag_chain, exit, a)
<1> DEFINE b == cache[Leads(k)]
           u == chain(text, b)
<1>1. /\ Tidy(u, currentPos) /\ Patched(text, u, Site(k))
      /\ Has(u, Site(k), I(Type(k), IF k = "first" THEN 5 ELSE 6, b))
      /\ k = "first" => Has(text, Site(k), SaveSite)
      /\ k # "first" => text[Site(k)].op \in Conds
  BY ChainWrites
<1> HIDE DEF u
<1>2. Layout(text, cache, flag_chain, exit, a)
  BY DEF ExitInv, Blocks
<1>3. Body(a).op \notin Patchable
  BY DEF Body, I, Patchable, Conds
<1>4. cache[a] >= TEXT /\ Has(u, cache[a], Body(a))
  BY <1>1, <1>2, <1>3, PatchedHas DEF Layout
<1>5. CASE a # 0
  BY <1>1, <1>2, <1>4, <1>5, PatchedJalr DEF Layout, u
<1>6. CASE a = 0
  <2>1. /\ flag_chain /\ Cached(0) /\ Leads(k) \in Addrs
        /\ k # "first" => k = "second" /\ exit.kind = "BRANCH"
    BY SiteType DEF Pending
  <2>2. Layout(text, cache, flag_chain, exit, Leads(k))
    BY <2>1 DEF ExitInv, Blocks
  <2>3. b >= TEXT
    BY <2>2 DEF Layout
  <2>4. cache[0] \in Nat /\ ExitLayout(text, cache, flag_chain, exit, cache[0])
    BY <1>2, <1>6 DEF Layout, ExitInv, StateType
  <2>5. exit \in Exits /\ Tidy(text, currentPos)
    BY DEF ExitInv, StateType
  <2>6. CASE k = "first"
    <3>1. Leads(k) = Dest(exit) /\ Type(k) = "JMP"
      BY <2>6 DEF Leads, Type
    <3>2. Site(k) = cache[0] + (IF exit.kind = "BRANCH" THEN 28 ELSE 19)
      BY <2>4, <2>6 DEF Site, FirstExit
    <3>3. Has(u, Site(k), I("JMP", 5, cache[Dest(exit)]))
      BY <1>1, <2>6, <3>1
    <3>4. ExitLayout(u, cache, flag_chain, exit, cache[0])
      BY <1>1, <2>3, <2>4, <2>5, <2>6, <3>1, <3>2, <3>3, FirstChained
    <3>. QED
      BY <1>4, <1>6, <3>4 DEF Layout, u
  <2>7. CASE k = "second"
    <3>1. Leads(k) = next /\ Type(k) = NotTaken[exit.mnem] /\ Site(k) = cache[0] + 15
      BY <2>7 DEF Leads, Type, Site
    <3>2. Has(u, cache[0] + 15, I(NotTaken[exit.mnem], 6, cache[next]))
      BY <1>1, <2>7, <3>1
    <3>4. ExitLayout(u, cache, flag_chain, exit, cache[0])
      BY <1>1, <2>1, <2>3, <2>4, <2>5, <2>7, <3>1, <3>2, SecondChained
    <3>. QED
      BY <1>4, <1>6, <3>4 DEF Layout, u
  <2>. QED
    BY <2>1, <2>6, <2>7
<1>. QED
  BY <1>5, <1>6

LEMMA SitesDiffer ==
    ASSUME ExitInv, Cached(0), NEW k \in ExitNames, NEW n \in ExitNames, Site(k) = Site(n)
    PROVE  k = n
<1>1. cache[0] \in Nat
  BY DEF ExitInv, StateType, Addrs
<1>2. CASE exit.kind = "BRANCH"
  BY <1>1, <1>2 DEF ExitNames, Site, FirstExit
<1>3. CASE exit.kind # "BRANCH"
  BY <1>3 DEF ExitNames
<1>. QED
  BY <1>2, <1>3

\* The site that is chained is used from then on, and no other is undone.
LEMMA ChainCounts ==
    ASSUME ExitInv, NEW k \in ExitNames, Pending(k), Cached(Leads(k)),
           text' = chain(text, cache[Leads(k)]),
           UNCHANGED <<exit, flag_chain, cache, returns>>
    PROVE  Counted'
<1>1. /\ Patched(text, text', Site(k))
      /\ Has(text', Site(k), I(Type(k), IF k = "first" THEN 5 ELSE 6, cache[Leads(k)]))
  BY ChainWrites
<1>2. Cached(0) /\ chain_end = Site(k)
  BY DEF Pending
<1>3. ASSUME NEW n \in ExitNames, Gone(n)
      PROVE  Gone(n)'
  <2>1. /\ Site(n)' = Site(n) /\ Type(n)' = Type(n) /\ Leads(n)' = Leads(n)
        /\ Cached(0)' /\ Cached(Leads(n))' = Cached(Leads(n))
    BY <1>2, ExitsSame DEF Cached
  <2>2. CASE n = k
    BY <1>1, <2>1, <2>2 DEF Gone, Used
  <2>3. CASE n # k
    <3>1. Site(n) # Site(k)
      BY <1>2, <2>3, SitesDiffer
    <3>2. Used(n)
      BY <1>2, <1>3, <3>1 DEF Gone, Pending
    <3>3. Has(text', Site(n), I(Type(n), IF n = "first" THEN 5 ELSE 6, cache[Leads(n)]))
      BY <1>1, <3>1, <3>2, PatchedHas DEF Used
    <3>. QED
      BY <2>1, <3>2, <3>3 DEF Gone, Used
  <2>. QED
    BY <2>2, <2>3
<1>. QED
  BY <1>3, CountKept DEF ExitInv, StateType

\* Nothing to chain: the text stays.
LEMMA NothingChained ==
    ASSUME ExitInv, chain_end = 0 \/ ~flag_chain, NEW b
    PROVE  chain(text, b) = text /\ (Cached(0) => ~ \E k \in ExitNames : Pending(k))
<1>1. chain(text, b) = text
  BY DEF chain
<1>2. ASSUME NEW k \in ExitNames, Pending(k), Cached(0)
      PROVE  FALSE
  BY <1>2, SiteType DEF Pending, TEXT
<1>. QED
  BY <1>1, <1>2

LEMMA ExecuteStep ==
    ASSUME ExitInv, Execute
    PROVE  ExitInv'
<1> DEFINE b == cache[host.pc]
<1>1. /\ mode = "loop" /\ Cached(host.pc) /\ text' = chain(text, b)
      /\ chain_end' = IF flag_chain THEN 0 ELSE chain_end
      /\ mode' = "run" /\ host' = [host EXCEPT !.ip = b]
      /\ UNCHANGED <<exit, flag_chain, cache, currentPos, chain_type, guest, returns>>
  BY DEF Execute, Cached
<1>2. /\ host.pc = guest.due /\ guest.due \in Addrs
      /\ chain_end = 0 \/ \E k \in ExitNames : Pending(k)
  BY <1>1 DEF ExitInv, InLoop, StateType
<1>3. chain_end' = 0
  BY <1>1 DEF ExitInv, StateType
<1>4. chain_end = 0 => Counted' /\ Tidy(text', currentPos) /\ Blocks'
  <2> SUFFICES ASSUME chain_end = 0
               PROVE  Counted' /\ Tidy(text', currentPos) /\ Blocks'
    OBVIOUS
  <2>1. text' = text
    BY <1>1, NothingChained
  <2>2. ~ \E k \in ExitNames : Pending(k)
    BY NothingChained DEF Pending
  <2>3. Counted'
    <3>1. ASSUME NEW k \in ExitNames, Gone(k)
          PROVE  Gone(k)'
      BY <1>1, <2>1, <2>2, <3>1, UsedSame DEF Gone
    <3>. QED
      BY <1>1, <3>1, CountKept DEF ExitInv, StateType
  <2>4. Tidy(text', currentPos) /\ Blocks'
    BY <1>1, <2>1 DEF ExitInv, StateType, Blocks, Cached
  <2>. QED
    BY <2>3, <2>4
<1>5. ASSUME NEW k \in ExitNames, Pending(k)
      PROVE  Counted' /\ Tidy(text', currentPos) /\ Blocks'
  <2>1. guest.due = Leads(k) /\ Cached(Leads(k)) /\ text' = chain(text, cache[Leads(k)])
    BY <1>1, <1>2, <1>5 DEF Pending
  <2>2. Tidy(text', currentPos)
    BY <1>5, <2>1, ChainWrites
  <2>3. Counted'
    BY <1>1, <1>5, <2>1, ChainCounts
  <2>4. Blocks'
    <3>1. ASSUME NEW a \in Addrs, Cached(a)
          PROVE  Layout(text', cache, flag_chain, exit, a)
      BY <1>5, <2>1, <3>1, ChainKeepsBlocks
    <3>. QED
      BY <1>1, <3>1 DEF Blocks, Cached
  <2>. QED
    BY <2>2, <2>3, <2>4
<1>6. Counted' /\ Tidy(text', currentPos) /\ Blocks'
  BY <1>2, <1>4, <1>5
<1>7. StateType'
  BY <1>1, <1>3, <1>6 DEF ExitInv, StateType
<1>8. AtBody'
  <2>1. DOMAIN host = {"ip", "ax", "x", "y", "pc"}
    BY DEF ExitInv, StateType
  <2>2. host'.ip = cache'[guest'.due] /\ Cached(guest.due)'
    BY <1>1, <1>2, <2>1 DEF Cached
  <2>. QED
    BY <1>1, <1>2, <1>3, <2>2 DEF AtBody
<1>. QED
  BY <1>1, <1>6, <1>7, <1>8 DEF ExitInv, Place

-----------------------------------------------------------------------------
(* Translation: blocks are appended. *)

LEMMA Located ==
    ASSUME ExitInv
    PROVE  Known(cache) /\ \A a \in Addrs : Cached(a) => cache[a] >= TEXT
<1>1. \A a \in Addrs : Cached(a) => cache[a] >= TEXT /\ cache[a] \in Nat
  BY DEF ExitInv, Blocks, Layout, StateType
<1>. QED
  BY <1>1 DEF Known, Cached

LEMMA Translated ==
    ASSUME ExitInv, mode = "loop",
           UNCHANGED <<exit, flag_chain, chain_end, chain_type, mode, host, guest, returns>>,
           Grows(text, text'), Extends(cache, cache'), cache' \in [Addrs -> Nat],
           currentPos' \in Nat, currentPos' >= TEXT, Tidy(text', currentPos'),
           \A a \in Addrs : cache'[a] # UNSEEN_CODE => Layout(text', cache', flag_chain, exit, a)
    PROVE  ExitInv'
<1>1. StateType' /\ Blocks'
  BY DEF ExitInv, StateType, Blocks, Cached
<1>2. ASSUME Cached(0), NEW k \in ExitNames
      PROVE  /\ Cached(0)' /\ Site(k)' = Site(k) /\ Type(k)' = Type(k) /\ Leads(k)' = Leads(k)
             /\ Fresh(k) => Fresh(k)'
             /\ Cached(Leads(k)) => cache'[Leads(k)] = cache[Leads(k)] /\ Cached(Leads(k))'
  <2>0. 0 \in Addrs /\ Leads(k) \in Addrs
    BY <1>2, SiteType DEF Addrs
  <2>1. cache'[0] = cache[0] /\ Cached(0)'
    BY <1>2, <2>0, Located DEF Extends, Cached
  <2>2. Site(k)' = Site(k) /\ Type(k)' = Type(k) /\ Leads(k)' = Leads(k)
    BY <2>1 DEF Site, FirstExit, Type, Leads, Dest
  <2>3. Fresh(k) => Fresh(k)'
    <3>1. \A p, m : Has(text, p, m) => Has(text', p, m)
      BY GrowsKeeps
    <3>2. \A p, m : Has(text, p, m) => p \in DOMAIN text'
      BY <3>1 DEF Has
    <3>3. CASE k = "first"
      BY <2>2, <3>1, <3>3 DEF Fresh
    <3>4. CASE k # "first"
      <4> SUFFICES ASSUME Fresh(k)
                   PROVE  Fresh(k)'
        OBVIOUS
      <4>1. PICK n \in DOMAIN text : Has(text, Site(k), I(Type(k), 6, n)) /\ Has(text, n, MovAx(Site(k)))
        BY <3>4 DEF Fresh
      <4>2. n \in DOMAIN text' /\ Has(text', Site(k), I(Type(k), 6, n)) /\ Has(text', n, MovAx(Site(k)))
        BY <3>1, <3>2, <4>1
      <4>. QED
        BY <2>2, <3>4, <4>2 DEF Fresh
    <3>. QED
      BY <3>3, <3>4
  <2>4. Cached(Leads(k)) => cache'[Leads(k)] = cache[Leads(k)] /\ cache'[Leads(k)] # UNSEEN_CODE
    BY <2>0, Located DEF Extends, Cached
  <2>5. Cached(Leads(k)) => Cached(Leads(k))'
    BY <2>2, <2>4 DEF Cached
  <2>. QED
    BY <2>1, <2>2, <2>3, <2>4, <2>5
<1>3. ASSUME NEW k \in ExitNames, Pending(k)
      PROVE  Pending(k)'
  BY <1>2, <1>3 DEF Pending
<1>4. Counted'
  <2>1. ASSUME NEW k \in ExitNames, Gone(k)
        PROVE  Gone(k)'
    <3>1. Used(k) => Used(k)'
      <4>1. \A p, m : Has(text, p, m) => Has(text', p, m)
        BY GrowsKeeps
      <4>. QED
        BY <1>2, <4>1 DEF Used
    <3>. QED
      BY <1>3, <2>1, <3>1 DEF Gone
  <2>. QED
    BY <2>1, CountKept DEF ExitInv, StateType
<1>5. InLoop'
  <2>1. ExitNames' = ExitNames
    BY DEF ExitNames
  <2>. QED
    BY <1>3, <2>1 DEF ExitInv, InLoop
<1>. QED
  BY <1>1, <1>4, <1>5 DEF ExitInv

\* Where the next block begins.
LEMMA NextPosition ==
    ASSUME ExitInv, NEW gap \in Gaps
    PROVE  LET at == currentPos + Align(gap)
           IN  at \in Nat /\ at >= TEXT /\ Tidy(text, at)
<1>1. gap \in Nat /\ Align(gap) \in Nat
  BY GapsAssumption, AlignUp
<1>2. currentPos \in Nat /\ currentPos >= TEXT /\ Tidy(text, currentPos)
  BY DEF ExitInv, StateType
<1> DEFINE at == currentPos + Align(gap)
<1>3. at \in Nat /\ at >= currentPos
  BY <1>1, <1>2
<1> HIDE DEF at
<1>4. \A p \in DOMAIN text : p \in Nat /\ text[p].len \in Nat /\ p + text[p].len <= at
  BY <1>2, <1>3 DEF Tidy
<1>5. Tidy(text, at)
  BY <1>2, <1>4 DEF Tidy
<1>6. at \in Nat /\ at >= TEXT
  BY <1>2, <1>3 DEF TEXT
<1>. QED
  BY <1>5, <1>6 DEF at

\* One block that was not there.
LEMMA OneBlock ==
    ASSUME ExitInv, mode = "loop",
           UNCHANGED <<exit, flag_chain, chain_end, chain_type, mode, host, guest, returns>>,
           NEW gap \in Gaps, NEW a \in Addrs, cache[a] = UNSEEN_CODE,
           text' = translate_block(a, cache, text, currentPos + Align(gap)).text,
           currentPos' = translate_block(a, cache, text, currentPos + Align(gap)).at,
           cache' = [cache EXCEPT ![a] = currentPos + Align(gap)]
    PROVE  ExitInv'
<1> DEFINE at == currentPos + Align(gap)
           b == translate_block(a, cache, text, at)
<1>0. text' = b.text /\ currentPos' = b.at /\ cache' = [cache EXCEPT ![a] = at]
  OBVIOUS
<1>1. at \in Nat /\ at >= TEXT /\ Tidy(text, at)
  BY NextPosition
<1>2. exit \in Exits /\ cache \in [Addrs -> Nat]
  BY DEF ExitInv, StateType
<1> HIDE DEF at
<1>3. cache' \in [Addrs -> Nat] /\ cache'[a] = at /\ \A d \in Addrs : d # a => cache'[d] = cache[d]
  BY <1>0, <1>1, <1>2
<1>4. Extends(cache, cache')
  BY <1>3 DEF Extends, UNSEEN_CODE, TEXT
<1>5. /\ b.at \in Nat /\ b.at >= at /\ Tidy(b.text, b.at) /\ Grows(text, b.text)
      /\ Layout(b.text, cache', flag_chain, exit, a)
  BY <1>1, <1>2, <1>3, <1>4, Located, BlockCode
<1> HIDE DEF b
<1>6. ASSUME NEW d \in Addrs, cache'[d] # UNSEEN_CODE
      PROVE  Layout(text', cache', flag_chain, exit, d)
  <2>1. CASE d = a
    BY <1>0, <1>5, <2>1
  <2>2. CASE d # a
    <3>1. Layout(text, cache, flag_chain, exit, d)
      BY <1>3, <1>6, <2>2 DEF ExitInv, Blocks, Cached
    <3>. QED
      BY <1>0, <1>2, <1>4, <1>5, <3>1, GrowsLayout
  <2>. QED
    BY <2>1, <2>2
<1>7. currentPos' \in Nat /\ currentPos' >= TEXT
  BY <1>0, <1>1, <1>5 DEF TEXT
<1>. QED
  BY <1>0, <1>3, <1>4, <1>5, <1>6, <1>7, Translated

LEMMA NestedStep ==
    ASSUME ExitInv, TranslateNested
    PROVE  ExitInv'
<1>1. /\ mode = "loop" /\ \A a \in Addrs : cache[a] = UNSEEN_CODE
      /\ UNCHANGED <<exit, flag_chain, chain_end, chain_type, mode, host, guest, returns>>
  BY DEF TranslateNested
<1>2. PICK gap \in Gaps, a \in Addrs \ {0, host.pc} :
          LET marked == [cache EXCEPT ![a] = TRANSLATION_STARTED]
              at == currentPos + Align(gap)
              b == translate_block(0, marked, text, at)
              d == translate_block(a, [marked EXCEPT ![0] = at], b.text, b.at)
          IN  /\ text' = d.text /\ currentPos' = d.at
              /\ cache' = [cache EXCEPT ![0] = at, ![a] = b.at]
  BY DEF TranslateNested
<1> DEFINE marked == [cache EXCEPT ![a] = TRANSLATION_STARTED]
           at == currentPos + Align(gap)
           b == translate_block(0, marked, text, at)
           second == [marked EXCEPT ![0] = at]
           d == translate_block(a, second, b.text, b.at)
<1>3. text' = d.text /\ currentPos' = d.at /\ cache' = [cache EXCEPT ![0] = at, ![a] = b.at]
  BY <1>2
<1>4. at \in Nat /\ at >= TEXT /\ Tidy(text, at)
  BY NextPosition
<1>5. exit \in Exits /\ cache \in [Addrs -> Nat] /\ 0 \in Addrs /\ a \in Addrs /\ a # 0
  BY DEF ExitInv, StateType, Addrs
<1> HIDE DEF at
<1>6. /\ Known(marked) /\ Extends(marked, second) /\ second[0] = at
  BY <1>1, <1>4, <1>5 DEF Known, Extends, UNSEEN_CODE, TRANSLATION_STARTED, TEXT
<1>7. Known(second)
  BY <1>1, <1>4, <1>5 DEF Known, UNSEEN_CODE, TRANSLATION_STARTED, TEXT
<1> HIDE DEF marked
<1>8. /\ b.at \in Nat /\ b.at >= at /\ Tidy(b.text, b.at) /\ Grows(text, b.text)
      /\ Layout(b.text, second, flag_chain, exit, 0)
  BY <1>4, <1>5, <1>6, BlockCode
<1> HIDE DEF b
<1>9. b.at >= TEXT
  BY <1>4, <1>8 DEF TEXT
<1>10. /\ cache' \in [Addrs -> Nat] /\ cache'[0] = at /\ cache'[a] = b.at
       /\ \A e \in Addrs : e # 0 /\ e # a => cache'[e] = UNSEEN_CODE
  BY <1>1, <1>3, <1>4, <1>5, <1>8
<1>11. Extends(second, cache')
  <2>1. second[0] = at /\ second[a] = TRANSLATION_STARTED
        /\ \A e \in Addrs : e # 0 /\ e # a => second[e] = UNSEEN_CODE
    BY <1>1, <1>5 DEF marked
  <2>. QED
    BY <1>10, <2>1 DEF Extends, UNSEEN_CODE, TRANSLATION_STARTED, TEXT
<1> HIDE DEF second
<1>12. /\ d.at \in Nat /\ d.at >= b.at /\ Tidy(d.text, d.at) /\ Grows(b.text, d.text)
       /\ Layout(d.text, cache', flag_chain, exit, a)
  BY <1>5, <1>7, <1>8, <1>9, <1>10, <1>11, BlockCode
<1> HIDE DEF d
<1>13. Layout(d.text, cache', flag_chain, exit, 0)
  BY <1>5, <1>8, <1>11, <1>12, GrowsLayout
<1>14. ASSUME NEW e \in Addrs, cache'[e] # UNSEEN_CODE
       PROVE  Layout(text', cache', flag_chain, exit, e)
  <2>1. e = 0 \/ e = a
    BY <1>10, <1>14
  <2>. QED
    BY <1>3, <1>12, <1>13, <2>1
<1>15. Grows(text, text') /\ Extends(cache, cache')
  <2>1. Extends(cache, cache')
    BY <1>1 DEF Extends, UNSEEN_CODE, TEXT
  <2>. QED
    BY <1>3, <1>8, <1>12, <2>1, GrowsTransitive
<1>16. currentPos' \in Nat /\ currentPos' >= TEXT
  BY <1>3, <1>8, <1>9, <1>12 DEF TEXT
<1>. QED
  BY <1>1, <1>3, <1>10, <1>12, <1>14, <1>15, <1>16, Translated

LEMMA LoopStep ==
    ASSUME ExitInv, mode = "loop", Next
    PROVE  ExitInv'
<1>1. CASE TranslateTarget
  <2>1. exit.target \in Addrs
    BY ExitFields DEF ExitInv, StateType
  <2>. QED
    BY <1>1, <2>1, OneBlock DEF TranslateTarget
<1>2. CASE TranslateNext
  <2>1. host.pc \in Addrs
    BY DEF ExitInv, InLoop, StateType
  <2>. QED
    BY <1>2, <2>1, OneBlock DEF TranslateNext
<1>3. ~(RunBody \/ RunCompare \/ RunJump \/ RunMove \/ RunSite \/ RunRet)
  BY DEF RunBody, RunCompare, RunJump, RunMove, RunSite, RunRet, Fetched
<1>. QED
  BY <1>1, <1>2, <1>3, NestedStep, ExecuteStep DEF Next

-----------------------------------------------------------------------------
(* What is executed. *)

\* An instruction, and not the first one of a block.
Inside == host.ip \in DOMAIN text /\ text[host.ip].op # "BODY"

LEMMA LeaveInside ==
    ASSUME Leave(text, host.ip)
    PROVE  Inside
<1>1. I("RET", 1, 0).op = "RET" /\ \A q : I("JMP", 2, q).op = "JMP"
  BY DEF I
<1>. QED
  BY <1>1 DEF Leave, Has, Inside

LEMMA GoToInside ==
    ASSUME NEW d, GoTo(text, host.ip, d)
    PROVE  Inside
<1>1. MovPc(d).op = "MOV_PC" /\ MovAx(d).op = "MOV_AX"
  BY DEF MovPc, MovAx, I
<1>. QED
  BY <1>1 DEF GoTo, Has, Inside

LEMMA FirstInside ==
    ASSUME ExitInv, AtFirst
    PROVE  Inside
<1>1. FirstCode(text, cache, flag_chain, host.ip, Dest(exit))
  BY FirstCodeAt DEF AtFirst
<1>2. LeaAx.op = "LEA_AX" /\ \A n, v : I("JMP", n, v).op = "JMP"
  BY DEF LeaAx, I
<1>3. Direct(text, cache, host.ip, Dest(exit)) => Inside
  BY <1>2 DEF Direct, Has, Inside
<1>4. Chained(text, cache, host.ip, Dest(exit)) => Inside
  BY <1>2 DEF Chained, Has, Inside
<1>. QED
  BY <1>1, <1>3, <1>4, GoToInside DEF FirstCode

LEMMA JalrInside ==
    ASSUME ExitInv, AtJalr
    PROVE  Inside
<1> DEFINE At(a) == cache[a] + 4
           Tail(a) == IF flag_chain THEN At(a) + 28 ELSE At(a) + 16
<1>1. PICK a \in Addrs \ {0} :
        /\ Cached(a)
        /\ host.ip \in {At(a), At(a) + 8, At(a) + 16, Tail(a), Tail(a) + 8}
        /\ host.ip # Tail(a) /\ host.ip # Tail(a) + 8 /\ host.ip = At(a) + 16 => flag_chain
  BY DEF AtJalr
<1>2. JalrCode(text, flag_chain, At(a), a)
  BY <1>1, LayoutAt DEF Layout
<1>3. /\ WriteBacks.op = "MOV" /\ I("MOV_AX_RS1", 8, 0).op = "MOV_AX_RS1"
      /\ NoSite.op = "CHAIN_END_NULL" /\ MovPcAx.op = "MOV_PC_AX" /\ I("RET", 1, a).op = "RET"
  BY DEF WriteBacks, NoSite, MovPcAx, I
<1>4. /\ Has(text, At(a), WriteBacks) /\ Has(text, At(a) + 8, I("MOV_AX_RS1", 8, 0))
      /\ flag_chain => Has(text, At(a) + 16, NoSite)
      /\ Has(text, Tail(a), MovPcAx) /\ Has(text, Tail(a) + 8, I("RET", 1, a))
  BY <1>2 DEF JalrCode
<1> HIDE DEF At, Tail
<1>. QED
  BY <1>1, <1>3, <1>4 DEF Has, Inside

LEMMA CompareInside ==
    ASSUME ExitInv, AtCompare
    PROVE  Inside
<1>1. /\ exit.kind = "BRANCH" /\ Cached(0)
      /\ host.ip \in {cache[0] + 4, cache[0] + 7, cache[0] + 15}
  BY DEF AtCompare
<1>2. 0 \in Addrs /\ exit \in Exits
  BY DEF Addrs, ExitInv, StateType
<1>3. ExitLayout(text, cache, flag_chain, exit, cache[0])
  BY <1>1, <1>2, LayoutAt DEF Layout
<1> DEFINE cc == NotTaken[exit.mnem]
<1>4. cc \in Conds
  BY <1>1, <1>2, ExitFields, NotTakenType
<1> HIDE DEF cc
<1>5. /\ Has(text, cache[0] + 4, Compare(exit)) /\ Has(text, cache[0] + 7, WriteBacks)
      /\ \E n : Has(text, cache[0] + 15, I(cc, 6, n))
  BY <1>1, <1>3 DEF ExitLayout, SecondCode, cc
<1>6. /\ Compare(exit).op \in {"TEST", "CMP"} /\ WriteBacks.op = "MOV"
      /\ \A n : I(cc, 6, n).op = cc
  BY DEF Compare, WriteBacks, I
<1>. QED
  BY <1>1, <1>4, <1>5, <1>6 DEF Has, Inside, Conds

LEMMA WriteBacksInside ==
    ASSUME ExitInv, AtWriteBacks
    PROVE  Inside
<1>1. exit.kind # "BRANCH" /\ Cached(0) /\ host.ip = cache[0] + 4
  BY DEF AtWriteBacks
<1>2. 0 \in Addrs
  BY DEF Addrs
<1>3. Has(text, host.ip, WriteBacks)
  BY <1>1, <1>2, LayoutAt DEF Layout, ExitLayout
<1>4. WriteBacks.op = "MOV"
  BY DEF WriteBacks, I
<1>. QED
  BY <1>3, <1>4 DEF Has, Inside

LEMMA PlaceInside ==
    ASSUME ExitInv, Place
    PROVE  AtBody \/ Inside
<1>1. AtSecond => Inside
  <2>1. MovAx(Site("second")).op = "MOV_AX"
    BY DEF MovAx, I
  <2>. QED
    BY <2>1 DEF AtSecond, SecondSite, Has, Inside
<1>2. AtJump => Inside
  <2>1. \A n, v : I("JMP", n, v).op = "JMP"
    BY DEF I
  <2>. QED
    BY <2>1 DEF AtJump, Has, Inside
<1>3. AtSite => Inside
  BY DEF AtSite, Has, Inside, SaveSite, I
<1>4. AtType => Inside
  <2>1. \A cc : SaveType(cc).op = "MOV_CHAIN_TYPE"
    BY DEF SaveType, I
  <2>. QED
    BY <2>1 DEF AtType, Has, Inside
<1>5. AtGoTo => Inside
  BY GoToInside DEF AtGoTo
<1>6. AtPcAx => Inside
  BY DEF AtPcAx, Has, Inside, MovPcAx, I
<1>7. AtLeave => Inside
  BY LeaveInside DEF AtLeave
<1>. QED
  BY <1>1, <1>2, <1>3, <1>4, <1>5, <1>6, <1>7, FirstInside, JalrInside, CompareInside,
     WriteBacksInside DEF Place

LEMMA BodyInText ==
    ASSUME ExitInv, AtBody
    PROVE  host.ip \in DOMAIN text
BY LayoutAt DEF AtBody, Has

-----------------------------------------------------------------------------
(* The specification. *)

LEMMA ExitInit ==
    ASSUME PowersOf2, Init
    PROVE  ExitInv
<1>1. 0 \in Word
  <2>1. XLEN \in 0 .. XLEN
    BY WidthAssumption
  <2>2. 2^XLEN \in Nat \ {0}
    BY <2>1 DEF PowersOf2
  <2> DEFINE size == 2^XLEN
  <2> HIDE DEF size
  <2>3. size \in Nat \ {0} => 0 \in 0 .. size - 1
    OBVIOUS
  <2>. QED
    BY <2>2, <2>3 DEF Word, size
<1>2. text = << >> /\ currentPos = TEXT /\ cache = [a \in Addrs |-> UNSEEN_CODE]
      /\ chain_end = 0 /\ mode = "loop" /\ returns = [a \in Addrs |-> 0]
      /\ exit \in Exits /\ flag_chain \in BOOLEAN
  BY DEF Init
<1>3. PICK a \in Addrs :
        /\ host = [ip |-> 0, ax |-> 0, x |-> 0, y |-> 0, pc |-> a]
        /\ guest = [rs1 |-> 0, rs2 |-> 0, due |-> a]
  BY DEF Init
<1>4. Tidy(text, currentPos)
  BY <1>2 DEF Tidy
<1>5. StateType
  <2>1. DOMAIN host = {"ip", "ax", "x", "y", "pc"}
    BY <1>3
  <2>2. guest \in [rs1 : Word, rs2 : Word, due : Addrs]
    BY <1>1, <1>3
  <2>3. currentPos \in Nat /\ currentPos >= TEXT
    BY <1>2 DEF TEXT
  <2>4. cache \in [Addrs -> Nat] /\ returns \in [Addrs -> 0 .. 3]
    BY <1>2 DEF UNSEEN_CODE
  <2>. QED
    BY <1>2, <1>4, <2>1, <2>2, <2>3, <2>4 DEF StateType
<1>6. Blocks
  BY <1>2 DEF Blocks, Cached
<1>7. Counted
  <2>1. \A b \in Addrs : returns[b] = 0 /\ Returned(b) \in {0, 1, 2}
    BY <1>2 DEF Returned
  <2>. QED
    BY <2>1 DEF Counted
<1>8. InLoop
  BY <1>2, <1>3 DEF InLoop
<1>. QED
  BY <1>2, <1>5, <1>6, <1>7, <1>8 DEF ExitInv

LEMMA ExitStutters ==
    ASSUME ExitInv, UNCHANGED vars
    PROVE  ExitInv'
<1>1. UNCHANGED <<exit, flag_chain, cache, text, currentPos, mode, returns>>
      /\ UNCHANGED <<chain_end, chain_type, host, guest>>
  BY DEF vars
<1>2. StateType' /\ Blocks'
  BY <1>1 DEF ExitInv, StateType, Blocks, Cached
<1>3. ASSUME NEW k, Pending(k)
      PROVE  Pending(k)'
  BY <1>1, <1>3, PendingSame
<1>4. Counted'
  <2>1. ASSUME NEW k \in ExitNames, Gone(k)
        PROVE  Gone(k)'
    BY <1>1, <1>3, <2>1, UsedSame DEF Gone
  <2>. QED
    BY <1>1, <2>1, CountKept DEF ExitInv, StateType
<1>5. ASSUME mode = "loop"
      PROVE  InLoop'
  <2>1. ExitNames' = ExitNames
    BY <1>1, ExitsSame
  <2>. QED
    BY <1>1, <1>3, <1>5, <2>1 DEF ExitInv, InLoop
<1>6. ASSUME mode = "run"
      PROVE  Place'
  <2>1. Place
    BY <1>6 DEF ExitInv
  <2>2. ASSUME NEW k
        PROVE  (Cached(k)' <=> Cached(k)) /\ (Fresh(k)' <=> Fresh(k))
    BY <1>1, CachedSame, FreshSame
  <2>3. /\ ExitNames' = ExitNames /\ FirstExit' = FirstExit
        /\ \A k : Site(k)' = Site(k) /\ Type(k)' = Type(k) /\ Leads(k)' = Leads(k)
    BY <1>1, ExitsSame
  <2>4. Exiting => Exiting'
    BY <1>1, ExitingSame
  <2>5. Follows(guest.rs1, guest.rs2)' = Follows(guest.rs1, guest.rs2)
    BY <1>1 DEF Follows, Taken
  <2>6. (AtBody => AtBody') /\ (AtJalr => AtJalr') /\ (AtJump => AtJump')
    BY <1>1, <2>2 DEF AtBody, AtJalr, AtJump
  <2>7. (AtCompare => AtCompare') /\ (AtWriteBacks => AtWriteBacks')
    BY <1>1, <2>2, <2>5 DEF AtCompare, AtWriteBacks
  <2>8. (AtFirst => AtFirst') /\ (AtSecond => AtSecond')
    BY <1>1, <2>2, <2>3 DEF AtFirst, AtSecond
  <2>9. (AtSite => AtSite') /\ (AtType => AtType')
    BY <1>1, <2>2, <2>3 DEF AtSite, AtType
  <2>10. (AtGoTo => AtGoTo') /\ (AtPcAx => AtPcAx') /\ (AtLeave => AtLeave')
    BY <1>1, <2>4 DEF AtGoTo, AtPcAx, AtLeave
  <2>. QED
    BY <2>1, <2>6, <2>7, <2>8, <2>9, <2>10 DEF Place
<1>. QED
  BY <1>1, <1>2, <1>4, <1>5, <1>6 DEF ExitInv

\* The invariant holds in every state: no step, of the translator, of the main
\* loop or of the emitted code, leads out of it.
THEOREM CodeStaysWhole ==
    ASSUME PowersOf2
    PROVE  Spec => []ExitInv
<1>1. Init => ExitInv
  BY ExitInit
<1>2. ExitInv /\ [Next]_vars => ExitInv'
  <2> SUFFICES ASSUME ExitInv, [Next]_vars
               PROVE  ExitInv'
    OBVIOUS
  <2>1. mode \in {"loop", "run"}
    BY DEF ExitInv, StateType
  <2>. QED
    BY <2>1, LoopStep, RunStep, ExitStutters
<1>. QED
  BY <1>1, <1>2, PTL DEF Spec

\* Execution always meets the start of an instruction: neither a replaced dummy
\* (translate_controlflow_set_pc2) nor a patch (chain) cuts one that is executed.
THEOREM WholeInstructionsHolds ==
    ASSUME PowersOf2
    PROVE  Spec => []WholeInstructions
<1>1. ExitInv => WholeInstructions
  BY PlaceInside, BodyInText DEF ExitInv, WholeInstructions, Inside
<1>. QED
  BY <1>1, CodeStaysWhole, PTL

\* A block is entered, and the main loop reached, only with the address that the
\* guest's branch, jump or end of the buffer leads to, whatever was chained.
THEOREM ContinuesHolds ==
    ASSUME PowersOf2
    PROVE  Spec => []Continues
<1>1. ASSUME ExitInv, mode = "run", NEW a \in Addrs, host.ip = cache[a]
      PROVE  guest.due = a
  <2>1. host.ip \in DOMAIN text
    BY <1>1, PlaceInside, BodyInText DEF ExitInv, Inside
  <2>2. Cached(a)
    BY <1>1, <2>1 DEF ExitInv, StateType, Tidy, Cached, UNSEEN_CODE
  <2>3. Has(text, host.ip, Body(a)) /\ Body(a).op = "BODY" /\ Body(a).v = a
    BY <1>1, <2>2, LayoutAt DEF Body, I
  <2>4. AtBody
    BY <1>1, <2>3, PlaceInside DEF ExitInv, Inside, Has
  <2>5. PICK b \in Addrs : Cached(b) /\ host.ip = cache[b] /\ guest.due = b
    BY <2>4 DEF AtBody
  <2>6. Has(text, host.ip, Body(b)) /\ Body(b).v = b
    BY <1>1, <2>5, LayoutAt DEF Body, I
  <2>. QED
    BY <2>3, <2>5, <2>6 DEF Has
<1>2. ExitInv => Continues
  BY <1>1 DEF Continues, ExitInv, InLoop
<1>. QED
  BY <1>2, CodeStaysWhole, PTL

\* Each exit of the block comes back to the main loop once at most: after that
\* return, chain has put the jump to the following block at its site.
THEOREM OnceThroughLoopHolds ==
    ASSUME PowersOf2
    PROVE  Spec => []OnceThroughLoop
<1>1. ASSUME ExitInv, flag_chain, NEW a \in Addrs
      PROVE  returns[a] <= IF exit.kind = "BRANCH" /\ exit.target = next THEN 2 ELSE 1
  <2> DEFINE first == IF Leads("first") = a /\ Gone("first") THEN 1 ELSE 0
             second == IF exit.kind = "BRANCH" /\ a = next /\ Gone("second") THEN 1 ELSE 0
  <2>1. returns[a] <= first + second /\ returns[a] \in 0 .. 3
    BY <1>1 DEF ExitInv, StateType, Counted, Returned
  <2>2. first \in 0 .. 1 /\ second \in 0 .. 1
    OBVIOUS
  <2>3. exit.kind = "BRANCH" => Leads("first") = exit.target
    BY DEF Leads, Dest
  <2>4. first = 1 /\ second = 1 => exit.kind = "BRANCH" /\ exit.target = next
    BY <2>3
  <2> HIDE DEF first, second
  <2>. QED
    BY <2>1, <2>2, <2>4
<1>2. ExitInv => OnceThroughLoop
  BY <1>1 DEF OnceThroughLoop
<1>. QED
  BY <1>2, CodeStaysWhole, PTL

=============================================================================
