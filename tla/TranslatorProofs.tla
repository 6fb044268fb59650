------------------------- MODULE TranslatorProofs -------------------------
(***************************************************************************)
(* Proofs about Translator for every set of guest programs, every buffer   *)
(* and every return stack: what the cache, the direct jumps and the return *)
(* stack lead to is the block of the guest address they stand for.         *)
(***************************************************************************)
EXTENDS Translator, SequenceTheorems, TLAPS

-----------------------------------------------------------------------------
(* Sequences, whatever they hold. *)

IsSeq(s) == \E S : s \in Seq(S)

LEMMA SeqDomain ==
    ASSUME NEW s, IsSeq(s)
    PROVE  Len(s) \in Nat /\ DOMAIN s = 1..Len(s)
BY DEF IsSeq

LEMMA SeqAppend ==
    ASSUME NEW s, NEW x, IsSeq(s)
    PROVE  /\ IsSeq(Append(s, x))
           /\ Len(Append(s, x)) = Len(s) + 1
           /\ DOMAIN Append(s, x) = 1..(Len(s) + 1)
           /\ Append(s, x)[Len(s) + 1] = x
           /\ \A k \in 1..Len(s) : Append(s, x)[k] = s[k]
           /\ Append(s, x) # <<>>
<1>1. PICK S : s \in Seq(S)
  BY DEF IsSeq
<1>2. s \in Seq(S \cup {x}) /\ x \in S \cup {x}
  BY <1>1
<1>3. Append(s, x) \in Seq(S \cup {x})
  BY <1>2
<1>. QED
  BY <1>2, <1>3 DEF IsSeq

LEMMA SeqFront ==
    ASSUME NEW s, IsSeq(s), s # <<>>
    PROVE  /\ IsSeq(SubSeq(s, 1, Len(s) - 1))
           /\ Len(s) >= 1
           /\ Len(SubSeq(s, 1, Len(s) - 1)) = Len(s) - 1
           /\ \A k \in 1..(Len(s) - 1) : SubSeq(s, 1, Len(s) - 1)[k] = s[k]
           /\ Len(s) = 1 => SubSeq(s, 1, Len(s) - 1) = <<>>
           /\ Len(s) # 1 => SubSeq(s, 1, Len(s) - 1) # <<>>
<1>1. PICK S : s \in Seq(S)
  BY DEF IsSeq
<1>2. Len(s) \in Nat /\ Len(s) # 0
  BY <1>1
<1> DEFINE m == Len(s) - 1
           t == SubSeq(s, 1, m)
<1> HIDE DEF m
<1>3. m \in Nat /\ Len(s) = m + 1 /\ \A k \in 1..m : s[k] \in S
  BY <1>1, <1>2 DEF m
<1>4. /\ t \in Seq(S)
      /\ Len(t) = (IF 1 <= m THEN m - 1 + 1 ELSE 0)
      /\ \A k \in 1..(m - 1 + 1) : t[k] = s[1 + k - 1]
  BY <1>3, SubSeqProperties
<1> HIDE DEF t
<1>5. Len(t) = m /\ \A k \in 1..m : t[k] = s[k]
  BY <1>3, <1>4
<1>6. Len(s) = 1 <=> t = <<>>
  BY <1>3, <1>4, <1>5, EmptySeq
<1>7. IsSeq(t) /\ Len(s) >= 1
  BY <1>3, <1>4 DEF IsSeq
<1>. QED
  BY <1>5, <1>6, <1>7 DEF t, m

LEMMA SeqExcept ==
    ASSUME NEW s, NEW n, NEW x, IsSeq(s)
    PROVE  /\ IsSeq([s EXCEPT ![n] = x])
           /\ Len([s EXCEPT ![n] = x]) = Len(s)
           /\ s # <<>> => [s EXCEPT ![n] = x] # <<>>
<1>1. PICK S : s \in Seq(S)
  BY DEF IsSeq
<1>2. s \in [1..Len(s) -> S \cup {x}] /\ Len(s) \in Nat
  BY <1>1
<1>3. [s EXCEPT ![n] = x] \in [1..Len(s) -> S \cup {x}]
  BY <1>2
<1>4. [s EXCEPT ![n] = x] \in Seq(S \cup {x})
  BY <1>2, <1>3
<1>. QED
  BY <1>1, <1>2, <1>3, <1>4 DEF IsSeq

-----------------------------------------------------------------------------
(* The records of which `frames` and `code` consist. *)

IsFrame(f) == {"start", "risc_addr", "buf", "end", "todo"} \subseteq DOMAIN f

IsEmitted(b) == {"addr", "items", "exit", "slots", "push", "pop"} \subseteq DOMAIN b

\* The shape of the state, and what a cache entry may be.
Shapes ==
    /\ IsSeq(code) /\ \A n \in 1..Len(code) : IsEmitted(code[n])
    /\ IsSeq(frames) /\ \A d \in 1..Len(frames) : IsFrame(frames[d])
    /\ (mode = "translate") <=> (frames # <<>>)
    /\ \A a \in DOMAIN cache : cache[a] \in Locations \ {UNSEEN_CODE}

\* A nested call has marked its address, or found it cached, before it started.
FramesCached == \A d \in 2..Len(frames) : frames[d].start \in DOMAIN cache

CacheInv == Shapes /\ FramesCached /\ CacheSound /\ StartedOnStack

-----------------------------------------------------------------------------
(* What groups of steps do. *)

\* An instruction is parsed (or left out), and the block goes on.
GoesOn(f, g) ==
    LET i == InstrAt(f.risc_addr) IN
    /\ f.end = NoEnd /\ g.end = f.end /\ g.todo = f.todo
    /\ \/ /\ i.op = "FENCE"
          /\ g.buf = f.buf /\ g.risc_addr = f.risc_addr + 1
       \/ /\ i.op \in {"NOP", "AUIPC"}
          /\ g.buf = Parsed(f, i) /\ g.risc_addr = f.risc_addr + 1
       \/ /\ i.op = "JAL" /\ i.rd = "x0"
          /\ g.buf = Parsed(f, [i EXCEPT !.op = "AUIPC", !.imm = 1])
          /\ g.risc_addr = f.risc_addr + i.imm

\* It ends the block, and nothing else has to be translated for it.
EndsAlone(f, g) ==
    /\ g.buf = f.buf /\ g.todo = f.todo /\ g.risc_addr = f.risc_addr
    /\ \E kind, i :
          /\ g.end = EndWith(f, kind, i) /\ kind # "JALR"
          /\ kind = "JAL" => ~flags.jump
          /\ \/ kind = "PC_NEXT_INST"
             \/ /\ i = InstrAt(f.risc_addr) /\ kind = i.op
                /\ kind \in {"INVALID", "ECALL", "BRANCH", "JAL"}

\* It ends the block, and other addresses are translated first.
EndsJal(f, g) ==
    LET i == InstrAt(f.risc_addr) IN
    /\ i.op = "JAL"
    /\ g.buf = f.buf /\ g.risc_addr = f.risc_addr /\ g.end = EndWith(f, "JAL", i)
    /\ g.todo = <<f.risc_addr + i.imm>> \o
                   IF i.rd \in LinkRegs THEN <<f.risc_addr + 1>> ELSE <<>>

EndsJalr(f, g) ==
    LET i == InstrAt(f.risc_addr)
        paired == flags.jump /\ AuipcBefore(f, i)
    IN
    /\ i.op = "JALR"
    /\ g.buf = f.buf /\ g.risc_addr = f.risc_addr
    /\ g.end = [EndWith(f, "JALR", i) EXCEPT !.paired = paired]
    /\ g.todo = (IF flags.ras /\ i.rd \in LinkRegs THEN <<f.risc_addr + 1>> ELSE <<>>) \o
                   IF paired
                   THEN <<f.risc_addr + 1, (f.risc_addr - 1) + f.buf[Len(f.buf)].imm + i.imm>>
                   ELSE <<>>

\* One of them is cached, or being translated.
Skips(f, g) ==
    /\ g.buf = f.buf /\ g.risc_addr = f.risc_addr /\ g.end = f.end /\ g.todo = Tail(f.todo)
    /\ f.todo # <<>> /\ lookup_cache_entry(Head(f.todo)) # UNSEEN_CODE

\* Parsing changes the innermost call only, and not its address.
TopChange(f, g) ==
    /\ IsFrame(g) /\ g.start = f.start
    /\ GoesOn(f, g) \/ EndsAlone(f, g) \/ EndsJal(f, g) \/ EndsJalr(f, g) \/ Skips(f, g)

TopStep == /\ frames # <<>>
           /\ \E g : TopChange(Top, g) /\ SetTop(g)
           /\ UNCHANGED <<cache, code, mode, input, at, next_pc, guest, chain_end>>

\* Execution changes neither translation nor cache.
RunStep == /\ mode = "run" /\ mode' # "translate"
           /\ UNCHANGED <<cache, code, frames>>

LEMMA TopIsFrame ==
    ASSUME Shapes, frames # <<>>
    PROVE  IsFrame(Top) /\ Len(frames) \in Nat /\ Len(frames) >= 1
BY SeqDomain, SeqFront DEF Shapes, Top

LEMMA TopSteps ==
    ASSUME Shapes, ParseInstr \/ ParseFull \/ SkipTarget
    PROVE  TopStep
<1>1. frames # <<>> /\ IsFrame(Top)
  BY TopIsFrame DEF Shapes, ParseInstr, ParseFull, SkipTarget
<1> DEFINE f == Top
           i == InstrAt(f.risc_addr)
<1>2. IsFrame(f) /\ frames # <<>> /\ (ParseInstr => f.end = NoEnd)
  BY <1>1 DEF ParseInstr, Parsing
<1>3. UNCHANGED <<cache, code, mode, input, at, next_pc, guest, chain_end>>
  BY DEF ParseInstr, ParseFull, SkipTarget
<1>4. SUFFICES \E g : TopChange(f, g) /\ SetTop(g)
  BY <1>2, <1>3 DEF TopStep
<1>5. ASSUME ParsePlain(f, i), ParseInstr
      PROVE  \E g : TopChange(f, g) /\ SetTop(g)
  <2> DEFINE x == Parsed(f, i)
             y == f.risc_addr + 1
             g == [f EXCEPT !.buf = x, !.risc_addr = y]
  <2>1. SetTop(g) /\ i.op \in {"NOP", "AUIPC"}
    BY <1>5 DEF ParsePlain
  <2> HIDE DEF f, i, x, y
  <2>2. /\ IsFrame(g) /\ g.start = f.start /\ g.buf = x /\ g.risc_addr = y
        /\ g.end = f.end /\ g.todo = f.todo
    BY <1>2 DEF IsFrame
  <2> HIDE DEF g
  <2>3. TopChange(f, g)
    BY <1>2, <1>5, <2>1, <2>2 DEF TopChange, GoesOn, x, y, i
  <2>. QED
    BY <2>1, <2>3
<1>6. ASSUME ParseFence(f, i), ParseInstr
      PROVE  \E g : TopChange(f, g) /\ SetTop(g)
  <2> DEFINE y == f.risc_addr + 1
             g == [f EXCEPT !.risc_addr = y]
  <2>1. SetTop(g) /\ i.op = "FENCE"
    BY <1>6 DEF ParseFence
  <2> HIDE DEF f, i, y
  <2>2. /\ IsFrame(g) /\ g.start = f.start /\ g.buf = f.buf /\ g.risc_addr = y
        /\ g.end = f.end /\ g.todo = f.todo
    BY <1>2 DEF IsFrame
  <2> HIDE DEF g
  <2>3. TopChange(f, g)
    BY <1>2, <1>6, <2>1, <2>2 DEF TopChange, GoesOn, y, i
  <2>. QED
    BY <2>1, <2>3
<1>7. ASSUME NEW kind, NEW k, kind # "JALR", kind = "JAL" => ~flags.jump,
             \/ kind = "PC_NEXT_INST"
             \/ k = i /\ kind = i.op /\ kind \in {"INVALID", "ECALL", "BRANCH", "JAL"},
             SetTop([f EXCEPT !.end = EndWith(f, kind, k)])
      PROVE  \E g : TopChange(f, g) /\ SetTop(g)
  <2> DEFINE x == EndWith(f, kind, k)
             g == [f EXCEPT !.end = x]
  <2>1. SetTop(g)
    BY <1>7
  <2> HIDE DEF f, i, x
  <2>2. /\ IsFrame(g) /\ g.start = f.start /\ g.buf = f.buf /\ g.risc_addr = f.risc_addr
        /\ g.end = x /\ g.todo = f.todo
    BY <1>2 DEF IsFrame
  <2> HIDE DEF g
  <2>3. TopChange(f, g)
    BY <1>7, <2>2 DEF TopChange, EndsAlone, x, i
  <2>. QED
    BY <2>1, <2>3
<1>8. ASSUME ParseEnd(f, i)
      PROVE  \E g : TopChange(f, g) /\ SetTop(g)
  <2>1. i.op \in {"INVALID", "ECALL", "BRANCH", "JAL"} /\ (i.op = "JAL" => ~flags.jump)
    BY <1>8 DEF ParseEnd
  <2>2. SetTop([f EXCEPT !.end = EndWith(f, i.op, i)])
    BY <1>8 DEF ParseEnd
  <2> HIDE DEF f, i
  <2>. QED
    BY <1>7, <2>1, <2>2
<1>9. ASSUME FollowJal(f, i), ParseInstr
      PROVE  \E g : TopChange(f, g) /\ SetTop(g)
  <2> DEFINE x == Parsed(f, [i EXCEPT !.op = "AUIPC", !.imm = 1])
             y == f.risc_addr + i.imm
             g == [f EXCEPT !.buf = x, !.risc_addr = y]
  <2>1. SetTop(g) /\ i.op = "JAL" /\ i.rd = "x0"
    BY <1>9 DEF FollowJal
  <2> HIDE DEF f, i, x, y
  <2>2. /\ IsFrame(g) /\ g.start = f.start /\ g.buf = x /\ g.risc_addr = y
        /\ g.end = f.end /\ g.todo = f.todo
    BY <1>2 DEF IsFrame
  <2> HIDE DEF g
  <2>3. TopChange(f, g)
    BY <1>2, <1>9, <2>1, <2>2 DEF TopChange, GoesOn, x, y, i
  <2>. QED
    BY <2>1, <2>3
<1>10. ASSUME ParseJal(f, i)
       PROVE  \E g : TopChange(f, g) /\ SetTop(g)
  <2> DEFINE x == EndWith(f, "JAL", i)
             y == <<f.risc_addr + i.imm>> \o
                    IF i.rd \in LinkRegs THEN <<f.risc_addr + 1>> ELSE <<>>
             g == [f EXCEPT !.end = x, !.todo = y]
  <2>1. SetTop(g) /\ i.op = "JAL"
    BY <1>10 DEF ParseJal
  <2> HIDE DEF f, i, x, y
  <2>2. /\ IsFrame(g) /\ g.start = f.start /\ g.buf = f.buf /\ g.risc_addr = f.risc_addr
        /\ g.end = x /\ g.todo = y
    BY <1>2 DEF IsFrame
  <2> HIDE DEF g
  <2>3. TopChange(f, g)
    BY <2>1, <2>2 DEF TopChange, EndsJal, x, y, i
  <2>. QED
    BY <2>1, <2>3
<1>11. ASSUME ParseJalr(f, i)
       PROVE  \E g : TopChange(f, g) /\ SetTop(g)
  <2> DEFINE paired == flags.jump /\ AuipcBefore(f, i)
             x == [EndWith(f, "JALR", i) EXCEPT !.paired = paired]
             y == (IF flags.ras /\ i.rd \in LinkRegs THEN <<f.risc_addr + 1>> ELSE <<>>) \o
                    IF paired
                    THEN <<f.risc_addr + 1, (f.risc_addr - 1) + f.buf[Len(f.buf)].imm + i.imm>>
                    ELSE <<>>
             g == [f EXCEPT !.end = x, !.todo = y]
  <2>1. SetTop(g) /\ i.op = "JALR"
    BY <1>11 DEF ParseJalr
  <2> HIDE DEF f, i, x, y
  <2>2. /\ IsFrame(g) /\ g.start = f.start /\ g.buf = f.buf /\ g.risc_addr = f.risc_addr
        /\ g.end = x /\ g.todo = y
    BY <1>2 DEF IsFrame
  <2> HIDE DEF g
  <2>3. TopChange(f, g)
    BY <2>1, <2>2 DEF TopChange, EndsJalr, x, y, i
  <2>. QED
    BY <2>1, <2>3
<1>12. CASE ParseInstr
  BY <1>5, <1>6, <1>8, <1>9, <1>10, <1>11, <1>12 DEF ParseInstr
<1>13. CASE ParseFull
  BY <1>7, <1>13 DEF ParseFull
<1>14. CASE SkipTarget
  <2> DEFINE x == Tail(f.todo)
             g == [f EXCEPT !.todo = x]
  <2>1. SetTop(g) /\ f.todo # <<>> /\ lookup_cache_entry(Head(f.todo)) # UNSEEN_CODE
    BY <1>14 DEF SkipTarget
  <2> HIDE DEF f, i, x
  <2>2. /\ IsFrame(g) /\ g.start = f.start /\ g.buf = f.buf /\ g.risc_addr = f.risc_addr
        /\ g.end = f.end /\ g.todo = x
    BY <1>2 DEF IsFrame
  <2> HIDE DEF g
  <2>3. TopChange(f, g)
    BY <2>1, <2>2 DEF TopChange, Skips, x
  <2>. QED
    BY <2>1, <2>3
<1>. QED
  BY <1>12, <1>13, <1>14

LEMMA RunSteps ==
    ASSUME Run
    PROVE  RunStep
<1>. USE DEF RunStep, ExecExit
<1>1. \A l : Enter(l) => mode' # "translate"
  BY DEF Enter
<1>2. \A a : Leave(a) => mode' # "translate"
  BY DEF Leave
<1>3. \A k : TakeSlot(k) => mode' # "translate"
  BY <1>1, <1>2 DEF TakeSlot
<1>4. \A a : LeaveUnchained(a) => mode' # "translate"
  BY <1>2 DEF LeaveUnchained
<1>5. \A a : JalrLeaves(a) => mode' # "translate"
  BY <1>1, <1>2, <1>4 DEF JalrLeaves
<1>6. ASSUME ExecItem
      PROVE  RunStep
  BY <1>6 DEF ExecItem
<1>7. ASSUME ExecJal
      PROVE  RunStep
  BY <1>3, <1>7 DEF ExecJal
<1>8. ASSUME ExecBranch
      PROVE  RunStep
  BY <1>3, <1>8 DEF ExecBranch
<1>9. ASSUME ExecPcNext
      PROVE  RunStep
  BY <1>3, <1>9 DEF ExecPcNext
<1>10. ASSUME ExecJalr
       PROVE  RunStep
  BY <1>1, <1>5, <1>10 DEF ExecJalr
<1>11. ASSUME ExecEcall \/ ExecExitCall \/ ExecInvalid
       PROVE  RunStep
  BY <1>4, <1>11 DEF ExecEcall, ExecExitCall, ExecInvalid
<1>. QED
  BY <1>6, <1>7, <1>8, <1>9, <1>10, <1>11 DEF Run

\* chain only changes a slot of a block.
LEMMA ExecuteKeeps ==
    ASSUME Shapes, Execute
    PROVE  /\ IsSeq(code') /\ Len(code') = Len(code)
           /\ \A n \in 1..Len(code) :
                 /\ IsEmitted(code'[n])
                 /\ code'[n].addr = code[n].addr /\ code'[n].items = code[n].items
                 /\ code'[n].exit = code[n].exit /\ code'[n].push = code[n].push
                 /\ code'[n].pop = code[n].pop
           /\ mode' \in {"run", "crash"}
           /\ UNCHANGED <<cache, frames>>
<1> DEFINE l == lookup_cache_entry(next_pc)
<1>1. mode' \in {"run", "crash"} /\ UNCHANGED <<cache, frames>> /\ chain(l)
  BY DEF Execute, Enter
<1>2. CASE code' = code
  BY <1>1, <1>2 DEF Shapes
<1>3. CASE code' # code
  <2> DEFINE m == chain_end[1] - 1
             b == [code[m] EXCEPT !.slots[chain_end[2]].jump = l]
  <2>1. code' = [code EXCEPT ![m] = b]
    BY <1>1, <1>3 DEF chain
  <2>3. m \in 1..Len(code) =>
           /\ IsEmitted(b) /\ b.addr = code[m].addr /\ b.items = code[m].items
           /\ b.exit = code[m].exit /\ b.push = code[m].push /\ b.pop = code[m].pop
    BY DEF IsEmitted, Shapes
  <2> HIDE DEF b, m
  <2>4. IsSeq(code') /\ Len(code') = Len(code)
    BY <2>1, SeqExcept DEF Shapes
  <2>5. \A n \in 1..Len(code) : code'[n] = IF n = m THEN b ELSE code[n]
    BY <2>1, SeqDomain DEF Shapes
  <2>. QED
    BY <1>1, <2>3, <2>4, <2>5 DEF Shapes
<1>. QED
  BY <1>2, <1>3

-----------------------------------------------------------------------------
(* The cache and the recursion. *)

LEMMA LookupType ==
    ASSUME Shapes, NEW a
    PROVE  /\ lookup_cache_entry(a) \in Locations
           /\ lookup_cache_entry(a) = UNSEEN_CODE <=> a \notin DOMAIN cache
           /\ IsBlock(lookup_cache_entry(a)) =>
                 lookup_cache_entry(a) \in Int /\ lookup_cache_entry(a) - 1 \in 1..Len(code)
BY SeqDomain DEF Shapes, lookup_cache_entry, Locations, IsBlock, UNSEEN_CODE, TRANSLATION_STARTED

LEMMA InitCacheInv == Init => CacheInv
<1>1. ASSUME Init
      PROVE  CacheInv
  <2>1. code = <<>> /\ frames = <<>> /\ IsSeq(<<>>) /\ Len(<<>>) = 0
    BY <1>1, EmptySeq DEF Init, IsSeq
  <2>2. DOMAIN cache = {}
    BY <1>1 DEF Init
  <2>. QED
    BY <1>1, <2>1, <2>2
    DEF Init, CacheInv, Shapes, FramesCached, CacheSound, StartedOnStack
<1>. QED
  BY <1>1

LEMMA TopStepKeeps ==
    ASSUME Shapes, TopStep
    PROVE  /\ Len(frames) \in Nat /\ Len(frames) >= 1 /\ IsFrame(Top)
           /\ IsSeq(frames') /\ Len(frames') = Len(frames) /\ frames' # <<>>
           /\ \E g : /\ TopChange(Top, g)
                    /\ \A d \in 1..Len(frames) :
                          frames'[d] = IF d = Len(frames) THEN g ELSE frames[d]
<1>1. PICK g : TopChange(Top, g) /\ SetTop(g)
  BY DEF TopStep
<1>2. frames # <<>> /\ IsSeq(frames) /\ Len(frames) \in Nat /\ Len(frames) >= 1 /\ IsFrame(Top)
  BY TopIsFrame DEF TopStep, Shapes
<1>3. /\ IsSeq(frames') /\ Len(frames') = Len(frames) /\ frames' # <<>>
      /\ \A d \in 1..Len(frames) : frames'[d] = IF d = Len(frames) THEN g ELSE frames[d]
  BY <1>1, <1>2, SeqExcept, SeqDomain DEF SetTop
<1>. QED
  BY <1>1, <1>2, <1>3

LEMMA TopStepCacheInv ==
    ASSUME CacheInv, TopStep
    PROVE  CacheInv'
<1>. USE DEF CacheInv
<1>1. /\ Len(frames) \in Nat /\ Len(frames) >= 1
      /\ IsSeq(frames') /\ Len(frames') = Len(frames) /\ frames' # <<>>
  BY TopStepKeeps
<1>2. PICK g : /\ TopChange(Top, g)
               /\ \A d \in 1..Len(frames) :
                     frames'[d] = IF d = Len(frames) THEN g ELSE frames[d]
  BY TopStepKeeps
<1>3. \A d \in 1..Len(frames) : frames'[d].start = frames[d].start /\ IsFrame(frames'[d])
  BY <1>1, <1>2 DEF TopChange, Top, Shapes
<1>4. UNCHANGED <<cache, code, mode>> /\ frames # <<>>
  BY DEF TopStep
<1>5. Shapes'
  BY <1>1, <1>3, <1>4 DEF Shapes, IsSeq, IsFrame, IsEmitted, Locations, UNSEEN_CODE,
                          TRANSLATION_STARTED
<1>6. FramesCached'
  BY <1>1, <1>3, <1>4 DEF FramesCached
<1>7. CacheSound'
  BY <1>4 DEF CacheSound, IsBlock, BlockAt, UNSEEN_CODE, TRANSLATION_STARTED
<1>8. StartedOnStack'
  BY <1>1, <1>3, <1>4 DEF StartedOnStack, TRANSLATION_STARTED
<1>. QED
  BY <1>5, <1>6, <1>7, <1>8

LEMMA RecurseKeeps ==
    ASSUME Shapes, RecurseInto
    PROVE  /\ Len(frames) \in Nat /\ Len(frames) >= 1 /\ Top.todo # <<>>
           /\ Head(Top.todo) \notin DOMAIN cache
           /\ IsSeq(frames') /\ Len(frames') = Len(frames) + 1 /\ frames' # <<>>
           /\ \A d \in 1..Len(frames) :
                 /\ IsFrame(frames'[d])
                 /\ frames'[d].start = frames[d].start /\ frames'[d].buf = frames[d].buf
                 /\ frames'[d].risc_addr = frames[d].risc_addr /\ frames'[d].end = frames[d].end
                 /\ frames'[d].todo =
                       IF d = Len(frames) THEN Tail(frames[d].todo) ELSE frames[d].todo
           /\ frames'[Len(frames) + 1] = NewFrame(Head(Top.todo))
           /\ cache' = [x \in DOMAIN cache \cup {Head(Top.todo)} |->
                           IF x = Head(Top.todo) THEN TRANSLATION_STARTED ELSE cache[x]]
           /\ UNCHANGED <<code, mode>> /\ mode = "translate"
<1> DEFINE target == Head(Top.todo)
           n == Len(frames)
           f == [frames[n] EXCEPT !.todo = Tail(@)]
           outer == [frames EXCEPT ![n].todo = Tail(@)]
<1>1. frames # <<>> /\ IsSeq(frames) /\ n \in Nat /\ n >= 1
  BY TopIsFrame DEF RecurseInto, Shapes
<1>2. target \notin DOMAIN cache /\ Top.todo # <<>>
  BY LookupType DEF RecurseInto
<1>3. outer = [frames EXCEPT ![n] = f]
  OBVIOUS
<1>4. /\ IsFrame(f) /\ f.start = frames[n].start /\ f.buf = frames[n].buf
      /\ f.risc_addr = frames[n].risc_addr /\ f.end = frames[n].end
      /\ f.todo = Tail(frames[n].todo)
  BY <1>1 DEF Shapes, IsFrame
<1>5. /\ frames' = Append(outer, NewFrame(target)) /\ UNCHANGED <<code, mode>> /\ mode = "translate"
      /\ cache' = [x \in DOMAIN cache \cup {target} |->
                      IF x = target THEN TRANSLATION_STARTED ELSE cache[x]]
  BY DEF RecurseInto, set_cache_entry
<1> HIDE DEF f
<1>6. IsSeq(outer) /\ Len(outer) = n /\ \A d \in 1..n : outer[d] = IF d = n THEN f ELSE frames[d]
  BY <1>1, <1>3, SeqExcept, SeqDomain
<1> HIDE DEF outer
<1>7. /\ IsSeq(frames') /\ Len(frames') = n + 1 /\ frames' # <<>>
      /\ \A d \in 1..n : frames'[d] = outer[d]
      /\ frames'[n + 1] = NewFrame(target)
  BY <1>5, <1>6, SeqAppend
<1>8. \A d \in 1..n :
        /\ IsFrame(frames'[d])
        /\ frames'[d].start = frames[d].start /\ frames'[d].buf = frames[d].buf
        /\ frames'[d].risc_addr = frames[d].risc_addr /\ frames'[d].end = frames[d].end
        /\ frames'[d].todo = IF d = n THEN Tail(frames[d].todo) ELSE frames[d].todo
  BY <1>1, <1>4, <1>6, <1>7 DEF Shapes
<1>. QED
  BY <1>1, <1>2, <1>5, <1>7, <1>8

LEMMA RecurseCacheInv ==
    ASSUME CacheInv, RecurseInto
    PROVE  CacheInv'
<1>. USE DEF CacheInv
<1> DEFINE target == Head(Top.todo)
           n == Len(frames)
<1>1. /\ n \in Nat /\ n >= 1 /\ target \notin DOMAIN cache
      /\ IsSeq(frames') /\ Len(frames') = n + 1 /\ frames' # <<>>
      /\ UNCHANGED <<code, mode>> /\ mode = "translate"
  BY RecurseKeeps
<1>2. \A d \in 1..n : IsFrame(frames'[d]) /\ frames'[d].start = frames[d].start
  BY RecurseKeeps
<1>3. IsFrame(frames'[n + 1]) /\ frames'[n + 1].start = target
  BY RecurseKeeps DEF NewFrame, IsFrame
<1>4. cache' = [x \in DOMAIN cache \cup {target} |-> IF x = target THEN TRANSLATION_STARTED ELSE cache[x]]
  BY RecurseKeeps
<1> HIDE DEF target, n
<1>5. Shapes'
  <2>1. \A d \in 1..(n + 1) : IsFrame(frames'[d])
    BY <1>1, <1>2, <1>3
  <2>2. \A a \in DOMAIN cache' : cache'[a] \in Locations \ {UNSEEN_CODE}
    BY <1>4 DEF Shapes, Locations, UNSEEN_CODE, TRANSLATION_STARTED
  <2>. QED
    BY <1>1, <2>1, <2>2 DEF Shapes, IsSeq, IsFrame, IsEmitted, Locations, UNSEEN_CODE,
                            TRANSLATION_STARTED
<1>6. FramesCached'
  BY <1>1, <1>2, <1>3, <1>4 DEF FramesCached, n
<1>7. CacheSound'
  BY <1>1, <1>4 DEF CacheSound, IsBlock, BlockAt, UNSEEN_CODE, TRANSLATION_STARTED
<1>8. StartedOnStack'
  <2>1. ASSUME NEW a \in DOMAIN cache', cache'[a] = TRANSLATION_STARTED
        PROVE  \E d \in 2..Len(frames') : frames'[d].start = a
    <3>1. CASE a = target
      BY <1>1, <1>3, <3>1
    <3>2. CASE a # target
      BY <1>1, <1>2, <1>4, <2>1, <3>2 DEF StartedOnStack, n
    <3>. QED
      BY <3>1, <3>2
  <2>2. \A d \in 2..n : frames'[d].start \in DOMAIN cache
    BY <1>1, <1>2 DEF FramesCached, n
  <2>3. \A d, e \in 2..n : d # e => frames'[d].start # frames'[e].start
    BY <1>1, <1>2 DEF StartedOnStack, n
  <2>4. ASSUME NEW d \in 2..(n + 1), NEW e \in 2..(n + 1), d # e
        PROVE  frames'[d].start # frames'[e].start
    BY <1>1, <1>3, <2>2, <2>3, <2>4
  <2>. QED
    BY <1>1, <2>1, <2>4 DEF StartedOnStack, TRANSLATION_STARTED
<1>. QED
  BY <1>5, <1>6, <1>7, <1>8

\* What the end of a translation does, with the new block's location.
LEMMA FinishKeeps ==
    ASSUME Shapes, FinishBlock
    PROVE  /\ Len(frames) \in Nat /\ Len(frames) >= 1 /\ IsSeq(frames')
           /\ Len(frames') = Len(frames) - 1
           /\ \A d \in 1..(Len(frames) - 1) : frames'[d] = frames[d]
           /\ (mode' = "translate") <=> (frames' # <<>>)
           /\ Len(code) \in Nat /\ IsSeq(code') /\ Len(code') = Len(code) + 1
           /\ code'[Len(code) + 1] = EmittedBlock(Top)
           /\ \A n \in 1..Len(code) : code'[n] = code[n]
           /\ cache' = [x \in DOMAIN cache \cup {Top.start} |->
                           IF x = Top.start THEN Len(code) + 2 ELSE cache[x]]
<1>1. frames # <<>> /\ IsSeq(frames) /\ Len(frames) \in Nat /\ Len(frames) >= 1
  BY TopIsFrame DEF FinishBlock, Shapes
<1>2. frames' = SubSeq(frames, 1, Len(frames) - 1)
  BY DEF FinishBlock
<1>3. /\ IsSeq(frames') /\ Len(frames') = Len(frames) - 1
      /\ \A d \in 1..(Len(frames) - 1) : frames'[d] = frames[d]
      /\ Len(frames) = 1 => frames' = <<>>
      /\ Len(frames) # 1 => frames' # <<>>
  BY <1>1, <1>2, SeqFront
<1>4. IsSeq(code) /\ Len(code) \in Nat
  BY SeqDomain DEF Shapes
<1>5. /\ IsSeq(code') /\ Len(code') = Len(code) + 1
      /\ code'[Len(code) + 1] = EmittedBlock(Top)
      /\ \A n \in 1..Len(code) : code'[n] = code[n]
  BY <1>4, SeqAppend DEF FinishBlock
<1>. QED
  BY <1>1, <1>3, <1>4, <1>5 DEF FinishBlock, set_cache_entry

LEMMA FinishCacheInv ==
    ASSUME CacheInv, FinishBlock
    PROVE  CacheInv'
<1>. USE DEF CacheInv
<1> DEFINE n == Len(frames)
           m == Len(code)
           s == Top.start
<1>1. /\ n \in Nat /\ n >= 1 /\ IsSeq(frames') /\ Len(frames') = n - 1
      /\ \A d \in 1..(n - 1) : frames'[d] = frames[d]
      /\ (mode' = "translate") <=> (frames' # <<>>)
  BY FinishKeeps
<1>2. /\ m \in Nat /\ IsSeq(code') /\ Len(code') = m + 1
      /\ code'[m + 1] = EmittedBlock(Top) /\ \A k \in 1..m : code'[k] = code[k]
  BY FinishKeeps
<1>3. cache' = [x \in DOMAIN cache \cup {s} |-> IF x = s THEN m + 2 ELSE cache[x]]
  BY FinishKeeps
<1>4. IsEmitted(EmittedBlock(Top)) /\ EmittedBlock(Top).addr = s
  BY DEF EmittedBlock, IsEmitted
<1>5. s = frames[n].start
  BY DEF Top
<1> HIDE DEF n, m, s
<1>6. \A d \in 1..(n - 1) : frames'[d] = frames[d] /\ IsFrame(frames'[d])
  BY <1>1 DEF Shapes, n
<1>7. \A k \in 1..(m + 1) : IsEmitted(code'[k])
  BY <1>2, <1>4 DEF Shapes, m
<1>8. \A a \in DOMAIN cache' : cache'[a] \in ({UNSEEN_CODE, TRANSLATION_STARTED}
              \cup {k + 1 : k \in 1..(m + 1)}) \ {UNSEEN_CODE}
  <2>1. m + 2 \in {k + 1 : k \in 1..(m + 1)} \ {UNSEEN_CODE}
    BY <1>2 DEF UNSEEN_CODE
  <2>2. \A a \in DOMAIN cache : cache[a] \in ({UNSEEN_CODE, TRANSLATION_STARTED}
              \cup {k + 1 : k \in 1..(m + 1)}) \ {UNSEEN_CODE}
    BY <1>2 DEF Shapes, Locations, m
  <2>. QED
    BY <1>3, <2>1, <2>2
<1>9. Shapes'
  BY <1>1, <1>2, <1>6, <1>7, <1>8 DEF Shapes, IsSeq, IsFrame, IsEmitted, Locations,
                                      UNSEEN_CODE, TRANSLATION_STARTED
<1>10. FramesCached'
  BY <1>1, <1>3 DEF FramesCached, n
<1>11. CacheSound'
  <2>1. ASSUME NEW a \in DOMAIN cache', cache'[a] # UNSEEN_CODE, cache'[a] # TRANSLATION_STARTED
        PROVE  code'[cache'[a] - 1].addr = a
    <3>1. CASE a = s
      BY <1>2, <1>3, <1>4, <3>1
    <3>2. CASE a # s
      <4>1. a \in DOMAIN cache /\ cache'[a] = cache[a]
        BY <1>3, <2>1, <3>2
      <4>2. IsBlock(lookup_cache_entry(a))
        BY <2>1, <4>1 DEF lookup_cache_entry, IsBlock
      <4>3. cache[a] - 1 \in 1..m
        BY <4>1, <4>2, LookupType DEF lookup_cache_entry, m
      <4>. QED
        BY <1>2, <2>1, <4>1, <4>3 DEF CacheSound, IsBlock, BlockAt
    <3>. QED
      BY <3>1, <3>2
  <2>. QED
    BY <2>1 DEF CacheSound, IsBlock, BlockAt, UNSEEN_CODE, TRANSLATION_STARTED
<1>12. StartedOnStack'
  <2>1. ASSUME NEW a \in DOMAIN cache', cache'[a] = TRANSLATION_STARTED
        PROVE  \E d \in 2..Len(frames') : frames'[d].start = a
    <3>1. a # s /\ a \in DOMAIN cache /\ cache[a] = TRANSLATION_STARTED
      BY <1>2, <1>3, <2>1 DEF TRANSLATION_STARTED
    <3>2. PICK d \in 2..n : frames[d].start = a
      BY <3>1 DEF StartedOnStack, n
    <3>3. d # n
      BY <1>5, <3>1, <3>2
    <3>. QED
      BY <1>1, <3>2, <3>3
  <2>2. \A d, e \in 2..(n - 1) : d # e => frames'[d].start # frames'[e].start
    BY <1>1 DEF StartedOnStack, n
  <2>. QED
    BY <1>1, <2>1, <2>2 DEF StartedOnStack, TRANSLATION_STARTED
<1>. QED
  BY <1>9, <1>10, <1>11, <1>12

LEMMA OtherCacheInv ==
    ASSUME CacheInv, LookupUnseen \/ Execute \/ RunStep \/ UNCHANGED vars
    PROVE  CacheInv'
<1>. USE DEF CacheInv, UNSEEN_CODE, TRANSLATION_STARTED
<1>1. CASE LookupUnseen
  <2> DEFINE f == NewFrame(next_pc)
  <2>1. /\ frames' = <<f>> /\ mode' = "translate" /\ UNCHANGED <<cache, code>>
        /\ mode = "loop" /\ frames = <<>> /\ Len(frames) = 0
    BY <1>1, EmptySeq DEF LookupUnseen, Shapes
  <2>2. IsFrame(f)
    BY DEF NewFrame, IsFrame
  <2> HIDE DEF f
  <2>3. IsSeq(frames') /\ Len(frames') = 1 /\ frames'[1] = f /\ frames' # <<>>
    <3>1. <<f>> \in Seq({f}) /\ Len(<<f>>) = 1 /\ <<f>>[1] = f /\ <<f>> # <<>>
      OBVIOUS
    <3>2. IsSeq(<<f>>)
      BY <3>1 DEF IsSeq
    <3>. QED
      BY <2>1, <3>1, <3>2
  <2>4. Shapes'
    BY <2>1, <2>2, <2>3 DEF Shapes, IsSeq, IsFrame, IsEmitted, Locations
  <2>5. FramesCached' /\ StartedOnStack'
    BY <2>1, <2>3 DEF FramesCached, StartedOnStack
  <2>6. CacheSound'
    BY <2>1 DEF CacheSound, IsBlock, BlockAt
  <2>. QED
    BY <2>4, <2>5, <2>6
<1>2. CASE Execute
  <2>1. /\ IsSeq(code') /\ Len(code') = Len(code)
        /\ \A n \in 1..Len(code) : IsEmitted(code'[n]) /\ code'[n].addr = code[n].addr
        /\ mode' \in {"run", "crash"} /\ UNCHANGED <<cache, frames>>
    BY <1>2, ExecuteKeeps
  <2>2. frames = <<>>
    BY <1>2 DEF Execute, Shapes
  <2>3. Shapes'
    BY <2>1, <2>2 DEF Shapes, IsSeq, IsFrame, IsEmitted, Locations
  <2>4. FramesCached' /\ StartedOnStack'
    BY <2>1 DEF FramesCached, StartedOnStack
  <2>5. ASSUME NEW a \in DOMAIN cache, IsBlock(cache[a])
        PROVE  code'[cache[a] - 1].addr = a
    <3>1. cache[a] - 1 \in 1..Len(code)
      BY <2>5, LookupType DEF lookup_cache_entry
    <3>. QED
      BY <2>1, <2>5, <3>1 DEF CacheSound, BlockAt
  <2>6. CacheSound'
    BY <2>1, <2>5 DEF CacheSound, IsBlock, BlockAt
  <2>. QED
    BY <2>3, <2>4, <2>6
<1>3. ASSUME UNCHANGED <<cache, code, frames>>, (mode' = "translate") <=> (mode = "translate")
      PROVE  CacheInv'
  <2>1. Shapes'
    BY <1>3 DEF Shapes, IsSeq, IsFrame, IsEmitted, Locations
  <2>. QED
    BY <1>3, <2>1 DEF FramesCached, StartedOnStack, CacheSound, IsBlock, BlockAt
<1>. QED
  BY <1>1, <1>2, <1>3 DEF RunStep, vars

LEMMA NextCacheInv ==
    ASSUME CacheInv, [Next]_vars
    PROVE  CacheInv'
<1>1. CASE ParseInstr \/ ParseFull \/ SkipTarget
  BY <1>1, TopSteps, TopStepCacheInv DEF CacheInv
<1>2. CASE RecurseInto
  BY <1>2, RecurseCacheInv
<1>3. CASE FinishBlock
  BY <1>3, FinishCacheInv
<1>4. CASE Run
  BY <1>4, RunSteps, OtherCacheInv
<1>5. CASE LookupUnseen \/ Execute \/ UNCHANGED vars
  BY <1>5, OtherCacheInv
<1>. QED
  BY <1>1, <1>2, <1>3, <1>4, <1>5 DEF Next, Translate, Ended

\* A cached location is the block of that very address, for every program, all
\* settings of the optimisations, and however the translations nest.
THEOREM CacheSoundHolds == Spec => []CacheSound
<1>1. CacheInv => CacheSound
  BY DEF CacheInv
<1>. QED
  BY <1>1, InitCacheInv, NextCacheInv, PTL DEF Spec

\* TRANSLATION_STARTED marks the addresses that nested calls translate, each
\* by one of them, and is never left behind.
THEOREM StartedOnStackHolds == Spec => []StartedOnStack
<1>1. CacheInv => StartedOnStack
  BY DEF CacheInv
<1>. QED
  BY <1>1, InitCacheInv, NextCacheInv, PTL DEF Spec

-----------------------------------------------------------------------------
(***************************************************************************)
(* The return stack, the block that executes, and the types of the state.  *)
(***************************************************************************)

\* The return stack needs the return addresses that following jumps translates.
RasFollows == \A f \in FlagSets : f.ras => f.jump

-----------------------------------------------------------------------------
(* The block that executes. *)

RunsBlock == mode = "run" => at.block - 1 \in 1..Len(code)

Inputs == program \in Programs /\ flags \in FlagSets

LEMMA EnterRuns ==
    ASSUME Shapes, NEW l, Enter(l)
    PROVE  mode' = "run" => at'.block = l /\ l - 1 \in 1..Len(code)
BY SeqDomain DEF Shapes, Enter

\* An exit leads into a block, or to the main loop.
LEMMA RunEnters ==
    ASSUME Shapes, RunsBlock, Run
    PROVE  /\ mode = "run"
           /\ mode' = "run" => at'.block - 1 \in 1..Len(code)
           /\ UNCHANGED <<cache, code, frames, input>>
<1>. USE DEF RunsBlock, ExecExit
<1>1. \A l : Enter(l) => (mode' = "run" => at'.block - 1 \in 1..Len(code))
  BY EnterRuns
<1>2. \A a : Leave(a) => mode' = "loop"
  BY DEF Leave
<1>3. \A k : TakeSlot(k) => (mode' = "run" => at'.block - 1 \in 1..Len(code))
  BY <1>1, <1>2 DEF TakeSlot
<1>4. \A a : LeaveUnchained(a) => mode' = "loop"
  BY <1>2 DEF LeaveUnchained
<1>5. \A a : JalrLeaves(a) => (mode' = "run" => at'.block - 1 \in 1..Len(code))
  BY <1>1, <1>2, <1>4 DEF JalrLeaves
<1>6. ASSUME ExecItem
      PROVE  mode = "run" /\ (mode' = "run" => at'.block - 1 \in 1..Len(code))
  <2>1. mode = "run" /\ at' = [at EXCEPT !.pos = at.pos + 1]
    BY <1>6 DEF ExecItem
  <2>2. at'.block = at.block
    BY <2>1
  <2>. QED
    BY <2>1, <2>2
<1>7. ASSUME ExecJal \/ ExecBranch \/ ExecPcNext
      PROVE  mode = "run" /\ (mode' = "run" => at'.block - 1 \in 1..Len(code))
  BY <1>3, <1>7 DEF ExecJal, ExecBranch, ExecPcNext
<1>8. ASSUME ExecJalr
      PROVE  mode = "run" /\ (mode' = "run" => at'.block - 1 \in 1..Len(code))
  BY <1>1, <1>5, <1>8 DEF ExecJalr
<1>9. ASSUME ExecEcall \/ ExecExitCall \/ ExecInvalid
      PROVE  mode = "run" /\ (mode' = "run" => at'.block - 1 \in 1..Len(code))
  BY <1>4, <1>9 DEF ExecEcall, ExecExitCall, ExecInvalid
<1>10. UNCHANGED <<cache, code, frames, input>>
  BY DEF Run, ExecItem, ExecJal, ExecBranch, ExecPcNext, ExecJalr, ExecEcall, ExecExitCall,
         ExecInvalid
<1>. QED
  BY <1>6, <1>7, <1>8, <1>9, <1>10 DEF Run

LEMMA InitRuns == Init => RunsBlock /\ Inputs
BY DEF Init, RunsBlock, Inputs

LEMMA NextRuns ==
    ASSUME CacheInv, RunsBlock, Inputs, [Next]_vars
    PROVE  RunsBlock' /\ Inputs'
<1>. USE DEF RunsBlock, Inputs
<1>1. CASE Run
  BY <1>1, RunEnters DEF CacheInv, input
<1>2. CASE Execute
  <2>1. Len(code') = Len(code)
    BY <1>2, ExecuteKeeps DEF CacheInv
  <2>2. Enter(lookup_cache_entry(next_pc)) /\ UNCHANGED input
    BY <1>2 DEF Execute
  <2>3. mode' = "run" => at'.block - 1 \in 1..Len(code)
    BY <2>2, EnterRuns DEF CacheInv
  <2>. QED
    BY <2>1, <2>2, <2>3 DEF input
<1>3. CASE Translate \/ LookupUnseen
  <2>1. mode' # "run" /\ UNCHANGED input
    BY <1>3 DEF Translate, ParseInstr, ParseFull, SkipTarget, RecurseInto, FinishBlock,
                LookupUnseen
  <2>. QED
    BY <2>1 DEF input
<1>4. CASE UNCHANGED vars
  BY <1>4 DEF vars
<1>. QED
  BY <1>1, <1>2, <1>3, <1>4 DEF Next, Ended

-----------------------------------------------------------------------------
(* Addresses that are still to be translated. *)

Within(x, s) == \E j \in 1..Len(s) : s[j] = x

LEMMA WithinConcat ==
    ASSUME NEW s, NEW t, IsSeq(s), IsSeq(t)
    PROVE  /\ IsSeq(s \o t)
           /\ \A x : Within(x, s) \/ Within(x, t) => Within(x, s \o t)
<1>1. PICK S : s \in Seq(S)
  BY DEF IsSeq
<1>2. PICK T : t \in Seq(T)
  BY DEF IsSeq
<1>3. s \in Seq(S \cup T) /\ t \in Seq(S \cup T)
  BY <1>1, <1>2
<1>4. /\ s \o t \in Seq(S \cup T) /\ Len(s \o t) = Len(s) + Len(t)
      /\ \A j \in 1..(Len(s) + Len(t)) :
            (s \o t)[j] = IF j <= Len(s) THEN s[j] ELSE t[j - Len(s)]
  BY <1>3, ConcatProperties
<1>5. Len(s) \in Nat /\ Len(t) \in Nat
  BY <1>1, <1>2
<1>6. ASSUME NEW x, NEW j \in 1..Len(s), s[j] = x
      PROVE  Within(x, s \o t)
  BY <1>4, <1>5, <1>6 DEF Within
<1>7. ASSUME NEW x, NEW j \in 1..Len(t), t[j] = x
      PROVE  Within(x, s \o t)
  <2>1. j + Len(s) \in 1..(Len(s) + Len(t)) /\ ~(j + Len(s) <= Len(s)) /\ j + Len(s) - Len(s) = j
    BY <1>5
  <2>2. (s \o t)[j + Len(s)] = x
    BY <1>4, <1>7, <2>1
  <2>. QED
    BY <1>4, <2>1, <2>2 DEF Within
<1>. QED
  BY <1>4, <1>6, <1>7 DEF IsSeq, Within

LEMMA WithinTail ==
    ASSUME NEW s, IsSeq(s), s # <<>>
    PROVE  /\ IsSeq(Tail(s))
           /\ \A x : Within(x, s) => x = Head(s) \/ Within(x, Tail(s))
<1>1. PICK S : s \in Seq(S)
  BY DEF IsSeq
<1>2. /\ Tail(s) \in Seq(S) /\ Len(s) \in Nat /\ Len(Tail(s)) = Len(s) - 1 /\ Head(s) = s[1]
      /\ \A j \in 1..Len(Tail(s)) : Tail(s)[j] = s[j + 1]
  BY <1>1, HeadTailProperties
<1>3. ASSUME NEW j \in 1..Len(s), j # 1
      PROVE  Within(s[j], Tail(s))
  <2>1. j - 1 \in 1..Len(Tail(s)) /\ (j - 1) + 1 = j
    BY <1>2, <1>3
  <2>. QED
    BY <1>2, <2>1 DEF Within
<1>. QED
  BY <1>2, <1>3 DEF IsSeq, Within

LEMMA WithinSmall ==
    ASSUME NEW x, NEW y
    PROVE  /\ IsSeq(<<>>) /\ IsSeq(<<x>>) /\ IsSeq(<<x, y>>)
           /\ Within(x, <<x>>) /\ Within(x, <<x, y>>)
<1>1. <<>> \in Seq({x}) /\ <<x>> \in Seq({x}) /\ <<x, y>> \in Seq({x, y})
  OBVIOUS
<1>2. IsSeq(<<>>) /\ IsSeq(<<x>>) /\ IsSeq(<<x, y>>)
  BY <1>1 DEF IsSeq
<1>3. Within(x, <<x>>)
  <2>. Len(<<x>>) = 1 /\ <<x>>[1] = x /\ 1 \in 1..1
    OBVIOUS
  <2>. QED
    BY DEF Within
<1>4. Within(x, <<x, y>>)
  <2>. Len(<<x, y>>) = 2 /\ <<x, y>>[1] = x /\ 1 \in 1..2
    OBVIOUS
  <2>. QED
    BY DEF Within
<1>. QED
  BY <1>2, <1>3, <1>4

-----------------------------------------------------------------------------
(* The return stack. *)

\* A call pushes when the return stack is on.
Calls(e) == flags.ras /\ e.kind \in {"JAL", "JALR"} /\ e.rd \in LinkRegs

\* The return address of a call is translated before the block of the call is emitted.
FrameReturns(f) ==
    /\ IsSeq(f.todo)
    /\ Calls(f.end) => f.end.at + 1 \in DOMAIN cache \/ Within(f.end.at + 1, f.todo)

FramesReturn == \A d \in 1..Len(frames) : FrameReturns(frames[d])

\* What a block pushes is the block of its return address.
PushesSound == \A n \in 1..Len(code) :
    code[n].push # NoPush =>
        /\ code[n].push - 1 \in 1..Len(code)
        /\ code[code[n].push - 1].addr = code[n].exit.at + 1

ReturnInv == RasFollows /\ Inputs /\ RunsBlock /\ FramesReturn /\ PushesSound /\ ReturnStackSound

LEMMA InitReturns == RasFollows /\ Init => ReturnInv
<1>1. ASSUME RasFollows, Init
      PROVE  ReturnInv
  <2>1. code = <<>> /\ frames = <<>> /\ Len(<<>>) = 0
    BY <1>1, EmptySeq DEF Init
  <2>2. \A k \in DOMAIN r_stack : r_stack[k].risc_addr = 0
    BY <1>1 DEF Init
  <2>. QED
    BY <1>1, <2>1, <2>2, InitRuns DEF ReturnInv, FramesReturn, PushesSound, ReturnStackSound
<1>. QED
  BY <1>1

\* Parsing a call puts its return address on the list; what leaves the list is cached.
LEMMA TopChangeReturns ==
    ASSUME Shapes, RasFollows, Inputs, NEW f, NEW g, FrameReturns(f), TopChange(f, g)
    PROVE  FrameReturns(g)
<1>1. CASE GoesOn(f, g)
  BY <1>1 DEF GoesOn, FrameReturns
<1>2. CASE EndsAlone(f, g)
  <2>1. PICK kind, i : /\ g.end = EndWith(f, kind, i) /\ kind # "JALR"
                       /\ kind = "JAL" => ~flags.jump
    BY <1>2 DEF EndsAlone
  <2>2. g.end.kind = kind
    BY <2>1 DEF EndWith
  <2>3. ~Calls(g.end)
    BY <2>1, <2>2 DEF Calls, RasFollows, Inputs
  <2>. QED
    BY <1>2, <2>3 DEF FrameReturns, EndsAlone
<1>3. CASE EndsJal(f, g)
  <2> DEFINE i == InstrAt(f.risc_addr)
             first == <<f.risc_addr + i.imm>>
             then == IF i.rd \in LinkRegs THEN <<f.risc_addr + 1>> ELSE <<>>
  <2>1. g.end.rd = i.rd /\ g.end.at = f.risc_addr /\ g.todo = first \o then
    BY <1>3 DEF EndsJal, EndWith
  <2>2. IsSeq(first) /\ IsSeq(then) /\ (i.rd \in LinkRegs => Within(f.risc_addr + 1, then))
    BY WithinSmall
  <2> HIDE DEF i, first, then
  <2>. QED
    BY <2>1, <2>2, WithinConcat DEF FrameReturns, Calls
<1>4. CASE EndsJalr(f, g)
  <2> DEFINE i == InstrAt(f.risc_addr)
             paired == flags.jump /\ AuipcBefore(f, i)
             x == (f.risc_addr - 1) + f.buf[Len(f.buf)].imm + i.imm
             first == IF flags.ras /\ i.rd \in LinkRegs THEN <<f.risc_addr + 1>> ELSE <<>>
             then == IF paired THEN <<f.risc_addr + 1, x>> ELSE <<>>
  <2>1. g.end.rd = i.rd /\ g.end.at = f.risc_addr /\ g.todo = first \o then
    BY <1>4 DEF EndsJalr, EndWith
  <2> HIDE DEF i, paired, x
  <2>2. IsSeq(first) /\ IsSeq(then)
        /\ (flags.ras /\ i.rd \in LinkRegs => Within(f.risc_addr + 1, first))
    BY WithinSmall
  <2> HIDE DEF first, then
  <2>. QED
    BY <2>1, <2>2, WithinConcat DEF FrameReturns, Calls
<1>5. CASE Skips(f, g)
  <2>1. Head(f.todo) \in DOMAIN cache /\ IsSeq(f.todo) /\ f.todo # <<>>
    BY <1>5, LookupType DEF Skips, FrameReturns
  <2>. QED
    BY <1>5, <2>1, WithinTail DEF FrameReturns, Skips
<1>. QED
  BY <1>1, <1>2, <1>3, <1>4, <1>5 DEF TopChange

LEMMA TopStepReturns ==
    ASSUME Shapes, RasFollows, Inputs, FramesReturn, TopStep
    PROVE  FramesReturn'
<1>1. Len(frames) \in Nat /\ Len(frames) >= 1 /\ Len(frames') = Len(frames)
  BY TopStepKeeps
<1>2. PICK g : /\ TopChange(Top, g)
               /\ \A d \in 1..Len(frames) :
                     frames'[d] = IF d = Len(frames) THEN g ELSE frames[d]
  BY TopStepKeeps
<1>3. FrameReturns(Top)
  BY <1>1 DEF FramesReturn, Top
<1>4. FrameReturns(g)
  BY <1>2, <1>3, TopChangeReturns
<1>5. \A d \in 1..Len(frames) : FrameReturns(frames'[d])
  BY <1>2, <1>4 DEF FramesReturn
<1>6. UNCHANGED <<cache, flags>>
  BY DEF TopStep, input
<1>. QED
  BY <1>1, <1>5, <1>6 DEF FramesReturn, FrameReturns, Calls, Within, LinkRegs, IsSeq

LEMMA RecurseReturns ==
    ASSUME Shapes, FramesReturn, RecurseInto
    PROVE  FramesReturn'
<1> DEFINE n == Len(frames)
           target == Head(Top.todo)
           Kept(f) == /\ IsSeq(f.todo)
                      /\ Calls(f.end) => \/ f.end.at + 1 \in DOMAIN cache'
                                         \/ Within(f.end.at + 1, f.todo)
<1>1. /\ n \in Nat /\ n >= 1 /\ Len(frames') = n + 1 /\ Top.todo # <<>>
      /\ frames'[n + 1] = NewFrame(target)
  BY RecurseKeeps
<1>2. \A d \in 1..n : /\ frames'[d].end = frames[d].end
                      /\ frames'[d].todo = IF d = n THEN Tail(frames[d].todo) ELSE frames[d].todo
  BY RecurseKeeps
<1>3. DOMAIN cache' = DOMAIN cache \cup {target} /\ UNCHANGED flags
  BY RecurseKeeps DEF RecurseInto, input
<1>4. Top = frames[n]
  BY DEF Top
<1> HIDE DEF n, target
<1>5. ASSUME NEW d \in 1..n
      PROVE  Kept(frames'[d])
  <2>1. FrameReturns(frames[d])
    BY <1>5 DEF FramesReturn, n
  <2>2. CASE d # n
    BY <1>2, <1>3, <2>1, <2>2 DEF FrameReturns
  <2>3. CASE d = n
    <3>1. /\ IsSeq(Tail(frames[d].todo))
          /\ \A x : Within(x, frames[d].todo) => x = target \/ Within(x, Tail(frames[d].todo))
      BY <1>1, <1>4, <2>1, <2>3, WithinTail DEF FrameReturns, target
    <3>2. Calls(frames[d].end) =>
            \/ frames[d].end.at + 1 \in DOMAIN cache'
            \/ Within(frames[d].end.at + 1, Tail(frames[d].todo))
      BY <1>3, <2>1, <3>1 DEF FrameReturns
    <3>. QED
      BY <1>2, <2>3, <3>1, <3>2
  <2>. QED
    BY <2>2, <2>3
<1>6. Kept(frames'[n + 1])
  <2>1. frames'[n + 1].todo = <<>> /\ frames'[n + 1].end.kind = "none"
    BY <1>1 DEF NewFrame, NoEnd
  <2>2. IsSeq(<<>>)
    BY WithinSmall
  <2>. QED
    BY <2>1, <2>2 DEF Calls
<1>7. \A d \in 1..(n + 1) : Kept(frames'[d])
  BY <1>1, <1>5, <1>6
<1>. QED
  BY <1>1, <1>3, <1>7 DEF FramesReturn, FrameReturns, Calls, Within, LinkRegs, IsSeq

LEMMA FinishReturns ==
    ASSUME CacheInv, FramesReturn, PushesSound, ReturnStackSound, FinishBlock
    PROVE  FramesReturn' /\ PushesSound' /\ ReturnStackSound'
<1>. USE DEF CacheInv
<1> DEFINE n == Len(frames)
           m == Len(code)
           e == Top.end
           b == EmittedBlock(Top)
<1>1. /\ n \in Nat /\ n >= 1 /\ Len(frames') = n - 1
      /\ \A d \in 1..(n - 1) : frames'[d] = frames[d]
      /\ m \in Nat /\ Len(code') = m + 1 /\ code'[m + 1] = b
      /\ \A k \in 1..m : code'[k] = code[k]
      /\ DOMAIN cache \subseteq DOMAIN cache'
      /\ IsSeq(code')
  BY FinishKeeps
<1>2. UNCHANGED <<flags, r_stack>> /\ Top.todo = <<>> /\ Top = frames[n]
  BY DEF FinishBlock, input, guest, Top
<1>3. b.push = PushOf(e) /\ b.exit = e
  BY DEF EmittedBlock
<1>4. FrameReturns(Top)
  BY <1>1, <1>2 DEF FramesReturn
<1>5. b.push # NoPush => b.push - 1 \in 1..m /\ code[b.push - 1].addr = e.at + 1
  <2>1. ASSUME b.push # NoPush
        PROVE  b.push - 1 \in 1..m /\ code[b.push - 1].addr = e.at + 1
    <3>1. /\ Calls(e) /\ b.push = lookup_cache_entry(e.at + 1)
          /\ lookup_cache_entry(e.at + 1) # TRANSLATION_STARTED
      BY <1>3, <2>1 DEF PushOf, Calls
    <3>2. ~Within(e.at + 1, Top.todo)
      BY <1>2, EmptySeq DEF Within
    <3>3. e.at + 1 \in DOMAIN cache
      BY <1>4, <3>1, <3>2 DEF FrameReturns
    <3>4. b.push = cache[e.at + 1] /\ IsBlock(b.push)
      BY <3>1, <3>3, LookupType DEF lookup_cache_entry, IsBlock
    <3>. QED
      BY <3>1, <3>3, <3>4, LookupType DEF CacheSound, BlockAt
  <2>. QED
    BY <2>1
<1> HIDE DEF n, m, e, b
<1>6. FramesReturn'
  <2>1. \A d \in 1..(n - 1) : FrameReturns(frames'[d])
    BY <1>1 DEF FramesReturn, n
  <2>. QED
    BY <1>1, <1>2, <2>1 DEF FramesReturn, FrameReturns, Calls, Within, LinkRegs, IsSeq
<1>7. PushesSound'
  <2>1. ASSUME NEW k \in 1..(m + 1), code'[k].push # NoPush
        PROVE  /\ code'[k].push - 1 \in 1..(m + 1)
               /\ code'[code'[k].push - 1].addr = code'[k].exit.at + 1
    <3>1. CASE k = m + 1
      BY <1>1, <1>3, <1>5, <2>1, <3>1
    <3>2. CASE k # m + 1
      <4>1. code'[k] = code[k] /\ k \in 1..m
        BY <1>1, <2>1, <3>2
      <4>. QED
        BY <1>1, <2>1, <4>1 DEF PushesSound, m
    <3>. QED
      BY <3>1, <3>2
  <2>. QED
    BY <1>1, <2>1 DEF PushesSound, NoPush
<1>8. ReturnStackSound'
  <2>1. DOMAIN code = 1..m /\ DOMAIN code' = 1..(m + 1)
    BY <1>1, SeqDomain DEF Shapes, m
  <2>. QED
    BY <1>1, <1>2, <2>1 DEF ReturnStackSound, BlockAt
<1>. QED
  BY <1>6, <1>7, <1>8

\* Running code leaves the return stack alone, or pushes the current block's call.
LEMMA RunPushes ==
    ASSUME Run
    PROVE  r_stack' = r_stack \/ (Current.push # NoPush /\ \E f : PushFrom(f))
<1>1. CASE ExecItem \/ ExecBranch \/ ExecPcNext \/ ExecEcall \/ ExecExitCall \/ ExecInvalid
  BY <1>1 DEF ExecItem, ExecBranch, ExecPcNext, ExecEcall, ExecExitCall, ExecInvalid, guest
<1>2. \A f : PushFrom(f) => r_stack' = r_stack \/ Current.push # NoPush
  BY DEF PushFrom
<1>3. CASE ExecJal
  BY <1>2, <1>3 DEF ExecJal
<1>4. CASE ExecJalr
  BY <1>2, <1>4 DEF ExecJalr
<1>. QED
  BY <1>1, <1>3, <1>4 DEF Run

LEMMA RunReturns ==
    ASSUME Shapes, RunsBlock, PushesSound, ReturnStackSound, Run
    PROVE  ReturnStackSound'
<1> DEFINE b == Current
           sound(e) == e.risc_addr # 0 => /\ e.x86_addr - 1 \in 1..Len(code)
                                         /\ code[e.x86_addr - 1].addr = e.risc_addr
<1>1. mode = "run" /\ UNCHANGED code /\ DOMAIN code = 1..Len(code)
  BY RunEnters, SeqDomain DEF Shapes
<1>2. at.block - 1 \in 1..Len(code) /\ b = code[at.block - 1]
  BY <1>1 DEF RunsBlock, Current, BlockAt
<1>3. \A k \in DOMAIN r_stack : sound(r_stack[k])
  BY <1>1 DEF ReturnStackSound, BlockAt
<1>4. SUFFICES \A k \in DOMAIN r_stack' : sound(r_stack'[k])
  BY <1>1 DEF ReturnStackSound, BlockAt
<1>5. CASE r_stack' = r_stack
  BY <1>3, <1>5
<1>6. CASE b.push # NoPush /\ \E f : PushFrom(f)
  <2> DEFINE x == [risc_addr |-> b.exit.at + 1, x86_addr |-> b.push]
  <2>1. PICK f : r_stack' = [r_stack EXCEPT ![NextFront(f)] = x]
    BY <1>6 DEF PushFrom
  <2>2. sound(x)
    BY <1>2, <1>6 DEF PushesSound
  <2> HIDE DEF x, sound
  <2>. QED
    BY <1>3, <2>1, <2>2
<1>. QED
  BY <1>5, <1>6, RunPushes

LEMMA ExecuteReturns ==
    ASSUME Shapes, FramesReturn, PushesSound, ReturnStackSound, Execute
    PROVE  FramesReturn' /\ PushesSound' /\ ReturnStackSound'
<1>1. /\ IsSeq(code') /\ Len(code') = Len(code) /\ UNCHANGED <<cache, frames>>
      /\ \A n \in 1..Len(code) : /\ code'[n].addr = code[n].addr
                                 /\ code'[n].exit = code[n].exit /\ code'[n].push = code[n].push
  BY ExecuteKeeps
<1>2. UNCHANGED <<flags, r_stack>>
  BY DEF Execute, input, guest
<1>3. FramesReturn'
  BY <1>1, <1>2 DEF FramesReturn, FrameReturns, Calls, Within, LinkRegs, IsSeq
<1>4. PushesSound'
  BY <1>1 DEF PushesSound, NoPush
<1>5. DOMAIN code = 1..Len(code) /\ DOMAIN code' = 1..Len(code)
  BY <1>1, SeqDomain DEF Shapes
<1>6. ReturnStackSound'
  BY <1>1, <1>2, <1>5 DEF ReturnStackSound, BlockAt
<1>. QED
  BY <1>3, <1>4, <1>6

LEMMA LookupReturns ==
    ASSUME Shapes, FramesReturn, PushesSound, ReturnStackSound, LookupUnseen
    PROVE  FramesReturn' /\ PushesSound' /\ ReturnStackSound'
<1>1. UNCHANGED <<cache, code, flags, r_stack>> /\ frames' = <<NewFrame(next_pc)>>
  BY DEF LookupUnseen, input, guest
<1>2. NewFrame(next_pc).todo = <<>> /\ NewFrame(next_pc).end.kind = "none"
  BY DEF NewFrame, NoEnd
<1>3. Len(frames') = 1 /\ frames'[1] = NewFrame(next_pc)
  BY <1>1
<1>4. FramesReturn'
  <2>1. IsSeq(frames'[1].todo) /\ frames'[1].end.kind = "none"
    BY <1>2, <1>3, WithinSmall
  <2>2. \A d \in 1..1 : d = 1
    OBVIOUS
  <2>. QED
    BY <1>3, <2>1, <2>2 DEF FramesReturn, FrameReturns, Calls, IsSeq
<1>. QED
  BY <1>1, <1>4 DEF PushesSound, NoPush, ReturnStackSound, BlockAt

LEMMA NextReturns ==
    ASSUME CacheInv, ReturnInv, [Next]_vars
    PROVE  ReturnInv'
<1>. USE DEF CacheInv, ReturnInv
<1>1. RasFollows' /\ Inputs' /\ RunsBlock'
  BY NextRuns DEF RasFollows
<1>2. CASE ParseInstr \/ ParseFull \/ SkipTarget
  <2>1. TopStep
    BY <1>2, TopSteps
  <2>2. FramesReturn'
    BY <2>1, TopStepReturns
  <2>. QED
    BY <1>1, <2>1, <2>2 DEF TopStep, guest, PushesSound, NoPush, ReturnStackSound, BlockAt
<1>3. CASE RecurseInto
  <2>1. FramesReturn'
    BY <1>3, RecurseReturns
  <2>2. UNCHANGED <<code, r_stack>>
    BY <1>3 DEF RecurseInto, guest
  <2>. QED
    BY <1>1, <2>1, <2>2 DEF PushesSound, NoPush, ReturnStackSound, BlockAt
<1>4. CASE FinishBlock
  BY <1>1, <1>4, FinishReturns
<1>5. CASE Execute
  BY <1>1, <1>5, ExecuteReturns
<1>6. CASE LookupUnseen
  BY <1>1, <1>6, LookupReturns
<1>7. CASE Run
  <2>1. UNCHANGED <<code, cache, frames, flags>>
    BY <1>7, RunEnters DEF input
  <2>2. ReturnStackSound'
    BY <1>7, RunReturns
  <2>. QED
    BY <1>1, <2>1, <2>2 DEF FramesReturn, FrameReturns, Calls, Within, LinkRegs, IsSeq,
                            PushesSound, NoPush
<1>8. CASE UNCHANGED vars
  BY <1>1, <1>8 DEF vars, FramesReturn, FrameReturns, Calls, Within, LinkRegs, IsSeq,
                    PushesSound, NoPush, ReturnStackSound, BlockAt
<1>. QED
  BY <1>2, <1>3, <1>4, <1>5, <1>6, <1>7, <1>8 DEF Next, Translate, Ended

\* Every entry of the return stack pairs a return address with the block of that
\* very address, for every program, provided that the return stack is only used
\* together with the recursive translation of jumps.
THEOREM ReturnStackSoundHolds == RasFollows => (Spec => []ReturnStackSound)
<1>1. RasFollows /\ Init => CacheInv /\ ReturnInv
  BY InitCacheInv, InitReturns
<1>2. CacheInv /\ ReturnInv /\ [Next]_vars => (CacheInv /\ ReturnInv)'
  BY NextCacheInv, NextReturns
<1>3. ReturnInv => ReturnStackSound
  BY DEF ReturnInv
<1>. QED
  BY <1>1, <1>2, <1>3, PTL DEF Spec

-----------------------------------------------------------------------------
(* The types of the state: what executes is inside an emitted block, the    *)
(* return stack stays a ring of RAS_SIZE entries, and chain_end is a slot   *)
(* that exists.                                                            *)

\* The modes of the process.
Modes == {"loop", "translate", "run", "done", "panic", "crash"}

\* The buffers of parsed instructions, and the items they become.
ItemLists == /\ \A d \in 1..Len(frames) : IsSeq(frames[d].buf)
             /\ \A n \in 1..Len(code) : IsSeq(code[n].items)

\* The slots an exit may be taken through.
ExitSlots(b) ==
    /\ b.exit.kind \in {"JAL", "BRANCH", "PC_NEXT_INST"} => 1 \in DOMAIN b.slots
    /\ b.exit.kind = "BRANCH" => 2 \in DOMAIN b.slots
    /\ b.slots # <<>> => 1 \in DOMAIN b.slots

ExitsHaveSlots == \A n \in 1..Len(code) : ExitSlots(code[n])

\* The host instruction pointer.
Placed == /\ {"block", "pos"} \subseteq DOMAIN at
          /\ mode = "run" => at.pos \in 1..(Len(code[at.block - 1].items) + 1)

Ring == rs_front \in 0..(RAS_SIZE - 1) /\ DOMAIN r_stack = 0..(RAS_SIZE - 1)

\* The site to chain.
SiteExists == chain_end # NoSite => /\ chain_end[1] - 1 \in 1..Len(code)
                                    /\ chain_end[2] \in DOMAIN code[chain_end[1] - 1].slots

TypeInv == /\ Inputs /\ RunsBlock /\ mode \in Modes /\ ItemLists /\ ExitsHaveSlots
           /\ Placed /\ Ring /\ SiteExists

-----------------------------------------------------------------------------
(* The ring of return addresses. *)

LEMMA Fronts ==
    ASSUME NEW f \in 0..(RAS_SIZE - 1)
    PROVE  NextFront(f) \in 0..(RAS_SIZE - 1) /\ PrevFront(f) \in 0..(RAS_SIZE - 1)
<1>1. RAS_SIZE \in Nat /\ RAS_SIZE > 0
  BY RasAssumption
<1>2. \A x \in Int : x % RAS_SIZE \in 0..(RAS_SIZE - 1)
  BY <1>1
<1>. QED
  BY <1>1, <1>2 DEF NextFront, PrevFront

LEMMA RunRing ==
    ASSUME Ring, Run
    PROVE  Ring'
<1>1. ASSUME NEW f \in 0..(RAS_SIZE - 1), PushFrom(f)
      PROVE  Ring'
  <2>1. NextFront(f) \in 0..(RAS_SIZE - 1)
    BY Fronts
  <2>. QED
    BY <1>1, <2>1 DEF PushFrom, Ring
<1>2. PrevFront(rs_front) \in 0..(RAS_SIZE - 1) /\ rs_front \in 0..(RAS_SIZE - 1)
  BY Fronts DEF Ring
<1>3. CASE ExecItem \/ ExecBranch \/ ExecPcNext \/ ExecEcall \/ ExecExitCall \/ ExecInvalid
  BY <1>3 DEF ExecItem, ExecBranch, ExecPcNext, ExecEcall, ExecExitCall, ExecInvalid, guest, Ring
<1>4. CASE ExecJal
  BY <1>1, <1>2, <1>4 DEF ExecJal
<1>5. CASE ExecJalr
  <2>1. \/ rs_front' = PrevFront(rs_front) /\ UNCHANGED r_stack
        \/ PushFrom(PrevFront(rs_front))
        \/ PushFrom(rs_front)
    BY <1>5 DEF ExecJalr
  <2>. QED
    BY <1>1, <1>2, <2>1 DEF Ring
<1>. QED
  BY <1>3, <1>4, <1>5 DEF Run

-----------------------------------------------------------------------------
(* Running code. *)

LEMMA EnterPlaces ==
    ASSUME Shapes, ItemLists, NEW l, Enter(l), UNCHANGED code
    PROVE  Placed' /\ mode' \in Modes
<1>1. CASE l - 1 \in 1..Len(code)
  <2>1. Len(code[l - 1].items) \in Nat
    BY <1>1, SeqDomain DEF ItemLists
  <2>2. at'.block = l /\ at'.pos = 1 /\ mode' = "run" /\ DOMAIN at' = {"block", "pos"}
    BY <1>1, SeqDomain DEF Enter, Shapes
  <2>. QED
    BY <2>1, <2>2 DEF Placed, Modes
<1>2. CASE l - 1 \notin 1..Len(code)
  <2>1. mode' = "crash" /\ DOMAIN at' = {"block", "pos"}
    BY <1>2, SeqDomain DEF Enter, Shapes
  <2>. QED
    BY <2>1 DEF Placed, Modes
<1>. QED
  BY <1>1, <1>2

LEMMA RunPlaced ==
    ASSUME Shapes, RunsBlock, ItemLists, Placed, Run
    PROVE  Placed' /\ mode' \in Modes
<1>1. mode = "run" /\ UNCHANGED code
  BY RunEnters
<1>2. ASSUME NEW l, Enter(l)
      PROVE  Placed' /\ mode' \in Modes
  BY <1>1, <1>2, EnterPlaces
<1>3. ASSUME at' = at, mode' \in {"loop", "done", "panic"}
      PROVE  Placed' /\ mode' \in Modes
  BY <1>3 DEF Placed, Modes
<1>4. \A k : TakeSlot(k) => Placed' /\ mode' \in Modes
  BY <1>2, <1>3 DEF TakeSlot, Leave
<1>5. \A a : LeaveUnchained(a) => Placed' /\ mode' \in Modes
  BY <1>3 DEF LeaveUnchained, Leave
<1>6. \A a : JalrLeaves(a) => Placed' /\ mode' \in Modes
  BY <1>2, <1>3, <1>5 DEF JalrLeaves, Leave
<1>7. CASE ExecItem
  <2> DEFINE n == Len(code[at.block - 1].items)
  <2>1. at' = [at EXCEPT !.pos = at.pos + 1] /\ at.pos <= n /\ mode' = "run"
    BY <1>7 DEF ExecItem, Current, BlockAt
  <2>2. at.pos \in 1..(n + 1) /\ n \in Nat
    BY <1>1, SeqDomain DEF Placed, ItemLists, RunsBlock
  <2>3. at'.block = at.block /\ at'.pos = at.pos + 1 /\ {"block", "pos"} \subseteq DOMAIN at'
    BY <2>1 DEF Placed
  <2>4. at'.pos \in 1..(n + 1)
    BY <2>1, <2>2, <2>3
  <2>. QED
    BY <1>1, <2>1, <2>3, <2>4 DEF Placed, Modes
<1>8. CASE ExecJal \/ ExecBranch \/ ExecPcNext
  BY <1>4, <1>8 DEF ExecJal, ExecBranch, ExecPcNext
<1>9. CASE ExecEcall \/ ExecExitCall \/ ExecInvalid
  BY <1>3, <1>5, <1>9 DEF ExecEcall, ExecExitCall, ExecInvalid
<1>10. CASE ExecJalr
  BY <1>2, <1>6, <1>10 DEF ExecJalr
<1>. QED
  BY <1>7, <1>8, <1>9, <1>10 DEF Run

LEMMA RunSiteExists ==
    ASSUME Shapes, RunsBlock, ExitsHaveSlots, SiteExists, Run
    PROVE  SiteExists'
<1>1. mode = "run" /\ UNCHANGED code
  BY RunEnters
<1>2. at.block - 1 \in 1..Len(code) /\ Current = code[at.block - 1] /\ ExitSlots(Current)
  BY <1>1 DEF RunsBlock, Current, BlockAt, ExitsHaveSlots
<1>3. ASSUME chain_end' = chain_end \/ chain_end' = NoSite
      PROVE  SiteExists'
  BY <1>1, <1>3 DEF SiteExists, NoSite
<1>4. ASSUME NEW k \in DOMAIN Current.slots, chain_end' = <<at.block, k>>
      PROVE  SiteExists'
  <2>1. chain_end'[1] = at.block /\ chain_end'[2] = k
    BY <1>4
  <2>. QED
    BY <1>1, <1>2, <1>4, <2>1 DEF SiteExists
<1>5. ASSUME NEW k \in DOMAIN Current.slots, TakeSlot(k)
      PROVE  SiteExists'
  BY <1>3, <1>4, <1>5 DEF TakeSlot
<1>6. \A a : LeaveUnchained(a) => SiteExists'
  BY <1>3 DEF LeaveUnchained
<1>7. CASE ExecItem \/ ExecEcall \/ ExecExitCall \/ ExecInvalid
  BY <1>3, <1>6, <1>7 DEF ExecItem, ExecEcall, ExecExitCall, ExecInvalid
<1>8. CASE ExecJal \/ ExecPcNext
  BY <1>2, <1>5, <1>8 DEF ExecJal, ExecPcNext, ExecExit, ExitSlots
<1>9. CASE ExecBranch
  BY <1>2, <1>5, <1>9 DEF ExecBranch, ExecExit, ExitSlots
<1>10. CASE ExecJalr
  <2>1. Current.slots # <<>> => 1 \in DOMAIN Current.slots
    BY <1>2 DEF ExitSlots
  <2>2. \A a : JalrLeaves(a) => SiteExists'
    BY <1>3, <1>4, <1>6, <2>1 DEF JalrLeaves
  <2>3. chain_end' = chain_end \/ \E a : JalrLeaves(a)
    BY <1>10 DEF ExecJalr
  <2>. QED
    BY <1>3, <2>2, <2>3
<1>. QED
  BY <1>7, <1>8, <1>9, <1>10 DEF Run

-----------------------------------------------------------------------------
(* Translating and chaining. *)

LEMMA TopStepLists ==
    ASSUME Shapes, ItemLists, TopStep
    PROVE  ItemLists'
<1>1. Len(frames) \in Nat /\ Len(frames) >= 1 /\ Len(frames') = Len(frames)
  BY TopStepKeeps
<1>2. PICK g : /\ TopChange(Top, g)
               /\ \A d \in 1..Len(frames) :
                     frames'[d] = IF d = Len(frames) THEN g ELSE frames[d]
  BY TopStepKeeps
<1>3. IsSeq(Top.buf)
  BY <1>1 DEF ItemLists, Top
<1>4. \A i : IsSeq(Parsed(Top, i))
  BY <1>3, SeqAppend DEF Parsed
<1>5. IsSeq(g.buf)
  BY <1>2, <1>3, <1>4 DEF TopChange, GoesOn, EndsAlone, EndsJal, EndsJalr, Skips
<1>6. \A d \in 1..Len(frames) : IsSeq(frames'[d].buf)
  BY <1>2, <1>5 DEF ItemLists
<1>7. UNCHANGED code
  BY DEF TopStep
<1>. QED
  BY <1>1, <1>6, <1>7 DEF ItemLists, IsSeq

LEMMA SlotsExist ==
    ASSUME NEW e
    PROVE  /\ e.kind \in {"JAL", "BRANCH", "PC_NEXT_INST"} => 1 \in DOMAIN Slots(e)
           /\ e.kind = "BRANCH" => 2 \in DOMAIN Slots(e)
           /\ Slots(e) # <<>> => 1 \in DOMAIN Slots(e)
<1>1. \A x, y : 1 \in DOMAIN <<x>> /\ DOMAIN <<x, y>> = {1, 2}
  OBVIOUS
<1>2. CASE e.kind = "JAL"
  BY <1>1, <1>2 DEF Slots
<1>3. CASE e.kind = "BRANCH"
  <2>1. Slots(e) = <<Slot(e.at + e.imm), Slot(e.at + 1)>>
    BY <1>3 DEF Slots
  <2>2. DOMAIN Slots(e) = {1, 2}
    BY <1>1, <2>1
  <2>. QED
    BY <1>3, <2>2
<1>4. CASE e.kind = "PC_NEXT_INST"
  BY <1>1, <1>4 DEF Slots
<1>5. CASE e.kind \notin {"JAL", "BRANCH", "PC_NEXT_INST"}
  BY <1>1, <1>5 DEF Slots
<1>. QED
  BY <1>2, <1>3, <1>4, <1>5

LEMMA FinishTypes ==
    ASSUME Shapes, ItemLists, ExitsHaveSlots, SiteExists, FinishBlock
    PROVE  ItemLists' /\ ExitsHaveSlots' /\ SiteExists'
<1> DEFINE n == Len(frames)
           m == Len(code)
           b == EmittedBlock(Top)
<1>1. /\ n \in Nat /\ n >= 1 /\ Len(frames') = n - 1
      /\ \A d \in 1..(n - 1) : frames'[d] = frames[d]
      /\ m \in Nat /\ Len(code') = m + 1 /\ code'[m + 1] = b
      /\ \A k \in 1..m : code'[k] = code[k]
  BY FinishKeeps
<1>2. IsSeq(Top.buf)
  BY <1>1 DEF ItemLists, Top
<1>3. b.items = Top.buf /\ b.exit = Top.end /\ b.slots = Slots(Top.end)
  BY DEF EmittedBlock
<1>4. ExitSlots(b)
  BY <1>3, SlotsExist DEF ExitSlots
<1>5. UNCHANGED chain_end
  BY DEF FinishBlock
<1> HIDE DEF n, m, b
<1>6. \A k \in 1..(m + 1) : k = m + 1 \/ k \in 1..m
  BY <1>1
<1>7. \A k \in 1..(m + 1) : IsSeq(code'[k].items) /\ ExitSlots(code'[k])
  BY <1>1, <1>2, <1>3, <1>4, <1>6 DEF ItemLists, ExitsHaveSlots, m
<1>8. \A d \in 1..(n - 1) : IsSeq(frames'[d].buf)
  BY <1>1 DEF ItemLists, n
<1>9. ItemLists'
  BY <1>1, <1>7, <1>8 DEF ItemLists, IsSeq
<1>10. ExitsHaveSlots'
  BY <1>1, <1>7 DEF ExitsHaveSlots, ExitSlots
<1>11. SiteExists'
  BY <1>1, <1>5 DEF SiteExists, NoSite, m
<1>. QED
  BY <1>9, <1>10, <1>11

LEMMA ExecuteTypes ==
    ASSUME Shapes, ItemLists, ExitsHaveSlots, SiteExists, Placed, Execute
    PROVE  ItemLists' /\ ExitsHaveSlots' /\ SiteExists' /\ Placed' /\ mode' \in Modes
<1> DEFINE l == lookup_cache_entry(next_pc)
           m == chain_end[1] - 1
           t == code[m].slots
           u == [t EXCEPT ![chain_end[2]].jump = l]
           b == [code[m] EXCEPT !.slots = u]
<1>1. chain(l) /\ Enter(l)
  BY DEF Execute
<1>2. /\ IsSeq(code') /\ Len(code') = Len(code) /\ UNCHANGED frames
      /\ \A n \in 1..Len(code) : code'[n].items = code[n].items /\ code'[n].exit = code[n].exit
  BY ExecuteKeeps
\* chain keeps the slots of every block, and their number.
<1>3. \A n \in 1..Len(code) : /\ DOMAIN code'[n].slots = DOMAIN code[n].slots
                              /\ code[n].slots = <<>> => code'[n].slots = <<>>
  <2>1. CASE code' = code
    BY <2>1
  <2>2. CASE code' # code
    <3>1. chain_end # NoSite /\ code' = [code EXCEPT ![m] = b]
      BY <1>1, <2>2 DEF chain
    <3>2. m \in 1..Len(code) /\ IsEmitted(code[m]) /\ chain_end[2] \in DOMAIN t
      BY <3>1 DEF SiteExists, Shapes
    <3>3. t # <<>>
      <4>1. DOMAIN <<>> = {}
        OBVIOUS
      <4>. QED
        BY <3>2, <4>1
    <3> HIDE DEF l, m
    <3>4. DOMAIN u = DOMAIN t
      OBVIOUS
    <3> HIDE DEF u
    <3>5. b.slots = u
      BY <3>2 DEF IsEmitted
    <3> HIDE DEF b, t
    <3>6. \A n \in 1..Len(code) : code'[n] = IF n = m THEN b ELSE code[n]
      BY <3>1, SeqDomain DEF Shapes
    <3>. QED
      BY <3>3, <3>4, <3>5, <3>6 DEF t
  <2>. QED
    BY <2>1, <2>2
<1>4. ItemLists'
  BY <1>2 DEF ItemLists, IsSeq
<1>5. ExitsHaveSlots'
  BY <1>2, <1>3 DEF ExitsHaveSlots, ExitSlots
<1>6. SiteExists'
  <2>1. chain_end' = chain_end \/ chain_end' = NoSite
    BY <1>1 DEF chain
  <2>. QED
    BY <1>2, <1>3, <2>1 DEF SiteExists, NoSite
<1>7. Placed' /\ mode' \in Modes
  <2>1. CASE l - 1 \in 1..Len(code)
    <3>1. IsSeq(code'[l - 1].items)
      BY <1>2, <2>1 DEF ItemLists
    <3>2. Len(code'[l - 1].items) \in Nat
      BY <3>1, SeqDomain
    <3>3. at'.block = l /\ at'.pos = 1 /\ mode' = "run" /\ DOMAIN at' = {"block", "pos"}
      BY <1>1, <2>1, SeqDomain DEF Enter, Shapes
    <3>. QED
      BY <3>2, <3>3 DEF Placed, Modes
  <2>2. CASE l - 1 \notin 1..Len(code)
    <3>1. mode' = "crash" /\ DOMAIN at' = {"block", "pos"}
      BY <1>1, <2>2, SeqDomain DEF Enter, Shapes
    <3>. QED
      BY <3>1 DEF Placed, Modes
  <2>. QED
    BY <2>1, <2>2
<1>. QED
  BY <1>4, <1>5, <1>6, <1>7

LEMMA FramesLists ==
    ASSUME Shapes, ItemLists, RecurseInto \/ LookupUnseen
    PROVE  ItemLists'
<1>1. UNCHANGED code
  BY DEF RecurseInto, LookupUnseen
<1>2. SUFFICES \A d \in 1..Len(frames') : IsSeq(frames'[d].buf)
  BY <1>1 DEF ItemLists, IsSeq
<1>3. \A a : NewFrame(a).buf = <<>> /\ IsSeq(<<>>)
  BY WithinSmall DEF NewFrame
<1>4. CASE RecurseInto
  <2> DEFINE n == Len(frames)
  <2>1. /\ n \in Nat /\ Len(frames') = n + 1 /\ frames'[n + 1] = NewFrame(Head(Top.todo))
        /\ \A d \in 1..n : frames'[d].buf = frames[d].buf
    BY <1>4, RecurseKeeps
  <2>2. \A d \in 1..n : IsSeq(frames'[d].buf)
    BY <2>1 DEF ItemLists
  <2>3. IsSeq(frames'[n + 1].buf)
    BY <1>3, <2>1
  <2> HIDE DEF n
  <2>4. \A d \in 1..(n + 1) : d = n + 1 \/ d \in 1..n
    BY <2>1
  <2>. QED
    BY <2>1, <2>2, <2>3, <2>4
<1>5. CASE LookupUnseen
  <2>1. Len(frames') = 1 /\ frames'[1] = NewFrame(next_pc) /\ \A d \in 1..1 : d = 1
    BY <1>5 DEF LookupUnseen
  <2>. QED
    BY <1>3, <2>1
<1>. QED
  BY <1>4, <1>5

-----------------------------------------------------------------------------

LEMMA InitTypes == Init => TypeInv
<1>1. ASSUME Init
      PROVE  TypeInv
  <2>1. code = <<>> /\ frames = <<>> /\ chain_end = NoSite /\ Len(<<>>) = 0
    BY <1>1, EmptySeq DEF Init
  <2>2. Ring /\ mode = "loop" /\ DOMAIN at = {"block", "pos"}
    BY <1>1, RasAssumption DEF Init, Ring
  <2>. QED
    BY <1>1, <2>1, <2>2, InitRuns
    DEF TypeInv, Modes, ItemLists, ExitsHaveSlots, Placed, SiteExists
<1>. QED
  BY <1>1

LEMMA NextTypes ==
    ASSUME CacheInv, TypeInv, [Next]_vars
    PROVE  TypeInv'
<1>. USE DEF TypeInv
<1>0. Shapes
  BY DEF CacheInv
<1>1. Inputs' /\ RunsBlock'
  BY NextRuns
<1>2. ASSUME UNCHANGED <<code, at, r_stack, rs_front, chain_end>>, mode' \in {mode, "loop", "translate"}
      PROVE  mode' \in Modes /\ ExitsHaveSlots' /\ Placed' /\ Ring' /\ SiteExists'
  BY <1>2 DEF Modes, ExitsHaveSlots, ExitSlots, Placed, Ring, SiteExists, NoSite
<1>3. CASE ParseInstr \/ ParseFull \/ SkipTarget
  <2>1. TopStep
    BY <1>0, <1>3, TopSteps
  <2>2. ItemLists'
    BY <1>0, <2>1, TopStepLists
  <2>. QED
    BY <1>1, <1>2, <2>1, <2>2 DEF TopStep, guest
<1>4. CASE RecurseInto \/ LookupUnseen
  <2>1. ItemLists'
    BY <1>0, <1>4, FramesLists
  <2>. QED
    BY <1>1, <1>2, <1>4, <2>1 DEF RecurseInto, LookupUnseen, guest
<1>5. CASE FinishBlock
  <2>1. ItemLists' /\ ExitsHaveSlots' /\ SiteExists'
    BY <1>0, <1>5, FinishTypes
  <2>2. UNCHANGED <<at, r_stack, rs_front>> /\ mode' \in {"loop", "translate"}
    BY <1>5 DEF FinishBlock, guest
  <2>3. Placed' /\ Ring' /\ mode' \in Modes
    BY <2>2 DEF Placed, Ring, Modes
  <2>. QED
    BY <1>1, <2>1, <2>3
<1>6. CASE Execute
  <2>1. UNCHANGED <<r_stack, rs_front>>
    BY <1>6 DEF Execute, guest
  <2>2. Ring'
    BY <2>1 DEF Ring
  <2>. QED
    BY <1>0, <1>1, <1>6, <2>2, ExecuteTypes
<1>7. CASE Run
  <2>1. UNCHANGED <<code, frames>>
    BY <1>0, <1>7, RunEnters
  <2>2. ItemLists' /\ ExitsHaveSlots'
    BY <2>1 DEF ItemLists, IsSeq, ExitsHaveSlots, ExitSlots
  <2>. QED
    BY <1>0, <1>1, <1>7, <2>2, RunPlaced, RunRing, RunSiteExists
<1>8. CASE UNCHANGED vars
  <2>1. ItemLists'
    BY <1>8 DEF vars, ItemLists, IsSeq
  <2>. QED
    BY <1>1, <1>2, <1>8, <2>1 DEF vars
<1>. QED
  BY <1>3, <1>4, <1>5, <1>6, <1>7, <1>8 DEF Next, Translate, Ended

\* The state keeps its types for every program: execution is inside an emitted
\* block, chain_end names an existing slot, and the return stack is a ring.
THEOREM TypeOKHolds == Spec => []TypeOK
<1>1. ASSUME CacheInv, TypeInv
      PROVE  TypeOK
  <2>1. DOMAIN code = 1..Len(code)
    BY <1>1, SeqDomain DEF CacheInv, Shapes
  <2>2. mode = "run" => at.block - 1 \in DOMAIN code /\ at.pos \in 1..(Len(Current.items) + 1)
    BY <1>1, <2>1 DEF TypeInv, RunsBlock, Placed, Current, BlockAt
  <2>3. chain_end # NoSite => /\ chain_end[1] - 1 \in DOMAIN code
                              /\ chain_end[2] \in DOMAIN BlockAt(chain_end[1]).slots
    BY <1>1, <2>1 DEF TypeInv, SiteExists, BlockAt
  <2>. QED
    BY <1>1, <2>2, <2>3 DEF TypeOK, TypeInv, CacheInv, Shapes, Inputs, Ring, Modes
<1>2. Init => CacheInv /\ TypeInv
  BY InitCacheInv, InitTypes
<1>3. CacheInv /\ TypeInv /\ [Next]_vars => (CacheInv /\ TypeInv)'
  BY NextCacheInv, NextTypes
<1>. QED
  BY <1>1, <1>2, <1>3, PTL DEF Spec

-----------------------------------------------------------------------------
(***************************************************************************)
(* Direct jumps, and the site that is to be chained.                       *)
(***************************************************************************)

(***************************************************************************)
(* An AUIPC and JALR pair, when jumps are followed and blocks chained, may *)
(* leave a site behind whose target is not the next pc (JalrWritesTarget   *)
(* is violated then).  The theorems about direct jumps leave such pairs    *)
(* out, and only them.                                                     *)
(***************************************************************************)
NoPairs == \A f \in FlagSets, p \in Programs : f.jump /\ f.chain =>
    \A a, b \in DOMAIN p :
        p[a].op = "AUIPC" /\ p[a].rd # "x0" /\ p[b].op = "JALR" => p[b].rs1 # p[a].rd

-----------------------------------------------------------------------------
(* The invariant. *)

\* What is known of a call of translate_block: its AUIPCs are the program's.
FrameUnpaired(f) ==
    /\ IsSeq(f.buf)
    /\ \A k \in 1..Len(f.buf) : f.buf[k].op = "AUIPC" /\ f.buf[k].rd # "x0" =>
          \E a \in DOMAIN program : program[a].op = "AUIPC" /\ program[a].rd = f.buf[k].rd
    /\ ~(f.end.kind = "JALR" /\ f.end.paired /\ flags.chain)

FramesUnpaired == \A d \in 1..Len(frames) : FrameUnpaired(frames[d])

\* The slots that a block needs for its exit.
SlotShape(b) ==
    /\ b.exit.kind \in {"JAL", "BRANCH", "PC_NEXT_INST"} => 1 \in DOMAIN b.slots
    /\ b.exit.kind = "BRANCH" => 2 \in DOMAIN b.slots
    /\ b.exit.kind = "JALR" => b.slots = <<>>
    /\ \A k \in DOMAIN b.slots : {"target", "jump"} \subseteq DOMAIN b.slots[k]

SlotShapes == \A n \in 1..Len(code) : SlotShape(code[n])

\* A site is remembered from the exit of a block to the next execution only.
SiteFresh == chain_end # NoSite =>
    /\ flags.chain /\ mode \in {"loop", "translate"}
    /\ chain_end[1] - 1 \in 1..Len(code)
    /\ chain_end[2] \in DOMAIN code[chain_end[1] - 1].slots
    /\ code[chain_end[1] - 1].slots[chain_end[2]].target = next_pc
    /\ code[chain_end[1] - 1].slots[chain_end[2]].jump = UNSEEN_CODE

JumpInv == /\ NoPairs /\ Inputs /\ RunsBlock
           /\ FramesUnpaired /\ SlotShapes /\ SlotsSound /\ SiteFresh

LEMMA InitJumps == NoPairs /\ Init => JumpInv
<1>1. ASSUME NoPairs, Init
      PROVE  JumpInv
  <2>1. code = <<>> /\ frames = <<>> /\ chain_end = NoSite /\ Len(<<>>) = 0 /\ DOMAIN <<>> = {}
    BY <1>1, EmptySeq DEF Init
  <2>. QED
    BY <1>1, <2>1, InitRuns DEF JumpInv, FramesUnpaired, SlotShapes, SlotsSound, SiteFresh
<1>. QED
  BY <1>1

-----------------------------------------------------------------------------
(* Parsing. *)

\* An instruction is one of the program, or INVALID.
LEMMA InstrSource ==
    ASSUME NEW a, NEW op, InstrAt(a).op = op, op # "INVALID"
    PROVE  a \in DOMAIN program /\ InstrAt(a) = program[a]
BY DEF InstrAt, INVALID

LEMMA ParsedUnpaired ==
    ASSUME Inputs, NEW f, NEW g, FrameUnpaired(f), GoesOn(f, g)
    PROVE  FrameUnpaired(g)
<1> DEFINE i == InstrAt(f.risc_addr)
           j == [i EXCEPT !.op = "AUIPC", !.imm = 1]
           n == Len(f.buf)
           source(r) == \E a \in DOMAIN program : program[a].op = "AUIPC" /\ program[a].rd = r
           known(s) == \A k \in 1..Len(s) : s[k].op = "AUIPC" /\ s[k].rd # "x0" => source(s[k].rd)
<1>1. IsSeq(f.buf) /\ known(f.buf) /\ n \in Nat
  BY SeqDomain DEF FrameUnpaired
<1>2. i.op = "AUIPC" => source(i.rd)
  BY InstrSource
<1>3. i.rd = "x0" => j.rd = "x0"
  BY ProgramsAssumption DEF Inputs, InstrAt, INVALID
<1> HIDE DEF i, j, source
<1>4. ASSUME NEW q, q.op = "AUIPC" /\ q.rd # "x0" => source(q.rd)
      PROVE  IsSeq(Append(f.buf, q)) /\ known(Append(f.buf, q))
  <2>1. /\ IsSeq(Append(f.buf, q)) /\ Len(Append(f.buf, q)) = n + 1
        /\ Append(f.buf, q)[n + 1] = q /\ \A k \in 1..n : Append(f.buf, q)[k] = f.buf[k]
    BY <1>1, SeqAppend
  <2>2. ASSUME NEW k \in 1..(n + 1), Append(f.buf, q)[k].op = "AUIPC",
               Append(f.buf, q)[k].rd # "x0"
        PROVE  source(Append(f.buf, q)[k].rd)
    <3>1. CASE k = n + 1
      BY <1>4, <2>1, <2>2, <3>1
    <3>2. CASE k # n + 1
      BY <1>1, <2>1, <2>2, <3>2
    <3>. QED
      BY <3>1, <3>2
  <2>. QED
    BY <2>1, <2>2
<1>5. ASSUME NEW k, k.op = "AUIPC" /\ k.rd # "x0" => source(k.rd)
      PROVE  IsSeq(Parsed(f, k)) /\ known(Parsed(f, k))
  <2> DEFINE q == [at |-> f.risc_addr, op |-> k.op, rd |-> k.rd, imm |-> k.imm]
  <2>1. q.op = "AUIPC" /\ q.rd # "x0" => source(q.rd)
    BY <1>5
  <2>2. Parsed(f, k) = Append(f.buf, q)
    BY DEF Parsed
  <2> HIDE DEF q, known
  <2>. QED
    BY <1>4, <2>1, <2>2
<1>6. IsSeq(g.buf) /\ known(g.buf)
  <2> HIDE DEF known
  <2>1. CASE g.buf = f.buf
    BY <1>1, <2>1
  <2>2. CASE g.buf = Parsed(f, i)
    BY <1>2, <1>5, <2>2
  <2>3. CASE g.buf = Parsed(f, j) /\ i.rd = "x0"
    BY <1>3, <1>5, <2>3
  <2>. QED
    BY <2>1, <2>2, <2>3 DEF GoesOn, i, j
<1>. QED
  BY <1>6 DEF FrameUnpaired, GoesOn, source

LEMMA TopChangeUnpaired ==
    ASSUME NoPairs, Inputs, NEW f, NEW g, FrameUnpaired(f), TopChange(f, g)
    PROVE  FrameUnpaired(g)
<1>1. CASE GoesOn(f, g)
  BY <1>1, ParsedUnpaired
<1>2. CASE EndsAlone(f, g)
  BY <1>2 DEF EndsAlone, FrameUnpaired, EndWith
<1>3. CASE EndsJal(f, g)
  BY <1>3 DEF EndsJal, FrameUnpaired, EndWith
<1>4. CASE EndsJalr(f, g)
  <2> DEFINE i == InstrAt(f.risc_addr)
             p == f.buf[Len(f.buf)]
  <2>1. i.op = "JALR" /\ g.buf = f.buf /\ g.end.paired = (flags.jump /\ AuipcBefore(f, i))
    BY <1>4 DEF EndsJalr, EndWith
  <2>2. ASSUME flags.chain, flags.jump, AuipcBefore(f, i)
        PROVE  FALSE
    <3>1. Len(f.buf) > 0 /\ p.op = "AUIPC" /\ p.rd # "x0" /\ i.rs1 = p.rd /\ Len(f.buf) \in Nat
      BY <2>2, SeqDomain DEF AuipcBefore, FrameUnpaired
    <3>2. PICK a \in DOMAIN program : program[a].op = "AUIPC" /\ program[a].rd = p.rd
      BY <3>1 DEF FrameUnpaired
    <3>3. f.risc_addr \in DOMAIN program /\ i = program[f.risc_addr]
      BY <2>1, InstrSource
    <3>. QED
      BY <2>1, <2>2, <3>1, <3>2, <3>3 DEF NoPairs, Inputs
  <2>. QED
    BY <2>1, <2>2 DEF FrameUnpaired
<1>5. CASE Skips(f, g)
  BY <1>5 DEF Skips, FrameUnpaired
<1>. QED
  BY <1>1, <1>2, <1>3, <1>4, <1>5 DEF TopChange

LEMMA TopStepUnpaired ==
    ASSUME Shapes, NoPairs, Inputs, FramesUnpaired, TopStep
    PROVE  FramesUnpaired'
<1>1. Len(frames) \in Nat /\ Len(frames) >= 1 /\ Len(frames') = Len(frames)
  BY TopStepKeeps
<1>2. PICK g : /\ TopChange(Top, g)
               /\ \A d \in 1..Len(frames) :
                     frames'[d] = IF d = Len(frames) THEN g ELSE frames[d]
  BY TopStepKeeps
<1>3. FrameUnpaired(g)
  BY <1>1, <1>2, TopChangeUnpaired DEF FramesUnpaired, Top
<1>4. \A d \in 1..Len(frames) : FrameUnpaired(frames'[d])
  BY <1>2, <1>3 DEF FramesUnpaired
<1>5. UNCHANGED <<program, flags>>
  BY DEF TopStep, input
<1>. QED
  BY <1>1, <1>4, <1>5 DEF FramesUnpaired, FrameUnpaired, IsSeq

LEMMA NewUnpaired ==
    ASSUME NEW a
    PROVE  FrameUnpaired(NewFrame(a))
<1> DEFINE f == NewFrame(a)
<1>1. f.buf = <<>> /\ f.end.kind = "none"
  BY DEF NewFrame, NoEnd
<1>2. IsSeq(<<>>) /\ Len(<<>>) = 0
  BY WithinSmall
<1> HIDE DEF f
<1>3. FrameUnpaired(f)
  BY <1>1, <1>2 DEF FrameUnpaired
<1>. QED
  BY <1>3 DEF f

LEMMA FramesStayUnpaired ==
    ASSUME Shapes, FramesUnpaired, RecurseInto \/ FinishBlock \/ LookupUnseen \/ Execute \/ Run
    PROVE  FramesUnpaired'
<1>1. UNCHANGED <<program, flags>>
  BY RunEnters DEF RecurseInto, FinishBlock, LookupUnseen, Execute, Run, ExecItem, ExecExit,
     ExecJal, ExecBranch, ExecPcNext, ExecJalr, ExecEcall, ExecExitCall, ExecInvalid, input
<1>2. SUFFICES \A d \in 1..Len(frames') : FrameUnpaired(frames'[d])
  BY <1>1 DEF FramesUnpaired, FrameUnpaired, IsSeq
<1>3. CASE RecurseInto
  <2> DEFINE n == Len(frames)
             x == NewFrame(Head(Top.todo))
  <2>1. /\ n \in Nat /\ Len(frames') = n + 1 /\ frames'[n + 1] = x
        /\ \A d \in 1..n : frames'[d].buf = frames[d].buf /\ frames'[d].end = frames[d].end
    BY <1>3, RecurseKeeps
  <2>2. FrameUnpaired(x)
    BY NewUnpaired
  <2> HIDE DEF n, x
  <2>3. \A d \in 1..n : FrameUnpaired(frames'[d])
    BY <2>1 DEF FramesUnpaired, FrameUnpaired, n
  <2>4. \A d \in 1..(n + 1) : d = n + 1 \/ d \in 1..n
    BY <2>1
  <2>. QED
    BY <2>1, <2>2, <2>3, <2>4
<1>4. CASE FinishBlock
  <2>1. /\ Len(frames) \in Nat /\ Len(frames') = Len(frames) - 1
        /\ \A d \in 1..(Len(frames) - 1) : frames'[d] = frames[d]
    BY <1>4, FinishKeeps
  <2>. QED
    BY <2>1 DEF FramesUnpaired
<1>5. CASE LookupUnseen
  <2>1. Len(frames') = 1 /\ frames'[1] = NewFrame(next_pc)
    BY <1>5 DEF LookupUnseen
  <2>2. \A d \in 1..1 : d = 1
    OBVIOUS
  <2>. QED
    BY <2>1, <2>2, NewUnpaired
<1>6. CASE Execute \/ Run
  BY <1>6, ExecuteKeeps, RunSteps DEF RunStep, FramesUnpaired
<1>. QED
  BY <1>3, <1>4, <1>5, <1>6

-----------------------------------------------------------------------------
(* Emission. *)

LEMMA SlotFields ==
    ASSUME NEW target
    PROVE  /\ {"target", "jump"} \subseteq DOMAIN Slot(target)
           /\ Slot(target).target = target
           /\ Slot(target).jump # UNSEEN_CODE =>
                 /\ IsBlock(lookup_cache_entry(target))
                 /\ Slot(target).jump = lookup_cache_entry(target)
BY DEF Slot

\* An emitted jump leads to the block of its target.
LEMMA SlotSound ==
    ASSUME CacheInv, NEW target
    PROVE  LET slot == Slot(target) IN
           slot.jump # UNSEEN_CODE =>
               slot.jump - 1 \in 1..Len(code) /\ code[slot.jump - 1].addr = slot.target
<1>1. ASSUME Slot(target).jump # UNSEEN_CODE
      PROVE  /\ Slot(target).jump - 1 \in 1..Len(code)
             /\ code[Slot(target).jump - 1].addr = Slot(target).target
  <2> DEFINE l == lookup_cache_entry(target)
  <2>1. IsBlock(l) /\ Slot(target).jump = l /\ Slot(target).target = target
    BY <1>1, SlotFields
  <2>2. target \in DOMAIN cache /\ l = cache[target] /\ l - 1 \in 1..Len(code)
    BY <2>1, LookupType DEF CacheInv, IsBlock, lookup_cache_entry
  <2>. QED
    BY <2>1, <2>2 DEF CacheInv, CacheSound, BlockAt
<1>. QED
  BY <1>1

LEMMA SlotsOf ==
    ASSUME CacheInv, NEW e, ~(e.kind = "JALR" /\ e.paired /\ flags.chain)
    PROVE  /\ e.kind \in {"JAL", "BRANCH", "PC_NEXT_INST"} => 1 \in DOMAIN Slots(e)
           /\ e.kind = "BRANCH" => 2 \in DOMAIN Slots(e)
           /\ e.kind = "JALR" => Slots(e) = <<>>
           /\ \A k \in DOMAIN Slots(e) :
                 /\ {"target", "jump"} \subseteq DOMAIN Slots(e)[k]
                 /\ Slots(e)[k].jump # UNSEEN_CODE =>
                       /\ Slots(e)[k].jump - 1 \in 1..Len(code)
                       /\ code[Slots(e)[k].jump - 1].addr = Slots(e)[k].target
<1> DEFINE good(s) == /\ {"target", "jump"} \subseteq DOMAIN s
                      /\ s.jump # UNSEEN_CODE =>
                            s.jump - 1 \in 1..Len(code) /\ code[s.jump - 1].addr = s.target
<1>1. \A target : good(Slot(target))
  BY SlotFields, SlotSound
<1>2. CASE e.kind = "JAL"
  <2> DEFINE x == Slot(e.at + e.imm)
  <2>1. Slots(e) = <<x>> /\ good(x)
    BY <1>1, <1>2 DEF Slots
  <2> HIDE DEF x, good
  <2>2. DOMAIN <<x>> = {1} /\ <<x>>[1] = x
    OBVIOUS
  <2>3. \A k \in DOMAIN Slots(e) : good(Slots(e)[k])
    BY <2>1, <2>2
  <2>. QED
    BY <1>2, <2>1, <2>2, <2>3 DEF good
<1>3. CASE e.kind = "BRANCH"
  <2> DEFINE x == Slot(e.at + e.imm)
             y == Slot(e.at + 1)
  <2>1. Slots(e) = <<x, y>> /\ good(x) /\ good(y)
    BY <1>1, <1>3 DEF Slots
  <2> HIDE DEF x, y, good
  <2>2. DOMAIN <<x, y>> = {1, 2} /\ <<x, y>>[1] = x /\ <<x, y>>[2] = y
    OBVIOUS
  <2>3. \A k \in DOMAIN Slots(e) : good(Slots(e)[k])
    BY <2>1, <2>2
  <2>. QED
    BY <1>3, <2>1, <2>2, <2>3 DEF good
<1>4. CASE e.kind = "PC_NEXT_INST"
  <2> DEFINE x == [target |-> e.at, jump |-> UNSEEN_CODE]
  <2>1. Slots(e) = <<x>> /\ good(x)
    BY <1>4 DEF Slots
  <2> HIDE DEF x, good
  <2>2. DOMAIN <<x>> = {1} /\ <<x>>[1] = x
    OBVIOUS
  <2>3. \A k \in DOMAIN Slots(e) : good(Slots(e)[k])
    BY <2>1, <2>2
  <2>. QED
    BY <1>4, <2>1, <2>2, <2>3 DEF good
<1>5. CASE e.kind \notin {"JAL", "BRANCH", "PC_NEXT_INST"}
  <2>1. Slots(e) = <<>>
    BY <1>5 DEF Slots
  <2>2. DOMAIN <<>> = {}
    OBVIOUS
  <2>. QED
    BY <1>5, <2>1, <2>2
<1>. QED
  BY <1>2, <1>3, <1>4, <1>5

LEMMA FinishJumps ==
    ASSUME CacheInv, FramesUnpaired, SlotShapes, SlotsSound, SiteFresh, FinishBlock
    PROVE  SlotShapes' /\ SlotsSound' /\ SiteFresh'
<1> DEFINE m == Len(code)
           b == EmittedBlock(Top)
           e == Top.end
           leads(s, c) == s.jump # UNSEEN_CODE =>
                             s.jump - 1 \in 1..Len(c) /\ c[s.jump - 1].addr = s.target
<1>1. /\ m \in Nat /\ IsSeq(code') /\ Len(code') = m + 1 /\ code'[m + 1] = b
      /\ \A k \in 1..m : code'[k] = code[k]
      /\ DOMAIN code = 1..m /\ DOMAIN code' = 1..(m + 1)
  BY FinishKeeps, SeqDomain DEF CacheInv, Shapes
<1>2. b.slots = Slots(e) /\ b.exit = e
  BY DEF EmittedBlock
<1>3. ~(e.kind = "JALR" /\ e.paired /\ flags.chain)
  BY FinishKeeps DEF CacheInv, FramesUnpaired, FrameUnpaired, Top
<1>4. SlotShape(b) /\ \A k \in DOMAIN b.slots : leads(b.slots[k], code)
  BY <1>2, <1>3, SlotsOf DEF SlotShape
<1>5. UNCHANGED <<flags, next_pc, chain_end>> /\ mode = "translate"
      /\ mode' \in {"loop", "translate"}
  BY DEF FinishBlock, input
<1> HIDE DEF b, e, m
<1>6. \A s : leads(s, code) => leads(s, code')
  BY <1>1 DEF m
<1>7. \A n \in 1..m : \A k \in DOMAIN code[n].slots : leads(code[n].slots[k], code)
  BY <1>1 DEF SlotsSound, BlockAt
<1>8. SlotShapes'
  <2>1. \A n \in 1..(m + 1) : SlotShape(code'[n])
    BY <1>1, <1>4 DEF SlotShapes, m
  <2>. QED
    BY <1>1, <2>1 DEF SlotShapes, SlotShape
<1>9. SlotsSound'
  <2>1. \A n \in 1..(m + 1) : n = m + 1 \/ n \in 1..m
    BY <1>1
  <2>2. \A n \in 1..(m + 1) : \A k \in DOMAIN code'[n].slots : leads(code'[n].slots[k], code')
    <3> HIDE DEF leads
    <3>. QED
      BY <1>1, <1>4, <1>6, <1>7, <2>1
  <2>. QED
    BY <1>1, <2>2 DEF SlotsSound, BlockAt, UNSEEN_CODE
<1>10. SiteFresh'
  BY <1>1, <1>5 DEF SiteFresh, NoSite, UNSEEN_CODE, m
<1>. QED
  BY <1>8, <1>9, <1>10

-----------------------------------------------------------------------------
(* Chaining. *)

LEMMA ExecuteJumps ==
    ASSUME CacheInv, SlotShapes, SlotsSound, SiteFresh, Execute
    PROVE  SlotShapes' /\ SlotsSound' /\ SiteFresh'
<1> DEFINE l == lookup_cache_entry(next_pc)
           leads(s, c) == s.jump # UNSEEN_CODE =>
                             s.jump - 1 \in 1..Len(c) /\ c[s.jump - 1].addr = s.target
<1>1. /\ IsSeq(code') /\ Len(code') = Len(code) /\ UNCHANGED <<cache, frames, flags, next_pc>>
      /\ \A n \in 1..Len(code) : code'[n].addr = code[n].addr /\ code'[n].exit = code[n].exit
  BY ExecuteKeeps DEF CacheInv, Execute, input
<1>2. DOMAIN code = 1..Len(code) /\ DOMAIN code' = 1..Len(code) /\ Len(code) \in Nat
  BY <1>1, SeqDomain DEF CacheInv, Shapes
<1>3. mode = "loop" /\ l # UNSEEN_CODE /\ chain(l)
  BY DEF Execute
\* No translation is running, so what the cache holds is a block.
<1>4. l - 1 \in 1..Len(code) /\ code[l - 1].addr = next_pc
  <2>1. frames = <<>> /\ Len(<<>>) = 0
    BY <1>3, EmptySeq DEF CacheInv, Shapes
  <2>2. next_pc \in DOMAIN cache /\ l = cache[next_pc]
    BY <1>3 DEF lookup_cache_entry
  <2>3. IsBlock(l)
    BY <1>3, <2>1, <2>2 DEF CacheInv, StartedOnStack, IsBlock
  <2>. QED
    BY <2>2, <2>3, LookupType DEF CacheInv, CacheSound, BlockAt
<1>5. \A n \in 1..Len(code) : \A k \in DOMAIN code[n].slots : leads(code[n].slots[k], code)
  BY <1>2 DEF SlotsSound, BlockAt
<1>6. \A s : leads(s, code) => leads(s, code')
  BY <1>1
<1> HIDE DEF leads
<1>7. CASE chain_end # NoSite
  <2> DEFINE m == chain_end[1] - 1
             k == chain_end[2]
             t == code[m].slots
             x == [t[k] EXCEPT !.jump = l]
             u == [t EXCEPT ![k] = x]
             b == [code[m] EXCEPT !.slots = u]
  <2>1. /\ flags.chain /\ m \in 1..Len(code) /\ k \in DOMAIN t
        /\ t[k].target = next_pc /\ t[k].jump = UNSEEN_CODE
    BY <1>7 DEF SiteFresh
  <2>2. code' = [code EXCEPT ![m] = b] /\ chain_end' = NoSite
    BY <1>3, <1>7, <2>1 DEF chain
  <2>3. SlotShape(code[m]) /\ IsEmitted(code[m])
    BY <2>1 DEF SlotShapes, CacheInv, Shapes
  <2>4. {"target", "jump"} \subseteq DOMAIN t[k]
    BY <2>1, <2>3 DEF SlotShape
  <2>5. {"target", "jump"} \subseteq DOMAIN x /\ x.target = next_pc /\ x.jump = l
    BY <2>1, <2>4
  <2> HIDE DEF l, m, k, x
  <2>6. DOMAIN u = DOMAIN t /\ \A j \in DOMAIN t : u[j] = IF j = k THEN x ELSE t[j]
    OBVIOUS
  <2>7. t # <<>>
    <3>1. DOMAIN <<>> = {}
      OBVIOUS
    <3>. QED
      BY <2>1, <3>1
  <2> HIDE DEF u
  <2>8. b.slots = u /\ b.exit = code[m].exit
    BY <2>3 DEF IsEmitted
  <2> HIDE DEF t, b
  <2>9. SlotShape(b)
    BY <2>1, <2>3, <2>5, <2>6, <2>7, <2>8 DEF SlotShape, t
  <2>10. \A n \in 1..Len(code) : code'[n] = IF n = m THEN b ELSE code[n]
    BY <1>2, <2>2
  <2>11. leads(x, code)
    BY <1>4, <2>5 DEF leads
  <2>12. \A j \in DOMAIN b.slots : leads(b.slots[j], code)
    BY <1>5, <2>1, <2>6, <2>8, <2>11 DEF t
  <2>13. \A n \in 1..Len(code) :
           SlotShape(code'[n]) /\ \A j \in DOMAIN code'[n].slots : leads(code'[n].slots[j], code')
    BY <1>5, <1>6, <2>9, <2>10, <2>12 DEF SlotShapes
  <2>14. SlotShapes'
    BY <1>1, <2>13 DEF SlotShapes, SlotShape
  <2>15. SlotsSound'
    BY <1>1, <1>2, <2>13 DEF SlotsSound, BlockAt, leads, UNSEEN_CODE
  <2>16. SiteFresh'
    BY <2>2 DEF SiteFresh, NoSite
  <2>. QED
    BY <2>14, <2>15, <2>16
<1>8. CASE chain_end = NoSite
  <2>1. code' = code /\ chain_end' = NoSite
    BY <1>3, <1>8 DEF chain
  <2>. QED
    BY <2>1 DEF SlotShapes, SlotShape, SlotsSound, BlockAt, UNSEEN_CODE, SiteFresh, NoSite
<1>. QED
  BY <1>7, <1>8

\* The exit of a block that goes back to the main loop leaves the site of the
\* slot that was taken, or none.
LEMMA RunSite ==
    ASSUME Shapes, RunsBlock, SlotShapes, SlotsSound, SiteFresh, Run
    PROVE  SiteFresh'
<1>1. mode = "run" /\ UNCHANGED <<code, flags>>
  BY RunEnters DEF input
<1>2. chain_end = NoSite
  BY <1>1 DEF SiteFresh
<1>3. at.block - 1 \in 1..Len(code) /\ Current = code[at.block - 1] /\ SlotShape(Current)
  BY <1>1 DEF RunsBlock, Current, BlockAt, SlotShapes
<1>4. ASSUME chain_end' = NoSite
      PROVE  SiteFresh'
  BY <1>4 DEF SiteFresh, NoSite
<1>5. ASSUME NEW k \in DOMAIN Current.slots, TakeSlot(k)
      PROVE  SiteFresh'
  <2>1. CASE chain_end' = NoSite
    BY <1>4, <2>1
  <2>2. CASE chain_end' # NoSite
    <3>1. /\ Current.slots[k].jump = UNSEEN_CODE /\ flags.chain /\ chain_end' = <<at.block, k>>
          /\ mode' = "loop" /\ next_pc' = Current.slots[k].target
      BY <1>2, <1>5, <2>2 DEF TakeSlot, Leave
    <3>2. chain_end'[1] = at.block /\ chain_end'[2] = k
      BY <3>1
    <3>. QED
      BY <1>1, <1>3, <1>5, <3>1, <3>2 DEF SiteFresh, UNSEEN_CODE
  <2>. QED
    BY <2>1, <2>2
<1>6. ASSUME NEW a, LeaveUnchained(a)
      PROVE  SiteFresh'
  BY <1>2, <1>4, <1>6 DEF LeaveUnchained
<1>7. CASE ExecItem \/ ExecInvalid
  BY <1>2, <1>4, <1>7 DEF ExecItem, ExecInvalid
<1>8. CASE ExecJal \/ ExecPcNext
  <2>1. 1 \in DOMAIN Current.slots /\ TakeSlot(1)
    BY <1>3, <1>8 DEF ExecJal, ExecPcNext, ExecExit, SlotShape
  <2>. QED
    BY <1>5, <2>1
<1>9. CASE ExecBranch
  <2>1. 1 \in DOMAIN Current.slots /\ 2 \in DOMAIN Current.slots /\ (TakeSlot(1) \/ TakeSlot(2))
    BY <1>3, <1>9 DEF ExecBranch, ExecExit, SlotShape
  <2>. QED
    BY <1>5, <2>1
<1>10. CASE ExecEcall \/ ExecExitCall
  BY <1>2, <1>4, <1>6, <1>10 DEF ExecEcall, ExecExitCall
<1>11. CASE ExecJalr
  <2>1. Current.slots = <<>>
    BY <1>3, <1>11 DEF ExecJalr, ExecExit, SlotShape
  <2>2. \A a : JalrLeaves(a) => LeaveUnchained(a)
    BY <2>1 DEF JalrLeaves
  <2>3. chain_end' = chain_end \/ \E a : JalrLeaves(a)
    BY <1>11 DEF ExecJalr
  <2>. QED
    BY <1>2, <1>4, <1>6, <2>2, <2>3
<1>. QED
  BY <1>7, <1>8, <1>9, <1>10, <1>11 DEF Run

LEMMA NextJumps ==
    ASSUME CacheInv, JumpInv, [Next]_vars
    PROVE  JumpInv'
<1>. USE DEF JumpInv
<1>0. Shapes
  BY DEF CacheInv
<1>1. NoPairs' /\ Inputs' /\ RunsBlock'
  BY NextRuns DEF NoPairs
<1>2. ASSUME UNCHANGED <<code, flags, chain_end, next_pc>>,
             mode' \in {"loop", "translate"} \/ mode' = mode
      PROVE  SlotShapes' /\ SlotsSound' /\ SiteFresh'
  BY <1>2 DEF SlotShapes, SlotShape, SlotsSound, BlockAt, UNSEEN_CODE, SiteFresh, NoSite
<1>3. CASE ParseInstr \/ ParseFull \/ SkipTarget
  <2>1. TopStep
    BY <1>0, <1>3, TopSteps
  <2>2. FramesUnpaired'
    BY <1>0, <2>1, TopStepUnpaired
  <2>. QED
    BY <1>1, <1>2, <2>1, <2>2 DEF TopStep, input
<1>4. CASE RecurseInto \/ LookupUnseen
  <2>1. FramesUnpaired'
    BY <1>0, <1>4, FramesStayUnpaired
  <2>. QED
    BY <1>1, <1>2, <1>4, <2>1 DEF RecurseInto, LookupUnseen, input
<1>5. CASE FinishBlock
  BY <1>0, <1>1, <1>5, FramesStayUnpaired, FinishJumps
<1>6. CASE Execute
  BY <1>0, <1>1, <1>6, FramesStayUnpaired, ExecuteJumps
<1>7. CASE Run
  <2>1. FramesUnpaired' /\ SiteFresh'
    BY <1>0, <1>7, FramesStayUnpaired, RunSite
  <2>2. UNCHANGED code
    BY <1>0, <1>7, RunEnters
  <2>. QED
    BY <1>1, <2>1, <2>2 DEF SlotShapes, SlotShape, SlotsSound, BlockAt, UNSEEN_CODE
<1>8. CASE UNCHANGED vars
  <2>1. FramesUnpaired'
    BY <1>8 DEF vars, FramesUnpaired, FrameUnpaired, IsSeq
  <2>. QED
    BY <1>1, <1>2, <1>8, <2>1 DEF vars
<1>. QED
  BY <1>3, <1>4, <1>5, <1>6, <1>7, <1>8 DEF Next, Translate, Ended

LEMMA JumpsAlways == NoPairs => (Spec => [](CacheInv /\ JumpInv))
<1>1. NoPairs /\ Init => CacheInv /\ JumpInv
  BY InitCacheInv, InitJumps
<1>2. CacheInv /\ JumpInv /\ [Next]_vars => (CacheInv /\ JumpInv)'
  BY NextCacheInv, NextJumps
<1>. QED
  BY <1>1, <1>2, PTL DEF Spec

\* Every direct jump, emitted as one or patched in by chain, leads to the block of
\* the guest address it stands for, for every program without followed and
\* chained AUIPC and JALR pairs.
THEOREM SlotsSoundHolds == NoPairs => (Spec => []SlotsSound)
<1>1. CacheInv /\ JumpInv => SlotsSound
  BY DEF JumpInv
<1>. QED
  BY <1>1, JumpsAlways, PTL

\* The site the main loop chains is an exit not patched yet, and stands for the
\* address that comes next; no other exit leaves an older one behind.
THEOREM ChainEndFreshHolds == NoPairs => (Spec => []ChainEndFresh)
<1>1. CacheInv /\ JumpInv => ChainEndFresh
  BY DEF JumpInv, SiteFresh, ChainEndFresh, BlockAt
<1>. QED
  BY <1>1, JumpsAlways, PTL

-----------------------------------------------------------------------------
(* What a step may not take back. *)

BlocksStay == \A a \in DOMAIN cache : IsBlock(cache[a]) =>
                  a \in DOMAIN cache' /\ IsBlock(cache'[a])

JumpsStay == \A n \in DOMAIN code : \A k \in DOMAIN code[n].slots :
                 code[n].slots[k].jump # UNSEEN_CODE => code'[n].slots[k] = code[n].slots[k]

LEMMA ExecuteJumpsStay ==
    ASSUME Shapes, SiteFresh, Execute
    PROVE  JumpsStay
<1> DEFINE l == lookup_cache_entry(next_pc)
           m == chain_end[1] - 1
           t == code[m].slots
           u == [t EXCEPT ![chain_end[2]].jump = l]
           b == [code[m] EXCEPT !.slots = u]
<1>1. chain(l)
  BY DEF Execute
<1>2. CASE chain_end = NoSite
  BY <1>1, <1>2 DEF chain, JumpsStay
<1>3. CASE chain_end # NoSite
  <2>1. m \in 1..Len(code) /\ t[chain_end[2]].jump = UNSEEN_CODE /\ flags.chain
    BY <1>3 DEF SiteFresh
  <2>2. code' = [code EXCEPT ![m] = b]
    BY <1>1, <1>3, <2>1 DEF chain
  <2>3. IsEmitted(code[m])
    BY <2>1 DEF Shapes
  <2> HIDE DEF u, m
  <2>4. b.slots = u
    BY <2>3 DEF IsEmitted
  <2> HIDE DEF b, t
  <2>5. \A n \in DOMAIN code : code'[n] = IF n = m THEN b ELSE code[n]
    BY <2>2
  <2>6. \A k \in DOMAIN t : t[k].jump # UNSEEN_CODE => u[k] = t[k]
    BY <2>1 DEF u
  <2>. QED
    BY <2>4, <2>5, <2>6 DEF JumpsStay, t
<1>. QED
  BY <1>2, <1>3

LEMMA NextStays ==
    ASSUME CacheInv, JumpInv, [Next]_vars
    PROVE  BlocksStay /\ JumpsStay
<1>. USE DEF CacheInv, JumpInv
<1>1. CASE RecurseInto
  <2>1. /\ Head(Top.todo) \notin DOMAIN cache /\ UNCHANGED code
        /\ cache' = [x \in DOMAIN cache \cup {Head(Top.todo)} |->
                        IF x = Head(Top.todo) THEN TRANSLATION_STARTED ELSE cache[x]]
    BY <1>1, RecurseKeeps
  <2> DEFINE target == Head(Top.todo)
  <2> HIDE DEF target
  <2>2. /\ DOMAIN cache' = DOMAIN cache \cup {target}
        /\ \A a \in DOMAIN cache : cache'[a] = cache[a]
    BY <2>1 DEF target
  <2>. QED
    BY <2>1, <2>2 DEF BlocksStay, JumpsStay
<1>2. CASE FinishBlock
  <2>1. /\ Len(code) \in Nat /\ \A n \in 1..Len(code) : code'[n] = code[n]
        /\ cache' = [x \in DOMAIN cache \cup {Top.start} |->
                        IF x = Top.start THEN Len(code) + 2 ELSE cache[x]]
    BY <1>2, FinishKeeps
  <2>2. IsBlock(Len(code) + 2)
    BY <2>1 DEF IsBlock, UNSEEN_CODE, TRANSLATION_STARTED
  <2>3. BlocksStay
    BY <2>1, <2>2 DEF BlocksStay
  <2>4. JumpsStay
    BY <2>1, SeqDomain DEF JumpsStay, Shapes
  <2>. QED
    BY <2>3, <2>4
<1>3. CASE Execute
  BY <1>3, ExecuteKeeps, ExecuteJumpsStay DEF BlocksStay
<1>4. ASSUME UNCHANGED <<cache, code>>
      PROVE  BlocksStay /\ JumpsStay
  BY <1>4 DEF BlocksStay, JumpsStay
<1>5. CASE ParseInstr \/ ParseFull \/ SkipTarget
  BY <1>4, <1>5, TopSteps DEF TopStep
<1>6. CASE Run
  BY <1>4, <1>6, RunSteps DEF RunStep
<1>7. CASE LookupUnseen \/ UNCHANGED vars
  BY <1>4, <1>7 DEF LookupUnseen, vars
<1>. QED
  BY <1>1, <1>2, <1>3, <1>5, <1>6, <1>7 DEF Next, Translate, Ended

\* A cached block stays cached, and an emitted block changes only in a slot that
\* had no direct jump: neither a nested translation nor chain takes code back.
THEOREM TranslationStaysHolds == NoPairs => (Spec => TranslationStays)
<1>1. CacheInv /\ JumpInv /\ [Next]_vars => [BlocksStay /\ JumpsStay]_vars
  BY NextStays
<1>2. [BlocksStay /\ JumpsStay]_vars =>
      [/\ \A a \in DOMAIN cache : IsBlock(cache[a]) => a \in DOMAIN cache' /\ IsBlock(cache'[a])
       /\ \A n \in DOMAIN code : \A k \in DOMAIN code[n].slots :
              code[n].slots[k].jump # UNSEEN_CODE =>
                  code'[n].slots[k] = code[n].slots[k]]_vars
  BY DEF BlocksStay, JumpsStay
<1>. QED
  BY <1>1, <1>2, JumpsAlways, PTL DEF Spec, TranslationStays

-----------------------------------------------------------------------------
(***************************************************************************)
(* Translator implements GuestMachine: every step of the process is one    *)
(* step of the hart it emulates, or none.                                  *)
(***************************************************************************)

(* InstrAt and PastFences, of any program p. *)

IsProgram(p) == p \in Seq(Instructions)

Instr(p, a) == IF a \in DOMAIN p THEN p[a] ELSE INVALID

\* The address execution is at when it has come to a.
Lands(p, a) ==
    CHOOSE b \in a..(a + Len(p)) :
        /\ Instr(p, b).op # "FENCE"
        /\ \A c \in a..(b - 1) : Instr(p, c).op = "FENCE"

LEMMA InstrIs == \A a : InstrAt(a) = Instr(program, a) /\ Guest!InstrAt(a) = Instr(program, a)
BY DEF InstrAt, Instr, INVALID, Guest!InstrAt, Guest!INVALID

LEMMA LandsIs == \A a : /\ PastFences(a) = Lands(program, a)
                        /\ Guest!PastFences(a) = Lands(program, a)
<1> SUFFICES ASSUME NEW a
             PROVE  /\ PastFences(a) = Lands(program, a)
                    /\ Guest!PastFences(a) = Lands(program, a)
  OBVIOUS
<1>1. PastFences(a) = Lands(program, a)
  BY DEF PastFences, Lands, InstrAt, Instr
<1>2. Guest!PastFences(a) = Lands(program, a)
  BY DEF Guest!PastFences, Lands, Guest!InstrAt, Instr, Guest!INVALID, INVALID
<1>. QED
  BY <1>1, <1>2

LEMMA ProgramType ==
    ASSUME NEW p, IsProgram(p)
    PROVE  /\ Len(p) \in Nat /\ DOMAIN p = 1..Len(p)
           /\ \A a : Instr(p, a) \in Instructions
<1>1. INVALID \in Instructions
  BY DEF INVALID, Instructions, RegNames
<1>. QED
  BY <1>1 DEF IsProgram, Instr

LEMMA LandsHere ==
    ASSUME NEW p, IsProgram(p), NEW a \in Int, Instr(p, a).op # "FENCE"
    PROVE  Lands(p, a) = a
<1> DEFINE lands(b) == /\ b \in a..(a + Len(p))
                       /\ Instr(p, b).op # "FENCE"
                       /\ \A c \in a..(b - 1) : Instr(p, c).op = "FENCE"
<1>1. Len(p) \in Nat
  BY ProgramType
<1>2. lands(a)
  BY <1>1
<1>3. \A b : lands(b) => b = a
  BY <1>1
<1>4. Lands(p, a) = CHOOSE b : lands(b)
  BY DEF Lands
<1> HIDE DEF lands
<1>. QED
  BY <1>2, <1>3, <1>4

\* That the fences end somewhere is not needed: both sides choose among the same
\* addresses, since the one behind the program is no fence.
LEMMA LandsBeyond ==
    ASSUME NEW p, IsProgram(p), NEW a \in Int, Instr(p, a).op = "FENCE"
    PROVE  Lands(p, a) = Lands(p, a + 1)
<1> DEFINE lands(b, from) == /\ b \in from..(from + Len(p))
                             /\ Instr(p, b).op # "FENCE"
                             /\ \A c \in from..(b - 1) : Instr(p, c).op = "FENCE"
<1>1. Len(p) \in Nat /\ DOMAIN p = 1..Len(p)
  BY ProgramType
<1>2. a \in 1..Len(p)
  BY <1>1 DEF Instr, INVALID
<1>3. Instr(p, a + Len(p)).op # "FENCE"
  <2>1. a + Len(p) \notin DOMAIN p
    BY <1>1, <1>2
  <2>. QED
    BY <2>1 DEF Instr, INVALID
<1>4. ASSUME NEW b, lands(b, a)
      PROVE  lands(b, a + 1)
  BY <1>1, <1>2, <1>4
<1>5. ASSUME NEW b, lands(b, a + 1)
      PROVE  lands(b, a)
  <2>1. b # a + 1 + Len(p)
    BY <1>1, <1>2, <1>3, <1>5
  <2>2. \A c \in a..(b - 1) : c = a \/ c \in (a + 1)..(b - 1)
    OBVIOUS
  <2>. QED
    BY <1>1, <1>2, <1>5, <2>1, <2>2
<1>6. Lands(p, a) = CHOOSE b : lands(b, a)
  BY DEF Lands
<1>7. Lands(p, a + 1) = CHOOSE b : lands(b, a + 1)
  BY DEF Lands
<1> HIDE DEF lands
<1>8. (CHOOSE b : lands(b, a)) = (CHOOSE b : lands(b, a + 1))
  BY <1>4, <1>5, Zenon
<1>. QED
  BY <1>6, <1>7, <1>8

-----------------------------------------------------------------------------
(* The invariant: what the buffers and the blocks hold is the program, in  *)
(* the order in which the guest executes it.                               *)

\* The address of the k-th of these items, or of what follows them.
Reaches(items, last, k) == IF k <= Len(items) THEN items[k].at ELSE last

\* An item is the instruction at its address, or stands for a jump there that
\* the block follows; `next` is where the guest goes on.
ItemRight(p, item, next) ==
    LET i == Instr(p, item.at) IN
    /\ item.at \in Int /\ item.imm \in Int
    /\ \/ /\ i.op \in {"NOP", "AUIPC"}
          /\ item.op = i.op /\ item.rd = i.rd /\ item.imm = i.imm
          /\ Lands(p, next) = Lands(p, item.at + 1)
       \/ /\ i.op = "JAL" /\ i.rd = "x0"
          /\ item.op = "AUIPC" /\ item.rd = "x0"
          /\ Lands(p, next) = Lands(p, item.at + i.imm)

\* Executing the items leads the guest from `first` to `last`.
Flow(p, items, first, last) ==
    /\ IsSeq(items) /\ first \in Int /\ last \in Int
    /\ Lands(p, first) = Lands(p, Reaches(items, last, 1))
    /\ \A k \in 1..Len(items) : ItemRight(p, items[k], Reaches(items, last, k + 1))

\* The end of a block is the instruction at its address, or the pseudo instruction.
ExitRight(p, e) ==
    \/ e.kind = "PC_NEXT_INST"
    \/ LET i == Instr(p, e.at) IN
       /\ e.kind = i.op /\ i.op \in {"INVALID", "ECALL", "BRANCH", "JAL", "JALR"}
       /\ e.rd = i.rd /\ e.rs1 = i.rs1 /\ e.imm = i.imm

FrameFlows(p, f) ==
    /\ Flow(p, f.buf, f.start, f.risc_addr)
    /\ f.end # NoEnd => f.end.at = f.risc_addr /\ ExitRight(p, f.end)
    /\ f.todo \in Seq(Int)

SlotTargets(b) ==
    /\ b.exit.kind = "JAL" => b.slots[1].target = b.exit.at + b.exit.imm
    /\ b.exit.kind = "BRANCH" => /\ b.slots[1].target = b.exit.at + b.exit.imm
                                 /\ b.slots[2].target = b.exit.at + 1
    /\ b.exit.kind = "PC_NEXT_INST" => b.slots[1].target = b.exit.at

BlockFlows(p, b) ==
    /\ Flow(p, b.items, b.addr, b.exit.at) /\ ExitRight(p, b.exit) /\ SlotTargets(b)
    /\ b.pop => b.exit.rs1 \in LinkRegs

FramesFlow == \A d \in 1..Len(frames) : FrameFlows(program, frames[d])

BlocksFlow == \A n \in 1..Len(code) : BlockFlows(program, code[n])

\* Addresses are integers.
IntRegs == regs \in [RegNames -> Int]

FlowInv == FramesFlow /\ BlocksFlow /\ next_pc \in Int /\ IntRegs

-----------------------------------------------------------------------------
(* Parsing. *)

LEMMA FlowPastFence ==
    ASSUME NEW p, IsProgram(p), NEW s, NEW a, NEW r, Flow(p, s, a, r), Instr(p, r).op = "FENCE"
    PROVE  Flow(p, s, a, r + 1)
<1>1. IsSeq(s) /\ Len(s) \in Nat /\ a \in Int /\ r \in Int
  BY SeqDomain DEF Flow
<1>2. Lands(p, r) = Lands(p, r + 1)
  BY <1>1, LandsBeyond
<1>3. \A k : Lands(p, Reaches(s, r, k)) = Lands(p, Reaches(s, r + 1, k))
  BY <1>2 DEF Reaches
<1>4. \A k \in 1..Len(s) : ItemRight(p, s[k], Reaches(s, r + 1, k + 1))
  BY <1>3 DEF Flow, ItemRight
<1>. QED
  BY <1>1, <1>3, <1>4 DEF Flow

LEMMA FlowAppend ==
    ASSUME NEW p, NEW s, NEW a, NEW r, Flow(p, s, a, r),
           NEW item, item.at = r, NEW next \in Int, ItemRight(p, item, next)
    PROVE  Flow(p, Append(s, item), a, next)
<1> DEFINE t == Append(s, item)
           n == Len(s)
<1>1. IsSeq(s) /\ n \in Nat /\ a \in Int /\ r \in Int
  BY SeqDomain DEF Flow
<1>2. IsSeq(t) /\ Len(t) = n + 1 /\ t[n + 1] = item /\ \A k \in 1..n : t[k] = s[k]
  BY <1>1, SeqAppend
<1> HIDE DEF t, n
<1>3. \A k \in 1..(n + 1) : Reaches(t, next, k) = Reaches(s, r, k)
  BY <1>1, <1>2 DEF Reaches, n
<1>4. Reaches(t, next, n + 2) = next
  BY <1>1, <1>2 DEF Reaches
<1>5. ASSUME NEW k \in 1..(n + 1)
      PROVE  ItemRight(p, t[k], Reaches(t, next, k + 1))
  <2>1. CASE k = n + 1
    BY <1>1, <1>2, <1>4, <2>1
  <2>2. CASE k # n + 1
    <3>1. k \in 1..n /\ k + 1 \in 1..(n + 1)
      BY <1>1, <2>2
    <3>. QED
      BY <1>2, <1>3, <3>1 DEF Flow, n
  <2>. QED
    BY <2>1, <2>2
<1>6. Lands(p, a) = Lands(p, Reaches(t, next, 1))
  BY <1>1, <1>3 DEF Flow
<1>. QED
  BY <1>1, <1>2, <1>5, <1>6 DEF Flow, t

LEMMA InputsProgram ==
    ASSUME Inputs
    PROVE  IsProgram(program)
BY ProgramsAssumption DEF Inputs, IsProgram

LEMMA GoesOnFlows ==
    ASSUME Inputs, NEW f, NEW g, FrameFlows(program, f), g.start = f.start, GoesOn(f, g)
    PROVE  FrameFlows(program, g)
<1> DEFINE r == f.risc_addr
           i == InstrAt(r)
<1>1. /\ IsProgram(program) /\ i = Instr(program, r) /\ i \in Instructions
      /\ Flow(program, f.buf, f.start, r) /\ r \in Int /\ f.todo \in Seq(Int)
  BY InputsProgram, InstrIs, ProgramType DEF FrameFlows, Flow
<1>2. i.imm \in Int /\ DOMAIN i = {"op", "rd", "rs1", "imm"}
  BY <1>1 DEF Instructions
<1>3. g.end = NoEnd /\ g.todo = f.todo
  BY DEF GoesOn
<1> HIDE DEF r, i
<1>4. SUFFICES Flow(program, g.buf, g.start, g.risc_addr)
  BY <1>1, <1>3 DEF FrameFlows
<1>5. ASSUME NEW j, NEW next \in Int, j.imm \in Int,
             ItemRight(program, [at |-> r, op |-> j.op, rd |-> j.rd, imm |-> j.imm], next)
      PROVE  Flow(program, Parsed(f, j), f.start, next)
  <2> DEFINE item == [at |-> r, op |-> j.op, rd |-> j.rd, imm |-> j.imm]
  <2>1. item.at = r /\ Parsed(f, j) = Append(f.buf, item)
    BY DEF Parsed, r
  <2> HIDE DEF item
  <2>2. ItemRight(program, item, next)
    BY <1>5 DEF item
  <2>. QED
    BY <1>1, <1>5, <2>1, <2>2, FlowAppend
<1>6. CASE i.op = "FENCE" /\ g.buf = f.buf /\ g.risc_addr = r + 1
  BY <1>1, <1>6, FlowPastFence
<1>7. CASE i.op \in {"NOP", "AUIPC"} /\ g.buf = Parsed(f, i) /\ g.risc_addr = r + 1
  <2>1. ItemRight(program, [at |-> r, op |-> i.op, rd |-> i.rd, imm |-> i.imm], r + 1)
    BY <1>1, <1>2, <1>7 DEF ItemRight
  <2>. QED
    BY <1>1, <1>2, <1>5, <1>7, <2>1
<1>8. CASE /\ i.op = "JAL" /\ i.rd = "x0"
           /\ g.buf = Parsed(f, [i EXCEPT !.op = "AUIPC", !.imm = 1]) /\ g.risc_addr = r + i.imm
  <2> DEFINE j == [i EXCEPT !.op = "AUIPC", !.imm = 1]
  <2>1. j.op = "AUIPC" /\ j.imm = 1 /\ j.rd = "x0"
    BY <1>2, <1>8
  <2> HIDE DEF j
  <2>2. ItemRight(program, [at |-> r, op |-> j.op, rd |-> j.rd, imm |-> j.imm], r + i.imm)
    BY <1>1, <1>8, <2>1 DEF ItemRight
  <2>3. g.buf = Parsed(f, j)
    BY <1>8 DEF j
  <2>. QED
    BY <1>1, <1>2, <1>5, <1>8, <2>1, <2>2, <2>3
<1>. QED
  BY <1>6, <1>7, <1>8 DEF GoesOn, r, i

LEMMA TopChangeFlows ==
    ASSUME Inputs, NEW f, NEW g, FrameFlows(program, f), TopChange(f, g)
    PROVE  FrameFlows(program, g)
<1> DEFINE r == f.risc_addr
           i == InstrAt(r)
<1>1. /\ i = Instr(program, r) /\ i.imm \in Int
      /\ Flow(program, f.buf, f.start, r) /\ r \in Int /\ f.todo \in Seq(Int)
  BY InputsProgram, InstrIs, ProgramType DEF FrameFlows, Flow, Instructions
<1>2. CASE GoesOn(f, g)
  BY <1>2, GoesOnFlows DEF TopChange
<1>3. g.start = f.start
  BY DEF TopChange
<1>4. CASE EndsAlone(f, g)
  <2>1. g.end.at = r /\ ExitRight(program, g.end)
    BY <1>1, <1>4 DEF EndsAlone, EndWith, ExitRight
  <2>. QED
    BY <1>1, <1>3, <1>4, <2>1 DEF EndsAlone, FrameFlows
<1>5. CASE EndsJal(f, g)
  <2>1. g.end.at = r /\ ExitRight(program, g.end)
    BY <1>1, <1>5 DEF EndsJal, EndWith, ExitRight
  <2>2. g.todo \in Seq(Int)
    BY <1>1, <1>5 DEF EndsJal
  <2>. QED
    BY <1>1, <1>3, <1>5, <2>1, <2>2 DEF EndsJal, FrameFlows
<1>6. CASE EndsJalr(f, g)
  <2>1. g.end.at = r /\ ExitRight(program, g.end)
    BY <1>1, <1>6 DEF EndsJalr, EndWith, ExitRight
  <2>2. AuipcBefore(f, i) => f.buf[Len(f.buf)].imm \in Int
    <3>1. Len(f.buf) \in Nat
      BY <1>1, SeqDomain DEF Flow
    <3>2. AuipcBefore(f, i) => Len(f.buf) \in 1..Len(f.buf)
      BY <3>1 DEF AuipcBefore
    <3>. QED
      BY <1>1, <3>2 DEF Flow, ItemRight
  <2>3. g.todo \in Seq(Int)
    <3> DEFINE x == (r - 1) + f.buf[Len(f.buf)].imm + i.imm
               paired == flags.jump /\ AuipcBefore(f, i)
               first == IF flags.ras /\ i.rd \in LinkRegs THEN <<r + 1>> ELSE <<>>
               then == IF paired THEN <<r + 1, x>> ELSE <<>>
    <3>1. g.todo = first \o then
      BY <1>6 DEF EndsJalr
    <3>2. paired => x \in Int
      BY <1>1, <2>2
    <3> HIDE DEF x, i, paired
    <3>3. first \in Seq(Int) /\ then \in Seq(Int)
      BY <1>1, <3>2
    <3>. QED
      BY <3>1, <3>3
  <2>. QED
    BY <1>1, <1>3, <1>6, <2>1, <2>3 DEF EndsJalr, FrameFlows
<1>7. CASE Skips(f, g)
  BY <1>1, <1>3, <1>7 DEF Skips, FrameFlows
<1>. QED
  BY <1>2, <1>4, <1>5, <1>6, <1>7 DEF TopChange

LEMMA TopStepFlows ==
    ASSUME Shapes, Inputs, FramesFlow, TopStep
    PROVE  FramesFlow'
<1>1. Len(frames) \in Nat /\ Len(frames) >= 1 /\ Len(frames') = Len(frames)
  BY TopStepKeeps
<1>2. PICK g : /\ TopChange(Top, g)
               /\ \A d \in 1..Len(frames) :
                     frames'[d] = IF d = Len(frames) THEN g ELSE frames[d]
  BY TopStepKeeps
<1>3. FrameFlows(program, Top)
  BY <1>1 DEF FramesFlow, Top
<1>4. FrameFlows(program, g)
  BY <1>2, <1>3, TopChangeFlows
<1>5. \A d \in 1..Len(frames) : FrameFlows(program, frames'[d])
  BY <1>2, <1>4 DEF FramesFlow
<1>6. UNCHANGED program
  BY DEF TopStep, input
<1>. QED
  BY <1>1, <1>5, <1>6 DEF FramesFlow

LEMMA NewFlows ==
    ASSUME NEW p, NEW a \in Int
    PROVE  FrameFlows(p, NewFrame(a))
<1> DEFINE f == NewFrame(a)
<1>1. /\ f.buf = <<>> /\ f.end = NoEnd /\ f.start = a /\ f.risc_addr = a
      /\ f.todo = <<>>
  BY DEF NewFrame
<1>2. IsSeq(<<>>) /\ Len(<<>>) = 0
  BY WithinSmall
<1> HIDE DEF f
<1>3. Flow(p, f.buf, f.start, f.risc_addr)
  BY <1>1, <1>2 DEF Flow, Reaches
<1>4. FrameFlows(p, f)
  BY <1>1, <1>3 DEF FrameFlows
<1>. QED
  BY <1>4 DEF f

LEMMA FramesStayFlows ==
    ASSUME Shapes, Inputs, FramesFlow, next_pc \in Int,
           RecurseInto \/ LookupUnseen \/ FinishBlock \/ UNCHANGED frames, UNCHANGED program
    PROVE  FramesFlow'
<1>1. SUFFICES \A d \in 1..Len(frames') : FrameFlows(program, frames'[d])
  BY DEF FramesFlow
<1>2. CASE RecurseInto
  <2> DEFINE n == Len(frames)
             x == NewFrame(Head(Top.todo))
  <2>1. /\ n \in Nat /\ n >= 1 /\ Len(frames') = n + 1 /\ frames'[n + 1] = x
        /\ Top.todo # <<>> /\ Top = frames[n]
    BY <1>2, RecurseKeeps DEF Top
  <2>2. \A d \in 1..n :
          /\ frames'[d].start = frames[d].start /\ frames'[d].buf = frames[d].buf
          /\ frames'[d].risc_addr = frames[d].risc_addr /\ frames'[d].end = frames[d].end
          /\ frames'[d].todo = IF d = n THEN Tail(frames[d].todo) ELSE frames[d].todo
    BY <1>2, RecurseKeeps
  <2>3. FrameFlows(program, frames[n])
    BY <2>1 DEF FramesFlow
  <2>4. Head(Top.todo) \in Int /\ Tail(Top.todo) \in Seq(Int)
    BY <2>1, <2>3 DEF FrameFlows
  <2>5. FrameFlows(program, x)
    BY <2>4, NewFlows
  <2> HIDE DEF n, x
  <2>6. \A d \in 1..n : FrameFlows(program, frames'[d])
    BY <2>1, <2>2, <2>4 DEF FramesFlow, FrameFlows, n
  <2>7. \A d \in 1..(n + 1) : d = n + 1 \/ d \in 1..n
    BY <2>1
  <2>. QED
    BY <2>1, <2>5, <2>6, <2>7
<1>3. CASE LookupUnseen
  <2>1. Len(frames') = 1 /\ frames'[1] = NewFrame(next_pc) /\ \A d \in 1..1 : d = 1
    BY <1>3 DEF LookupUnseen
  <2>. QED
    BY <2>1, NewFlows
<1>4. CASE FinishBlock
  <2>1. /\ Len(frames) \in Nat /\ Len(frames') = Len(frames) - 1
        /\ \A d \in 1..(Len(frames) - 1) : frames'[d] = frames[d]
    BY <1>4, FinishKeeps
  <2>. QED
    BY <2>1 DEF FramesFlow
<1>5. CASE UNCHANGED frames
  BY <1>5 DEF FramesFlow
<1>. QED
  BY <1>2, <1>3, <1>4, <1>5

-----------------------------------------------------------------------------
(* Emission and chaining. *)

LEMMA TargetsOf ==
    ASSUME NEW e
    PROVE  /\ e.kind = "JAL" => Slots(e)[1].target = e.at + e.imm
           /\ e.kind = "BRANCH" => /\ Slots(e)[1].target = e.at + e.imm
                                   /\ Slots(e)[2].target = e.at + 1
           /\ e.kind = "PC_NEXT_INST" => Slots(e)[1].target = e.at
<1>1. \A x, y : <<x>>[1] = x /\ <<x, y>>[1] = x /\ <<x, y>>[2] = y
  OBVIOUS
<1>2. CASE e.kind = "JAL"
  BY <1>1, <1>2, SlotFields DEF Slots
<1>3. CASE e.kind = "BRANCH"
  <2>1. Slots(e) = <<Slot(e.at + e.imm), Slot(e.at + 1)>>
    BY <1>3 DEF Slots
  <2>. QED
    BY <1>1, <1>3, <2>1, SlotFields
<1>4. CASE e.kind = "PC_NEXT_INST"
  BY <1>1, <1>4 DEF Slots
<1>. QED
  BY <1>2, <1>3, <1>4

LEMMA FinishFlows ==
    ASSUME Shapes, FramesFlow, BlocksFlow, FinishBlock
    PROVE  BlocksFlow'
<1> DEFINE n == Len(frames)
           m == Len(code)
           f == Top
           b == EmittedBlock(f)
<1>1. /\ n \in Nat /\ n >= 1 /\ m \in Nat /\ Len(code') = m + 1 /\ code'[m + 1] = b
      /\ \A k \in 1..m : code'[k] = code[k]
  BY FinishKeeps
<1>2. FrameFlows(program, f) /\ f.end # NoEnd
  BY <1>1 DEF FramesFlow, Top, FinishBlock, Parsing
<1>3. /\ b.addr = f.start /\ b.items = f.buf /\ b.exit = f.end /\ b.slots = Slots(f.end)
      /\ b.pop => b.exit.rs1 \in LinkRegs
  BY DEF EmittedBlock, PopOf
<1> HIDE DEF f, b, m, n
<1>4. BlockFlows(program, b)
  BY <1>2, <1>3, TargetsOf DEF FrameFlows, BlockFlows, SlotTargets
<1>5. \A k \in 1..(m + 1) : k = m + 1 \/ k \in 1..m
  BY <1>1
<1>6. \A k \in 1..(m + 1) : BlockFlows(program, code'[k])
  BY <1>1, <1>4, <1>5 DEF BlocksFlow, m
<1>7. UNCHANGED program
  BY DEF FinishBlock, input
<1>. QED
  BY <1>1, <1>6, <1>7 DEF BlocksFlow

\* chain changes where a slot jumps to, and not what it stands for.
LEMMA ExecuteTargets ==
    ASSUME Shapes, SlotShapes, SiteFresh, Execute
    PROVE  \A n \in 1..Len(code) : \A j \in DOMAIN code[n].slots :
               code'[n].slots[j].target = code[n].slots[j].target
<1> DEFINE l == lookup_cache_entry(next_pc)
           m == chain_end[1] - 1
           k == chain_end[2]
           t == code[m].slots
           x == [t[k] EXCEPT !.jump = l]
           u == [t EXCEPT ![k] = x]
           b == [code[m] EXCEPT !.slots = u]
<1>1. chain(l)
  BY DEF Execute
<1>2. CASE code' = code
  BY <1>2
<1>3. CASE code' # code
  <2>1. chain_end # NoSite /\ m \in 1..Len(code) /\ k \in DOMAIN t
    BY <1>1, <1>3 DEF chain, SiteFresh
  <2>2. code' = [code EXCEPT ![m] = b]
    BY <1>1, <1>3 DEF chain
  <2>3. IsEmitted(code[m]) /\ "target" \in DOMAIN t[k]
    BY <2>1 DEF Shapes, SlotShapes, SlotShape
  <2>4. x.target = t[k].target
    BY <2>3
  <2> HIDE DEF l, m, k, x
  <2>5. \A j \in DOMAIN t : u[j] = IF j = k THEN x ELSE t[j]
    OBVIOUS
  <2> HIDE DEF u
  <2>6. b.slots = u
    BY <2>3 DEF IsEmitted
  <2> HIDE DEF b, t
  <2>7. \A n \in 1..Len(code) : code'[n] = IF n = m THEN b ELSE code[n]
    BY <2>2, SeqDomain DEF Shapes
  <2>. QED
    BY <2>4, <2>5, <2>6, <2>7 DEF t
<1>. QED
  BY <1>2, <1>3

LEMMA ExecuteFlows ==
    ASSUME Shapes, SlotShapes, SiteFresh, BlocksFlow, Execute
    PROVE  BlocksFlow'
<1>1. /\ Len(code') = Len(code)
      /\ \A n \in 1..Len(code) : /\ code'[n].addr = code[n].addr
                                 /\ code'[n].items = code[n].items
                                 /\ code'[n].exit = code[n].exit /\ code'[n].pop = code[n].pop
  BY ExecuteKeeps
<1>2. ASSUME NEW n \in 1..Len(code)
      PROVE  BlockFlows(program, code'[n])
  <2>1. BlockFlows(program, code[n]) /\ SlotShape(code[n])
    BY DEF BlocksFlow, SlotShapes
  <2>2. SlotTargets(code'[n])
    BY <1>1, <2>1, ExecuteTargets DEF BlockFlows, SlotTargets, SlotShape
  <2>. QED
    BY <1>1, <2>1, <2>2 DEF BlockFlows
<1>3. UNCHANGED program
  BY DEF Execute, input
<1>. QED
  BY <1>1, <1>2, <1>3 DEF BlocksFlow

-----------------------------------------------------------------------------
(* Where the guest is. *)

AllInv == CacheInv /\ ReturnInv /\ JumpInv /\ TypeInv /\ FlowInv

\* What is known while a block executes.
LEMMA Running ==
    ASSUME AllInv, mode = "run"
    PROVE  /\ at.block - 1 \in 1..Len(code) /\ Current = code[at.block - 1]
           /\ BlockFlows(program, Current) /\ SlotShape(Current)
           /\ IsSeq(Current.items) /\ Len(Current.items) \in Nat
           /\ at.pos \in 1..(Len(Current.items) + 1)
           /\ Current.addr \in Int /\ Current.exit.at \in Int
           /\ GuestPc = Reaches(Current.items, Current.exit.at, at.pos)
<1>1. at.block - 1 \in 1..Len(code) /\ Current = code[at.block - 1]
  BY DEF AllInv, TypeInv, RunsBlock, Current, BlockAt
<1>2. BlockFlows(program, Current) /\ SlotShape(Current)
  BY <1>1 DEF AllInv, FlowInv, BlocksFlow, JumpInv, SlotShapes
<1>3. /\ IsSeq(Current.items) /\ Len(Current.items) \in Nat
      /\ Current.addr \in Int /\ Current.exit.at \in Int
  BY <1>2, SeqDomain DEF BlockFlows, Flow
<1>4. at.pos \in 1..(Len(Current.items) + 1)
  BY <1>1 DEF AllInv, TypeInv, Placed
<1>5. GuestPc = Reaches(Current.items, Current.exit.at, at.pos)
  BY <1>3, <1>4 DEF GuestPc, Reaches
<1>. QED
  BY <1>1, <1>2, <1>3, <1>4, <1>5

\* Execution goes on at guest address a, in a block or in the main loop.
Comes(a) == /\ mode' \in {"run", "loop"}
            /\ Lands(program, GuestPc') = Lands(program, a)
            /\ next_pc' \in {next_pc, a}

\* A block starts at its own address.
LEMMA EnterComes ==
    ASSUME AllInv, NEW l, Enter(l), l - 1 \in 1..Len(code), UNCHANGED <<next_pc, code>>
    PROVE  Comes(code[l - 1].addr)
<1> DEFINE b == code[l - 1]
<1>1. l - 1 \in DOMAIN code
  BY SeqDomain DEF AllInv, CacheInv, Shapes
<1>2. mode' = "run" /\ at' = [block |-> l, pos |-> 1]
  BY <1>1 DEF Enter
<1>3. Current' = b /\ at'.pos = 1
  BY <1>2 DEF Current, BlockAt
<1>4. BlockFlows(program, b)
  BY DEF AllInv, FlowInv, BlocksFlow
<1>5. Len(b.items) \in Nat
  BY <1>4, SeqDomain DEF BlockFlows, Flow
<1>6. GuestPc' = Reaches(b.items, b.exit.at, 1)
  BY <1>2, <1>3, <1>5 DEF GuestPc, Reaches
<1>. QED
  BY <1>2, <1>4, <1>6 DEF Comes, BlockFlows, Flow

LEMMA LeaveComes ==
    ASSUME NEW a, Leave(a)
    PROVE  Comes(a)
BY DEF Leave, Comes, GuestPc

LEMMA TakeSlotComes ==
    ASSUME AllInv, mode = "run", NEW k \in DOMAIN Current.slots, TakeSlot(k), UNCHANGED code
    PROVE  Comes(Current.slots[k].target)
<1> DEFINE slot == Current.slots[k]
<1>1. CASE slot.jump # UNSEEN_CODE
  <2>1. Enter(slot.jump) /\ UNCHANGED <<next_pc, code>>
    BY <1>1 DEF TakeSlot
  <2>2. DOMAIN code = 1..Len(code)
    BY SeqDomain DEF AllInv, CacheInv, Shapes
  <2>3. slot.jump - 1 \in 1..Len(code) /\ code[slot.jump - 1].addr = slot.target
    BY <1>1, <2>2, Running DEF AllInv, JumpInv, SlotsSound, BlockAt
  <2>. QED
    BY <2>1, <2>3, EnterComes
<1>2. CASE slot.jump = UNSEEN_CODE
  BY <1>2, LeaveComes DEF TakeSlot
<1>. QED
  BY <1>1, <1>2

\* The pc of the hart, and that of the next state.
LEMMA Pcs ==
    /\ PastFences(GuestPc) = Lands(program, GuestPc)
    /\ PastFences(GuestPc)' = Lands(program', GuestPc')
<1>1. PastFences(GuestPc) = Lands(program, GuestPc)
  BY LandsIs
<1>2. PastFences(GuestPc)' = Lands(program', GuestPc')
  BY DEF PastFences, Lands, InstrAt, Instr
<1>. QED
  BY <1>1, <1>2

-----------------------------------------------------------------------------
(* The steps of the hart, in the words of this module. *)

Halted == mode \in {"done", "panic"}

\* The hart is at a, which is no fence, and comes to b.
Moves(a, b) == /\ Lands(program, GuestPc) = a
               /\ Lands(program, GuestPc') = Lands(program, b)
               /\ UNCHANGED program /\ ~Halted

LEMMA HartSteps ==
    ASSUME NEW a, NEW b, Moves(a, b), NEW i, i = Instr(program, a)
    PROVE  /\ i.op = "NOP" /\ b = a + 1 /\ regs' = regs /\ ~Halted' => Guest!Next
           /\ i.op = "AUIPC" /\ b = a + 1 /\ regs' = WriteReg(i.rd, a + i.imm) /\ ~Halted'
                 => Guest!Next
           /\ i.op = "JAL" /\ b = a + i.imm /\ regs' = WriteReg(i.rd, a + 1) /\ ~Halted'
                 => Guest!Next
           /\ i.op = "JALR" /\ b = regs[i.rs1] + i.imm /\ regs' = WriteReg(i.rd, a + 1) /\ ~Halted'
                 => Guest!Next
           /\ i.op = "BRANCH" /\ b \in {a + 1, a + i.imm} /\ regs' = regs /\ ~Halted'
                 => Guest!Next
           /\ i.op = "ECALL" /\ b = a + 1 /\ regs' = regs => Guest!Next
           /\ i.op = "INVALID" /\ b = a /\ regs' = regs /\ Halted' /\ Lands(program, a) = a
                 => Guest!Next
<1>1. /\ PastFences(GuestPc) = a /\ PastFences(GuestPc)' = Lands(program, b)
      /\ UNCHANGED program /\ ~(mode \in {"done", "panic"})
  BY Pcs DEF Moves, Halted
<1>2. Guest!I = i
  BY <1>1, InstrIs DEF Guest!I
<1>3. \A x : Guest!Goto(x) <=> Lands(program, b) = Lands(program, x)
  BY <1>1, LandsIs DEF Guest!Goto
<1>4. \A r, v : Guest!WriteReg(r, v) = WriteReg(r, v)
  BY DEF Guest!WriteReg, WriteReg
<1>5. ASSUME Guest!Plain \/ Guest!Auipc \/ Guest!Jal \/ Guest!Jalr \/ Guest!Branch \/ Guest!Ecall
               \/ Guest!Trap
      PROVE  Guest!Next
  BY <1>1, <1>5 DEF Guest!Next
<1>6. ASSUME i.op = "NOP", b = a + 1, regs' = regs, ~Halted'
      PROVE  Guest!Next
  BY <1>1, <1>2, <1>3, <1>5, <1>6 DEF Guest!Plain, Halted
<1>7. ASSUME i.op = "AUIPC", b = a + 1, regs' = WriteReg(i.rd, a + i.imm), ~Halted'
      PROVE  Guest!Next
  BY <1>1, <1>2, <1>3, <1>4, <1>5, <1>7 DEF Guest!Auipc, Halted
<1>8. ASSUME i.op = "JAL", b = a + i.imm, regs' = WriteReg(i.rd, a + 1), ~Halted'
      PROVE  Guest!Next
  BY <1>1, <1>2, <1>3, <1>4, <1>5, <1>8 DEF Guest!Jal, Halted
<1>9. ASSUME i.op = "JALR", b = regs[i.rs1] + i.imm, regs' = WriteReg(i.rd, a + 1), ~Halted'
      PROVE  Guest!Next
  BY <1>1, <1>2, <1>3, <1>4, <1>5, <1>9 DEF Guest!Jalr, Halted
<1>10. ASSUME i.op = "BRANCH", b \in {a + 1, a + i.imm}, regs' = regs, ~Halted'
       PROVE  Guest!Next
  BY <1>1, <1>2, <1>3, <1>5, <1>10 DEF Guest!Branch, Halted
<1>11. ASSUME i.op = "ECALL", b = a + 1, regs' = regs
       PROVE  Guest!Next
  BY <1>1, <1>2, <1>3, <1>5, <1>11 DEF Guest!Ecall
<1>12. ASSUME i.op = "INVALID", b = a, regs' = regs, Halted', Lands(program, a) = a
       PROVE  Guest!Next
  BY <1>1, <1>2, <1>5, <1>12 DEF Guest!Trap, Halted
<1>. QED
  BY <1>6, <1>7, <1>8, <1>9, <1>10, <1>11, <1>12

\* A step of the translator alone.
LEMMA HartStutters ==
    ASSUME UNCHANGED <<program, regs>>, Lands(program, GuestPc') = Lands(program, GuestPc),
           Halted' = Halted
    PROVE  UNCHANGED Guest!vars
BY Pcs DEF Guest!vars, Halted

-----------------------------------------------------------------------------
(* Execution. *)

\* A return through the return stack never goes to guest address 0, which an
\* empty entry of the stack would answer.
NoNullReturn ==
    mode = "run" /\ at.pos > Len(Current.items) /\ Current.exit.kind = "JALR" /\ Current.pop
        => regs[Current.exit.rs1] + Current.exit.imm # 0

\* What a step of the emitted code does to the guest.
Emulates == /\ Guest!Next \/ UNCHANGED Guest!vars
            /\ next_pc' \in Int /\ IntRegs'

LEMMA WritesInt ==
    ASSUME IntRegs, NEW r \in RegNames, NEW v \in Int, regs' = WriteReg(r, v)
    PROVE  IntRegs'
BY DEF IntRegs, WriteReg

LEMMA ItemEmulates ==
    ASSUME AllInv, ExecItem
    PROVE  Emulates
<1> DEFINE items == Current.items
           last == Current.exit.at
           item == items[at.pos]
           i == Instr(program, item.at)
           next == Reaches(items, last, at.pos + 1)
<1>1. mode = "run" /\ at.pos <= Len(items) /\ UNCHANGED <<program, code, mode, next_pc>>
  BY DEF ExecItem, input
<1>2. at.pos \in 1..Len(items) /\ Len(items) \in Nat /\ BlockFlows(program, Current)
  BY <1>1, Running
<1>3. ItemRight(program, item, next) /\ item.at \in Int
  BY <1>2 DEF BlockFlows, Flow, ItemRight
<1>4. i \in Instructions /\ IsProgram(program)
  BY InputsProgram, ProgramType DEF AllInv, TypeInv
<1>5. GuestPc = item.at
  BY <1>1, <1>2, Running DEF Reaches
<1>6. GuestPc' = next
  <2>1. at'.block = at.block /\ at'.pos = at.pos + 1
    BY <1>1 DEF ExecItem, AllInv, TypeInv, Placed
  <2>2. Current' = Current
    BY <1>1, <2>1 DEF Current, BlockAt
  <2>. QED
    BY <1>1, <1>2, <2>1, <2>2 DEF GuestPc, Reaches
<1>7. regs' = IF item.op = "AUIPC" THEN WriteReg(item.rd, item.at + item.imm) ELSE regs
  BY DEF ExecItem
<1>8. next_pc' \in Int /\ IntRegs
  BY <1>1 DEF AllInv, FlowInv
<1>9. ~Halted /\ ~Halted'
  BY <1>1 DEF Halted
<1> HIDE DEF items, last, item, i, next
<1>10. i.rd \in RegNames /\ i.imm \in Int
  BY <1>4 DEF Instructions
<1>11. i.op # "FENCE" => Lands(program, item.at) = item.at
  BY <1>3, <1>4, LandsHere DEF i
<1>12. CASE /\ i.op \in {"NOP", "AUIPC"} /\ item.op = i.op /\ item.rd = i.rd /\ item.imm = i.imm
            /\ Lands(program, next) = Lands(program, item.at + 1)
  <2>1. Moves(item.at, item.at + 1)
    BY <1>1, <1>5, <1>6, <1>9, <1>11, <1>12 DEF Moves
  <2>2. CASE i.op = "NOP"
    <3>1. regs' = regs
      BY <1>7, <1>12, <2>2
    <3>2. IntRegs'
      BY <1>8, <3>1 DEF IntRegs
    <3>. QED
      BY <1>8, <1>9, <2>1, <2>2, <3>1, <3>2, HartSteps DEF Emulates, i
  <2>3. CASE i.op = "AUIPC"
    <3>1. regs' = WriteReg(i.rd, item.at + i.imm)
      BY <1>7, <1>12, <2>3
    <3>2. IntRegs'
      BY <1>3, <1>8, <1>10, <3>1, WritesInt
    <3>. QED
      BY <1>8, <1>9, <2>1, <2>3, <3>1, <3>2, HartSteps DEF Emulates, i
  <2>. QED
    BY <1>12, <2>2, <2>3
<1>13. CASE /\ i.op = "JAL" /\ i.rd = "x0" /\ item.op = "AUIPC" /\ item.rd = "x0"
            /\ Lands(program, next) = Lands(program, item.at + i.imm)
  <2>1. Moves(item.at, item.at + i.imm)
    BY <1>1, <1>5, <1>6, <1>9, <1>11, <1>13 DEF Moves
  <2>2. regs' = regs /\ regs' = WriteReg(i.rd, item.at + 1)
    BY <1>7, <1>13 DEF WriteReg
  <2>3. IntRegs'
    BY <1>8, <2>2 DEF IntRegs
  <2>. QED
    BY <1>8, <1>9, <1>13, <2>1, <2>2, <2>3, HartSteps DEF Emulates, i
<1>. QED
  BY <1>3, <1>12, <1>13 DEF ItemRight, i

\* At the end of a block.
LEMMA AtExit ==
    ASSUME AllInv, NEW kind, ExecExit(kind)
    PROVE  LET e == Current.exit
               i == Instr(program, e.at)
           IN /\ GuestPc = e.at /\ e.at \in Int /\ e.kind = kind
              /\ i.imm \in Int /\ i.rd \in RegNames /\ i.rs1 \in RegNames
              /\ UNCHANGED <<program, code>> /\ mode = "run" /\ ~Halted
              /\ kind # "PC_NEXT_INST" =>
                    /\ Lands(program, e.at) = e.at /\ kind = i.op
                    /\ e.rd = i.rd /\ e.rs1 = i.rs1 /\ e.imm = i.imm
<1> DEFINE e == Current.exit
           i == Instr(program, e.at)
<1>1. mode = "run" /\ at.pos > Len(Current.items) /\ e.kind = kind /\ UNCHANGED <<program, code>>
  BY DEF ExecExit, input
<1>2. GuestPc = e.at /\ e.at \in Int /\ ExitRight(program, e)
  BY <1>1, Running DEF Reaches, BlockFlows
<1>3. IsProgram(program) /\ i \in Instructions
  BY InputsProgram, ProgramType DEF AllInv, TypeInv
<1>4. i.imm \in Int /\ i.rd \in RegNames /\ i.rs1 \in RegNames
  BY <1>3 DEF Instructions
<1>5. ~Halted
  BY <1>1 DEF Halted
<1>6. kind # "PC_NEXT_INST" =>
         /\ Lands(program, e.at) = e.at /\ kind = i.op
         /\ e.rd = i.rd /\ e.rs1 = i.rs1 /\ e.imm = i.imm
  BY <1>1, <1>2, <1>3, LandsHere DEF ExitRight
<1>. QED
  BY <1>1, <1>2, <1>4, <1>5, <1>6

\* From the end of a block the guest comes to address a.
LEMMA ExitComes ==
    ASSUME AllInv, NEW kind, ExecExit(kind), kind # "PC_NEXT_INST", NEW a \in Int, Comes(a)
    PROVE  Moves(Current.exit.at, a) /\ ~Halted' /\ next_pc' \in Int
BY AtExit DEF Comes, Moves, Halted, AllInv, FlowInv

LEMMA SlotExitsEmulate ==
    ASSUME AllInv, ExecJal \/ ExecBranch \/ ExecPcNext
    PROVE  Emulates
<1> DEFINE e == Current.exit
           i == Instr(program, e.at)
<1>1. CASE ExecJal
  <2>1. ExecExit("JAL") /\ regs' = WriteReg(e.rd, e.at + 1) /\ TakeSlot(1)
    BY <1>1 DEF ExecJal, Link
  <2>2. /\ e.kind = "JAL" /\ e.at \in Int /\ mode = "run" /\ UNCHANGED code
        /\ i.op = "JAL" /\ e.rd = i.rd /\ e.imm = i.imm
        /\ i.imm \in Int /\ i.rd \in RegNames
    BY <2>1, AtExit
  <2>3. 1 \in DOMAIN Current.slots /\ Current.slots[1].target = e.at + i.imm
    BY <2>2, Running DEF SlotShape, BlockFlows, SlotTargets
  <2>4. Comes(e.at + i.imm)
    BY <2>1, <2>2, <2>3, TakeSlotComes
  <2>5. Moves(e.at, e.at + i.imm) /\ ~Halted' /\ next_pc' \in Int
    BY <2>1, <2>2, <2>4, ExitComes
  <2>6. IntRegs'
    BY <2>1, <2>2, WritesInt DEF AllInv, FlowInv
  <2>. QED
    BY <2>1, <2>2, <2>5, <2>6, HartSteps DEF Emulates
<1>2. CASE ExecBranch
  <2>1. ExecExit("BRANCH") /\ regs' = regs /\ (TakeSlot(1) \/ TakeSlot(2))
    BY <1>2 DEF ExecBranch, guest
  <2>2. /\ e.kind = "BRANCH" /\ e.at \in Int /\ mode = "run" /\ UNCHANGED code
        /\ i.op = "BRANCH" /\ e.imm = i.imm /\ i.imm \in Int
    BY <2>1, AtExit
  <2>3. /\ 1 \in DOMAIN Current.slots /\ Current.slots[1].target = e.at + i.imm
        /\ 2 \in DOMAIN Current.slots /\ Current.slots[2].target = e.at + 1
    BY <2>2, Running DEF SlotShape, BlockFlows, SlotTargets
  <2>4. Comes(e.at + i.imm) \/ Comes(e.at + 1)
    BY <2>1, <2>2, <2>3, TakeSlotComes
  <2>5. PICK a \in {e.at + i.imm, e.at + 1} : Comes(a)
    BY <2>4
  <2>6. Moves(e.at, a) /\ ~Halted' /\ next_pc' \in Int
    BY <2>1, <2>2, <2>5, ExitComes
  <2>7. IntRegs'
    BY <2>1 DEF AllInv, FlowInv, IntRegs
  <2>. QED
    BY <2>1, <2>2, <2>5, <2>6, <2>7, HartSteps DEF Emulates
<1>3. CASE ExecPcNext
  <2>1. ExecExit("PC_NEXT_INST") /\ regs' = regs /\ TakeSlot(1)
    BY <1>3 DEF ExecPcNext, guest
  <2>2. /\ e.kind = "PC_NEXT_INST" /\ e.at \in Int /\ mode = "run" /\ UNCHANGED <<program, code>>
        /\ GuestPc = e.at /\ ~Halted
    BY <2>1, AtExit
  <2>3. 1 \in DOMAIN Current.slots /\ Current.slots[1].target = e.at
    BY <2>2, Running DEF SlotShape, BlockFlows, SlotTargets
  <2>4. Comes(e.at)
    BY <2>1, <2>2, <2>3, TakeSlotComes
  <2>5. UNCHANGED Guest!vars
    <3>1. Halted' = Halted
      BY <2>2, <2>4 DEF Halted, Comes
    <3>. QED
      BY <2>1, <2>2, <2>4, <3>1, HartStutters DEF Comes
  <2>6. IntRegs' /\ next_pc' \in Int
    BY <2>1, <2>2, <2>4 DEF AllInv, FlowInv, IntRegs, Comes
  <2>. QED
    BY <2>5, <2>6 DEF Emulates
<1>. QED
  BY <1>1, <1>2, <1>3

\* The return stack answers with the block of the return address.
LEMMA HitComes ==
    ASSUME AllInv, mode = "run", NEW target, r_stack[rs_front].risc_addr = target, target # 0,
           Enter(r_stack[rs_front].x86_addr), UNCHANGED <<next_pc, code>>
    PROVE  Comes(target)
<1> DEFINE top == r_stack[rs_front]
<1>1. rs_front \in DOMAIN r_stack
  BY DEF AllInv, TypeInv, Ring
<1>2. DOMAIN code = 1..Len(code)
  BY SeqDomain DEF AllInv, CacheInv, Shapes
<1>3. top.x86_addr - 1 \in 1..Len(code) /\ code[top.x86_addr - 1].addr = target
  BY <1>1, <1>2 DEF AllInv, ReturnInv, ReturnStackSound, BlockAt
<1>. QED
  BY <1>3, EnterComes

LEMMA JalrEmulates ==
    ASSUME AllInv, NoNullReturn, ExecJalr
    PROVE  Emulates
<1> DEFINE e == Current.exit
           i == Instr(program, e.at)
           target == regs[e.rs1] + e.imm
           top == r_stack[rs_front]
<1>1. ExecExit("JALR") /\ regs' = WriteReg(e.rd, e.at + 1)
  BY DEF ExecJalr, Link
<1>2. /\ e.kind = "JALR" /\ e.at \in Int /\ mode = "run" /\ UNCHANGED code
      /\ i.op = "JALR" /\ e.rd = i.rd /\ e.rs1 = i.rs1 /\ e.imm = i.imm
      /\ i.imm \in Int /\ i.rd \in RegNames /\ i.rs1 \in RegNames
  BY <1>1, AtExit
<1>3. target \in Int
  BY <1>2 DEF AllInv, FlowInv, IntRegs
<1>4. Current.pop => target # 0
  BY <1>1 DEF NoNullReturn, ExecExit
<1>5. Current.slots = <<>>
  BY <1>2, Running DEF SlotShape
<1>6. JalrLeaves(target) => Comes(target)
  BY <1>5, LeaveComes DEF JalrLeaves, LeaveUnchained
<1>7. \/ /\ Current.pop /\ top.risc_addr = target
         /\ Enter(top.x86_addr) /\ UNCHANGED next_pc
      \/ JalrLeaves(target)
  BY DEF ExecJalr
<1>8. Comes(target)
  BY <1>2, <1>4, <1>6, <1>7, HitComes
<1>9. Moves(e.at, target) /\ ~Halted' /\ next_pc' \in Int
  BY <1>1, <1>3, <1>8, ExitComes
<1>10. IntRegs'
  BY <1>1, <1>2, WritesInt DEF AllInv, FlowInv
<1>. QED
  BY <1>1, <1>2, <1>9, <1>10, HartSteps DEF Emulates

LEMMA EndsEmulate ==
    ASSUME AllInv, ExecEcall \/ ExecExitCall \/ ExecInvalid
    PROVE  Emulates
<1> DEFINE e == Current.exit
           i == Instr(program, e.at)
<1>0. regs' = regs => IntRegs'
  BY DEF AllInv, FlowInv, IntRegs
<1>1. CASE ExecEcall
  <2>1. ExecExit("ECALL") /\ regs' = regs /\ Leave(e.at + 1)
    BY <1>1 DEF ExecEcall, guest, LeaveUnchained
  <2>2. e.at \in Int /\ i.op = "ECALL"
    BY <2>1, AtExit
  <2>3. Moves(e.at, e.at + 1) /\ ~Halted' /\ next_pc' \in Int
    BY <2>1, <2>2, LeaveComes, ExitComes
  <2>. QED
    BY <1>0, <2>1, <2>2, <2>3, HartSteps DEF Emulates
<1>2. CASE ExecExitCall
  <2>1. ExecExit("ECALL") /\ regs' = regs /\ mode' = "done" /\ next_pc' = e.at + 1
    BY <1>2 DEF ExecExitCall, guest
  <2>2. /\ e.at \in Int /\ i.op = "ECALL" /\ GuestPc = e.at /\ Lands(program, e.at) = e.at
        /\ UNCHANGED program /\ ~Halted
    BY <2>1, AtExit
  <2>3. GuestPc' = e.at + 1
    BY <2>1 DEF GuestPc
  <2>4. Moves(e.at, e.at + 1)
    BY <2>2, <2>3 DEF Moves
  <2>. QED
    BY <1>0, <2>1, <2>2, <2>4, HartSteps DEF Emulates
<1>3. CASE ExecInvalid
  <2>1. /\ ExecExit("INVALID") /\ regs' = regs /\ mode' = "panic" /\ UNCHANGED <<at, next_pc>>
        /\ at.pos > Len(Current.items)
    BY <1>3 DEF ExecInvalid, guest, ExecExit
  <2>2. /\ e.at \in Int /\ i.op = "INVALID" /\ GuestPc = e.at /\ Lands(program, e.at) = e.at
        /\ UNCHANGED <<program, code>> /\ ~Halted /\ mode = "run"
    BY <2>1, AtExit
  <2>3. GuestPc' = e.at
    <3>1. Current' = Current
      BY <2>1, <2>2 DEF Current, BlockAt
    <3>2. at.pos \in Int /\ Len(Current.items) \in Nat
      BY <2>2, Running
    <3>. QED
      BY <2>1, <3>1, <3>2 DEF GuestPc
  <2>4. Moves(e.at, e.at) /\ Halted'
    BY <2>1, <2>2, <2>3 DEF Moves, Halted
  <2>5. next_pc' \in Int
    BY <2>1 DEF AllInv, FlowInv
  <2>. QED
    BY <1>0, <2>1, <2>2, <2>4, <2>5, HartSteps DEF Emulates
<1>. QED
  BY <1>1, <1>2, <1>3

LEMMA RunEmulates ==
    ASSUME AllInv, NoNullReturn, Run
    PROVE  Emulates
BY ItemEmulates, SlotExitsEmulate, JalrEmulates, EndsEmulate DEF Run

-----------------------------------------------------------------------------
(* Translation and lookups are no steps of the hart. *)

\* Outside of the emitted code the guest stays at next_pc.
LEMMA WaitsEmulate ==
    ASSUME AllInv, mode \in {"loop", "translate"}, mode' \in {"loop", "translate"},
           UNCHANGED <<program, next_pc, regs>>
    PROVE  Emulates
<1>1. GuestPc = next_pc /\ GuestPc' = next_pc
  BY DEF GuestPc
<1>2. Halted' = Halted
  BY DEF Halted
<1>3. UNCHANGED Guest!vars
  BY <1>1, <1>2, HartStutters
<1>. QED
  BY <1>3 DEF Emulates, AllInv, FlowInv, IntRegs

LEMMA ExecuteEmulates ==
    ASSUME AllInv, Execute
    PROVE  Emulates
<1> DEFINE l == lookup_cache_entry(next_pc)
           b == code'[l - 1]
<1>1. /\ mode = "loop" /\ l # UNSEEN_CODE /\ Enter(l) /\ UNCHANGED <<program, next_pc, regs>>
  BY DEF Execute, input, guest
<1>2. Shapes /\ CacheSound /\ StartedOnStack /\ SlotShapes /\ SiteFresh /\ BlocksFlow
  BY DEF AllInv, CacheInv, JumpInv, FlowInv
\* No translation is running, so what the cache holds is a block.
<1>3. l - 1 \in 1..Len(code) /\ code[l - 1].addr = next_pc
  <2>1. frames = <<>> /\ Len(<<>>) = 0
    BY <1>1, <1>2, EmptySeq DEF Shapes
  <2>2. next_pc \in DOMAIN cache /\ l = cache[next_pc]
    BY <1>1 DEF lookup_cache_entry
  <2>3. IsBlock(l)
    BY <1>1, <1>2, <2>1, <2>2 DEF StartedOnStack, IsBlock
  <2>. QED
    BY <1>2, <2>2, <2>3, LookupType DEF CacheSound, BlockAt
<1>4. mode' = "run" /\ at' = [block |-> l, pos |-> 1]
  BY <1>1, <1>2, <1>3, SeqDomain DEF Enter, Shapes
<1>5. b.addr = next_pc /\ BlockFlows(program, b)
  <2>1. BlocksFlow' /\ Len(code') = Len(code) /\ b.addr = next_pc
    BY <1>2, <1>3, ExecuteFlows, ExecuteKeeps
  <2>. QED
    BY <1>1, <1>3, <2>1 DEF BlocksFlow
<1>6. Current' = b /\ at'.pos = 1
  BY <1>4 DEF Current, BlockAt
<1> HIDE DEF b, l
<1>7. GuestPc' = Reaches(b.items, b.exit.at, 1)
  <2>1. Len(b.items) \in Nat
    BY <1>5, SeqDomain DEF BlockFlows, Flow
  <2>. QED
    BY <1>4, <1>6, <2>1 DEF GuestPc, Reaches
<1>8. GuestPc = next_pc /\ Halted' = Halted
  BY <1>1, <1>4 DEF GuestPc, Halted
<1>9. UNCHANGED Guest!vars
  BY <1>1, <1>5, <1>7, <1>8, HartStutters DEF BlockFlows, Flow
<1>. QED
  BY <1>1, <1>9 DEF Emulates, AllInv, FlowInv, IntRegs

LEMMA NextEmulates ==
    ASSUME AllInv, NoNullReturn, [Next]_vars
    PROVE  Emulates
<1>1. CASE Run
  BY <1>1, RunEmulates
<1>2. CASE Execute
  BY <1>2, ExecuteEmulates
<1>3. CASE Translate \/ LookupUnseen
  BY <1>3, WaitsEmulate DEF Translate, ParseInstr, ParseFull, SkipTarget, RecurseInto,
                            FinishBlock, LookupUnseen, input, guest
<1>4. CASE UNCHANGED vars
  <2>1. GuestPc' = GuestPc /\ Halted' = Halted /\ UNCHANGED <<program, regs, next_pc>>
    BY <1>4 DEF vars, GuestPc, Current, BlockAt, Halted
  <2>2. UNCHANGED Guest!vars
    BY <2>1, HartStutters
  <2>. QED
    BY <2>1, <2>2 DEF Emulates, AllInv, FlowInv, IntRegs
<1>. QED
  BY <1>1, <1>2, <1>3, <1>4 DEF Next, Ended

-----------------------------------------------------------------------------

LEMMA InitFlows == Init => FlowInv
<1>1. ASSUME Init
      PROVE  FlowInv
  <2>1. code = <<>> /\ frames = <<>> /\ Len(<<>>) = 0
    BY <1>1, EmptySeq DEF Init
  <2>2. next_pc \in Int /\ IntRegs
    BY <1>1 DEF Init, ENTRY, IntRegs
  <2>. QED
    BY <2>1, <2>2 DEF FlowInv, FramesFlow, BlocksFlow
<1>. QED
  BY <1>1

LEMMA NextFlows ==
    ASSUME AllInv, NoNullReturn, [Next]_vars
    PROVE  FlowInv'
<1>0. /\ Shapes /\ Inputs /\ FramesFlow /\ BlocksFlow /\ next_pc \in Int
      /\ SlotShapes /\ SiteFresh
  BY DEF AllInv, CacheInv, JumpInv, FlowInv
<1>1. next_pc' \in Int /\ IntRegs'
  BY NextEmulates DEF Emulates
<1>2. ASSUME UNCHANGED <<program, code>>
      PROVE  BlocksFlow'
  BY <1>0, <1>2 DEF BlocksFlow
<1>3. CASE ParseInstr \/ ParseFull \/ SkipTarget
  BY <1>0, <1>1, <1>2, <1>3, TopSteps, TopStepFlows DEF FlowInv, TopStep, input
<1>4. CASE RecurseInto \/ LookupUnseen
  <2>1. UNCHANGED <<program, code>>
    BY <1>4 DEF RecurseInto, LookupUnseen, input
  <2>. QED
    BY <1>0, <1>1, <1>2, <1>4, <2>1, FramesStayFlows DEF FlowInv
<1>5. CASE FinishBlock
  <2>1. UNCHANGED program
    BY <1>5 DEF FinishBlock, input
  <2>. QED
    BY <1>0, <1>1, <1>5, <2>1, FramesStayFlows, FinishFlows DEF FlowInv
<1>6. CASE Execute
  <2>1. UNCHANGED <<program, frames>>
    BY <1>6 DEF Execute, input
  <2>. QED
    BY <1>0, <1>1, <1>6, <2>1, FramesStayFlows, ExecuteFlows DEF FlowInv
<1>7. CASE Run
  <2>1. UNCHANGED <<program, code, frames>>
    BY <1>0, <1>7, RunEnters DEF AllInv, TypeInv, input
  <2>. QED
    BY <1>0, <1>1, <1>2, <2>1, FramesStayFlows DEF FlowInv
<1>8. CASE UNCHANGED vars
  BY <1>0, <1>1, <1>2, <1>8, FramesStayFlows DEF FlowInv, vars
<1>. QED
  BY <1>3, <1>4, <1>5, <1>6, <1>7, <1>8 DEF Next, Translate, Ended

LEMMA InitAll == RasFollows /\ NoPairs /\ Init => AllInv /\ Guest!Init
<1>1. ASSUME RasFollows, NoPairs, Init
      PROVE  AllInv
  BY <1>1, InitCacheInv, InitReturns, InitJumps, InitTypes, InitFlows DEF AllInv
<1>2. ASSUME Init
      PROVE  Guest!Init
  <2>1. GuestPc = 1
    BY <1>2 DEF Init, GuestPc, ENTRY
  <2>2. regs = [r \in {"x0", "x1", "x5", "x6"} |-> IF r = "x0" THEN 0 ELSE 1]
    BY <1>2 DEF Init, RegNames, ENTRY
  <2>3. mode = "loop"
    BY <1>2 DEF Init
  <2>. QED
    BY <2>1, <2>2, <2>3, LandsIs DEF Guest!Init
<1>. QED
  BY <1>1, <1>2

LEMMA NextAll ==
    ASSUME AllInv, NoNullReturn, [Next]_vars
    PROVE  AllInv' /\ [Guest!Next]_(Guest!vars)
<1>1. AllInv'
  BY NextCacheInv, NextReturns, NextJumps, NextTypes, NextFlows DEF AllInv
<1>. QED
  BY <1>1, NextEmulates DEF Emulates

\* The translated program does what the guest program does, for every program
\* without followed and chained AUIPC and JALR pairs, every setting in which the
\* return stack comes with followed jumps, every buffer and every return stack, in
\* every execution that does not return to guest address 0.
THEOREM ImplementsGuestUnlessNull ==
    RasFollows /\ NoPairs => (Spec /\ []NoNullReturn => ImplementsGuest)
<1>1. AllInv /\ NoNullReturn /\ [Next]_vars => AllInv' /\ [Guest!Next]_(Guest!vars)
  BY NextAll
<1>. QED
  BY <1>1, InitAll, PTL DEF Spec, ImplementsGuest, Guest!Spec

-----------------------------------------------------------------------------
(* Programs that never return to address 0.                                *)

\* No address the program computes relative to the pc is 0 or below, and no return
\* goes to a place before the address in its register.
AddressesPositive == \A p \in Programs : \A a \in DOMAIN p :
    /\ p[a].op = "AUIPC" => a + p[a].imm > 0
    /\ p[a].op = "JALR" /\ p[a].rs1 \in LinkRegs => p[a].imm >= 0

RegsPositive == \A r \in RegNames \ {"x0"} : regs[r] > 0

LEMMA PositiveIsNotNull ==
    ASSUME AllInv, AddressesPositive, RegsPositive
    PROVE  NoNullReturn
<1> DEFINE e == Current.exit
           i == Instr(program, e.at)
<1>1. ASSUME mode = "run", at.pos > Len(Current.items), e.kind = "JALR", Current.pop
      PROVE  regs[e.rs1] + e.imm # 0
  <2>1. BlockFlows(program, Current)
    BY <1>1, Running
  <2>2. i.op = "JALR" /\ e.rs1 = i.rs1 /\ e.imm = i.imm /\ e.rs1 \in LinkRegs
    BY <1>1, <2>1 DEF BlockFlows, ExitRight
  <2>3. e.at \in DOMAIN program /\ i = program[e.at] /\ program \in Programs
    BY <2>2 DEF Instr, INVALID, AllInv, TypeInv, Inputs
  <2>4. i.imm \in Int /\ i.imm >= 0
    BY <2>2, <2>3, InputsProgram, ProgramType
    DEF AddressesPositive, Instructions, AllInv, TypeInv
  <2>5. regs[e.rs1] \in Int /\ regs[e.rs1] > 0
    BY <2>2 DEF RegsPositive, AllInv, FlowInv, IntRegs, LinkRegs, RegNames
  <2>. QED
    BY <2>2, <2>4, <2>5
<1>. QED
  BY <1>1 DEF NoNullReturn

LEMMA WritesPositive ==
    ASSUME IntRegs, RegsPositive, NEW r, NEW v \in Int, v > 0, regs' = WriteReg(r, v)
    PROVE  RegsPositive'
BY DEF RegsPositive, IntRegs, WriteReg

LEMMA NextPositive ==
    ASSUME AllInv, AddressesPositive, RegsPositive, [Next]_vars
    PROVE  RegsPositive'
<1>1. CASE regs' = regs
  BY <1>1 DEF RegsPositive
<1>2. /\ IntRegs /\ program \in Programs /\ IsProgram(program)
      /\ \A a : Instr(program, a).op # "INVALID" =>
            a \in DOMAIN program /\ a \in Int /\ a >= 1 /\ Instr(program, a) = program[a]
  BY InputsProgram, ProgramType
  DEF AllInv, FlowInv, TypeInv, Inputs, Instr, INVALID
<1>3. CASE ExecItem
  <2> DEFINE item == Current.items[at.pos]
             i == Instr(program, item.at)
  <2>1. /\ mode = "run" /\ at.pos <= Len(Current.items)
        /\ regs' = IF item.op = "AUIPC" THEN WriteReg(item.rd, item.at + item.imm) ELSE regs
    BY <1>3 DEF ExecItem
  <2>2. at.pos \in 1..Len(Current.items) /\ BlockFlows(program, Current)
    BY <2>1, Running
  <2>3. ItemRight(program, item, Reaches(Current.items, Current.exit.at, at.pos + 1))
    BY <2>2 DEF BlockFlows, Flow
  <2> HIDE DEF item
  <2>4. CASE item.op = "AUIPC" /\ item.rd # "x0"
    <3>1. i.op = "AUIPC" /\ item.imm = i.imm /\ item.at \in Int /\ item.imm \in Int
      BY <2>3, <2>4 DEF ItemRight
    <3>2. item.at + item.imm > 0
      BY <1>2, <3>1 DEF AddressesPositive
    <3>. QED
      BY <1>2, <2>1, <2>4, <3>1, <3>2, WritesPositive
  <2>5. CASE ~(item.op = "AUIPC" /\ item.rd # "x0")
    BY <1>1, <2>1, <2>5 DEF WriteReg
  <2>. QED
    BY <2>4, <2>5
<1>4. CASE ExecJal \/ ExecJalr
  <2> DEFINE e == Current.exit
  <2>1. PICK kind \in {"JAL", "JALR"} : ExecExit(kind)
    BY <1>4 DEF ExecJal, ExecJalr
  <2>2. regs' = WriteReg(e.rd, e.at + 1)
    BY <1>4 DEF ExecJal, ExecJalr, Link
  <2>3. Instr(program, e.at).op = kind
    BY <2>1, AtExit
  <2>4. e.at \in Int /\ e.at >= 1
    BY <1>2, <2>3
  <2>. QED
    BY <1>2, <2>2, <2>4, WritesPositive
<1>5. CASE ExecBranch \/ ExecPcNext \/ ExecEcall \/ ExecExitCall \/ ExecInvalid
  BY <1>1, <1>5 DEF ExecBranch, ExecPcNext, ExecEcall, ExecExitCall, ExecInvalid, guest
<1>6. CASE Translate \/ LookupUnseen \/ Execute \/ UNCHANGED vars
  BY <1>1, <1>6 DEF Translate, ParseInstr, ParseFull, SkipTarget, RecurseInto, FinishBlock,
                    LookupUnseen, Execute, guest, vars
<1>. QED
  BY <1>3, <1>4, <1>5, <1>6 DEF Next, Run, Ended

\* The translated program does what the guest program does; the conditions are
\* about the program and the settings only.
THEOREM ImplementsGuestHolds ==
    RasFollows /\ NoPairs /\ AddressesPositive => (Spec => ImplementsGuest)
<1> DEFINE Positive == AddressesPositive /\ RegsPositive
<1>1. AddressesPositive /\ Init => Positive
  BY DEF Init, RegsPositive, ENTRY
<1>2. AllInv /\ Positive /\ [Next]_vars =>
         AllInv' /\ Positive' /\ [Guest!Next]_(Guest!vars)
  BY NextAll, NextPositive, PositiveIsNotNull DEF AddressesPositive
<1> HIDE DEF Positive
<1>. QED
  BY <1>1, <1>2, InitAll, PTL DEF Spec, ImplementsGuest, Guest!Spec
=============================================================================
