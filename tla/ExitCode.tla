----------------------------- MODULE ExitCode -----------------------------
(***************************************************************************)
(* The bytes at the end of a block (gen/instr/core/                        *)
(* translate_controlflow.c, gen/instr/pseudo/translate_pseudo.c): compare, *)
(* dummy jumps that are replaced once their targets are known, direct      *)
(* jumps to blocks that are in the cache, and the sites that chain         *)
(* overwrites later, while the code around them is in use.                 *)
(*                                                                         *)
(* `text` maps the address of a host instruction to the instruction; what  *)
(* is overwritten partly is no instruction any more.  Lengths are those    *)
(* of the x86-64 encodings.  One block, at guest address 0, has the exit   *)
(* under study; all others end in a JALR to any address.  Translator takes *)
(* an exit as one step; this module is what that step stands for.          *)
(***************************************************************************)
EXTENDS Words

CONSTANTS Exits,   \* ends of the block: [kind, mnem, zero, target]
          Gaps     \* bytes of other code emitted between two blocks

Addrs == 0 .. 2    \* guest addresses: the block, the next one, another one
next == 1

BranchOps == {"BEQ", "BNE", "BLT", "BGE", "BLTU", "BGEU"}

ASSUME ExitsAssumption ==
    Exits \subseteq [kind : {"BRANCH"}, mnem : BranchOps, zero : BOOLEAN, target : Addrs]
                    \cup [kind : {"JAL", "PC_NEXT_INST"}, target : Addrs]
ASSUME GapsAssumption == Gaps \subseteq Nat

UNSEEN_CODE == 0
TRANSLATION_STARTED == 1
TEXT == 16                      \* where the code memory starts

VARIABLES exit,        \* the end of the block at 0
          flag_chain,  \* flag_translate_opt_chain
          cache,       \* guest address -> location
          text, currentPos,
          chain_end, chain_type,
          mode,        \* "loop" in transcode_loop, "run" in emitted code
          host,        \* ip, ax, what was compared last, and the guest's pc
          guest,       \* rs1 and rs2, and the address the guest goes to next
          returns      \* of the block at 0 to the main loop, by that address

vars == <<exit, flag_chain, cache, text, currentPos, chain_end, chain_type, mode, host, guest,
          returns>>

-----------------------------------------------------------------------------
(* The encoder.                                                            *)

I(op, len, v) == [op |-> op, len |-> len, v |-> v]

\* A jump takes the short form when the target is near, unless FE_JMPL asks for
\* the long one.
Jump(cc, from, to, jmpl) ==
    LET near == ~jmpl /\ to - (from + 2) \in -128 .. 127
    IN  [op |-> cc, v |-> to, len |-> IF near THEN 2 ELSE IF cc = "JMP" THEN 5 ELSE 6]

Put(t, p, i) ==
    LET whole == {q \in DOMAIN t : q + t[q].len <= p \/ q >= p + i.len}
    IN  [q \in whole \cup {p} |-> IF q = p THEN i ELSE t[q]]

\* e: the text and the position that fe_enc64 advances.
Enc(e, i) == [text |-> Put(e.text, e.at, i), at |-> e.at + i.len]
Emit(e, first, second) == Enc(Enc(e, first), second)
PutAt(e, p, i) == [e EXCEPT !.text = Put(@, p, i)]

-----------------------------------------------------------------------------
(* What is emitted.                                                        *)

\* The straight-line part of a block, and the write-backs of the replacements.
Body(a) == I("BODY", 4, a)
WriteBacks == I("MOV", 8, 0)

LeaAx == I("LEA_AX", 7, 0)
MovAx(v) == I("MOV_AX", 7, v)
SaveSite == I("MOV_CHAIN_END", 8, 0)
NoSite == I("CHAIN_END_NULL", 12, 0)
SaveType(cc) == I("MOV_CHAIN_TYPE", 11, cc)
MovPc(a) == I("MOV_PC", 12, a)
MovPcAx == I("MOV_PC_AX", 8, 0)
Ret == I("RET", 1, 0)

\* A block that is in the cache and ready.
Ready(c, a) == flag_chain /\ c[a] \notin {UNSEEN_CODE, TRANSLATION_STARTED}

\* The site of an unconditional exit is the instruction after the LEA.
SiteHere(e) == IF flag_chain THEN Emit(Enc(e, LeaAx), SaveSite, SaveType("JMP")) ELSE e

\* Mutant: to be patched with an unconditional jump, like the other exit.
SiteUnconditional(e, noJmpLoc, cc) ==
    IF flag_chain THEN Emit(Enc(e, MovAx(noJmpLoc - 6)), SaveSite, SaveType("JMP")) ELSE e

SiteBefore(e, noJmpLoc, cc) ==
    IF flag_chain THEN Emit(Enc(e, MovAx(noJmpLoc - 6)), SaveSite, SaveType(cc)) ELSE e

\* Mutant: the dummy takes the short form.
DummyShort(cc, at) == Jump(cc, at, at, FALSE)
Dummy(cc, at) == Jump(cc, at, at, TRUE)

\* The jump past the taken exit, when the branch is not taken.
NotTaken == [BEQ |-> "JNZ", BNE |-> "JZ", BLT |-> "JGE", BGE |-> "JL",
             BLTU |-> "JNC", BGEU |-> "JC"]

translate_controlflow_cmp_rs1_rs2(e, x) ==
    Emit(e, I(IF x.zero THEN "TEST" ELSE "CMP", 3, 0), WriteBacks)

translate_controlflow_set_pc2(e, c, x, jump_b, cc) ==
    LET taken == IF Ready(c, x.target)
                 THEN Enc(e, Jump("JMP", e.at, c[x.target], FALSE))
                 ELSE Enc(SiteHere(e), MovPc(x.target))
        endJmpLoc == taken.at
        dummy == Enc(taken, Jump("JMP", endJmpLoc, endJmpLoc, FALSE))
        noJmpLoc == jump_b + 6
        other == IF Ready(c, next)
                 THEN PutAt(dummy, jump_b, Jump(cc, jump_b, c[next], TRUE))
                 ELSE Enc(SiteBefore(PutAt(dummy, jump_b, Jump(cc, jump_b, dummy.at, TRUE)),
                                     noJmpLoc, cc),
                          MovPc(next))
    IN  PutAt(other, endJmpLoc, Jump("JMP", endJmpLoc, other.at, FALSE))

translate_branch(e, c, x) ==
    LET compared == translate_controlflow_cmp_rs1_rs2(e, x)
        cc == NotTaken[x.mnem]
        jump == Enc(compared, Dummy(cc, compared.at))
    IN  translate_controlflow_set_pc2(jump, c, x, compared.at, cc)

translate_JAL(e, c, x) ==
    LET written == Enc(e, WriteBacks)
    IN  IF Ready(c, x.target) THEN Enc(written, Jump("JMP", written.at, c[x.target], FALSE))
        ELSE Enc(SiteHere(written), MovPc(x.target))

translate_PC_NEXT_INST(e) ==
    Emit(SiteHere(Enc(e, WriteBacks)), MovAx(next), MovPcAx)

\* Without an AUIPC before it and without the return stack.
translate_JALR(e) ==
    LET read == Emit(e, WriteBacks, I("MOV_AX_RS1", 8, 0))
    IN  Enc(IF flag_chain THEN Enc(read, NoSite) ELSE read, MovPcAx)

\* The text with the block of a, and the end of it, aligned.
Align(p) == ((p + 15) \div 16) * 16

translate_block(a, c, t, at) ==
    LET e == Enc([text |-> t, at |-> at], Body(a))
        x == CASE a # 0 -> translate_JALR(e)
               [] a = 0 /\ exit.kind = "BRANCH" -> translate_branch(e, c, exit)
               [] a = 0 /\ exit.kind = "JAL" -> translate_JAL(e, c, exit)
               [] a = 0 /\ exit.kind = "PC_NEXT_INST" -> translate_PC_NEXT_INST(e)
        r == Enc(x, [Ret EXCEPT !.v = a])
    IN  [text |-> r.text, at |-> Align(r.at)]

-----------------------------------------------------------------------------

Init == /\ exit \in Exits /\ flag_chain \in BOOLEAN
        /\ cache = [a \in Addrs |-> UNSEEN_CODE]
        /\ text = << >> /\ currentPos = TEXT
        /\ chain_end = 0 /\ chain_type = "JMP"
        /\ mode = "loop"
        /\ \E a \in Addrs :
              /\ host = [ip |-> 0, ax |-> 0, x |-> 0, y |-> 0, pc |-> a]
              /\ guest = [rs1 |-> 0, rs2 |-> 0, due |-> a]
        /\ returns = [a \in Addrs |-> 0]

\* When jumps are followed, parse_block translates the target of a JAL first.
TranslateTarget ==
    /\ mode = "loop" /\ cache[host.pc] = UNSEEN_CODE
    /\ host.pc = 0 /\ exit.kind = "JAL" /\ exit.target # 0 /\ cache[exit.target] = UNSEEN_CODE
    /\ \E gap \in Gaps :
          LET at == currentPos + Align(gap)
              b == translate_block(exit.target, cache, text, at)
          IN  /\ text' = b.text /\ currentPos' = b.at
              /\ cache' = [cache EXCEPT ![exit.target] = at]
    /\ UNCHANGED <<exit, flag_chain, chain_end, chain_type, mode, host, guest, returns>>

\* Two levels down, the block at 0 is translated while the address a between is
\* marked: an exit that leads to a is emitted for the main loop.
TranslateNested ==
    /\ mode = "loop" /\ host.pc # 0
    /\ \A a \in Addrs : cache[a] = UNSEEN_CODE
    /\ \E gap \in Gaps, a \in Addrs \ {0, host.pc} :
          LET marked == [cache EXCEPT ![a] = TRANSLATION_STARTED]
              at == currentPos + Align(gap)
              b == translate_block(0, marked, text, at)
              d == translate_block(a, [marked EXCEPT ![0] = at], b.text, b.at)
          IN  /\ text' = d.text /\ currentPos' = d.at
              /\ cache' = [cache EXCEPT ![0] = at, ![a] = b.at]
    /\ UNCHANGED <<exit, flag_chain, chain_end, chain_type, mode, host, guest, returns>>

\* The main loop translates what comes next.
TranslateNext ==
    /\ mode = "loop" /\ cache[host.pc] = UNSEEN_CODE
    /\ \E gap \in Gaps :
          LET at == currentPos + Align(gap)
              b == translate_block(host.pc, cache, text, at)
          IN  /\ text' = b.text /\ currentPos' = b.at
              /\ cache' = [cache EXCEPT ![host.pc] = at]
    /\ UNCHANGED <<exit, flag_chain, chain_end, chain_type, mode, host, guest, returns>>

\* Mutant: the site is forgotten, not overwritten.
chain_forgets(t, target) == t

\* The jump that is written over the site.
chain(t, target) ==
    IF flag_chain /\ chain_end # 0
    THEN Put(t, chain_end, Jump(chain_type, chain_end, target, TRUE)) ELSE t

Execute ==
    /\ mode = "loop" /\ cache[host.pc] # UNSEEN_CODE
    /\ text' = chain(text, cache[host.pc])
    /\ chain_end' = IF flag_chain THEN 0 ELSE chain_end
    /\ mode' = "run"
    /\ host' = [host EXCEPT !.ip = cache[host.pc]]
    /\ UNCHANGED <<exit, flag_chain, cache, currentPos, chain_type, guest, returns>>

-----------------------------------------------------------------------------
(* One host instruction.                                                   *)

\* CMP x, y, and TEST x, x, which is CMP x, 0.
Holds(cc) ==
    CASE cc = "JZ"  -> host.x = host.y
      [] cc = "JNZ" -> host.x # host.y
      [] cc = "JC"  -> host.x < host.y
      [] cc = "JNC" -> host.x >= host.y
      [] cc = "JL"  -> Signed(host.x) < Signed(host.y)
      [] cc = "JGE" -> Signed(host.x) >= Signed(host.y)
      [] cc = "JMP" -> TRUE

Jumps == {"JZ", "JNZ", "JC", "JNC", "JL", "JGE", "JMP"}

Fetched(op) == mode = "run" /\ host.ip \in DOMAIN text /\ text[host.ip].op = op
i == text[host.ip]
After == host.ip + i.len

\* What the guest's instruction at the end of a block does.
Taken(a, b) ==
    CASE exit.mnem = "BEQ"  -> a = b
      [] exit.mnem = "BNE"  -> a # b
      [] exit.mnem = "BLT"  -> Signed(a) < Signed(b)
      [] exit.mnem = "BGE"  -> Signed(a) >= Signed(b)
      [] exit.mnem = "BLTU" -> a < b
      [] exit.mnem = "BGEU" -> a >= b

Follows(a, b) ==
    CASE exit.kind = "BRANCH" -> IF Taken(a, b) THEN exit.target ELSE next
      [] exit.kind = "JAL" -> exit.target
      [] exit.kind = "PC_NEXT_INST" -> next

RunBody ==
    /\ Fetched("BODY")
    /\ IF i.v = 0
       THEN \E a, b \in Word :
               /\ exit.kind # "BRANCH" => a = 0
               /\ exit.kind # "BRANCH" \/ exit.zero => b = 0
               /\ guest' = [rs1 |-> a, rs2 |-> b, due |-> Follows(a, b)]
       ELSE \E a \in Addrs : guest' = [guest EXCEPT !.due = a]
    /\ host' = [host EXCEPT !.ip = After]
    /\ UNCHANGED <<exit, flag_chain, cache, text, currentPos, chain_end, chain_type, mode, returns>>

RunCompare ==
    /\ Fetched("CMP") \/ Fetched("TEST")
    /\ host' = [host EXCEPT !.ip = After, !.x = guest.rs1,
                            !.y = IF i.op = "TEST" THEN 0 ELSE guest.rs2]
    /\ UNCHANGED <<exit, flag_chain, cache, text, currentPos, chain_end, chain_type, mode, guest,
                   returns>>

RunJump ==
    /\ \E cc \in Jumps : Fetched(cc)
    /\ host' = [host EXCEPT !.ip = IF Holds(i.op) THEN i.v ELSE After]
    /\ UNCHANGED <<exit, flag_chain, cache, text, currentPos, chain_end, chain_type, mode, guest,
                   returns>>

RunMove ==
    /\ \/ /\ Fetched("MOV")       /\ host' = [host EXCEPT !.ip = After]
       \/ /\ Fetched("LEA_AX")    /\ host' = [host EXCEPT !.ip = After, !.ax = After]
       \/ /\ Fetched("MOV_AX")    /\ host' = [host EXCEPT !.ip = After, !.ax = i.v]
       \/ /\ Fetched("MOV_AX_RS1") /\ host' = [host EXCEPT !.ip = After, !.ax = guest.due]
       \/ /\ Fetched("MOV_PC")    /\ host' = [host EXCEPT !.ip = After, !.pc = i.v]
       \/ /\ Fetched("MOV_PC_AX") /\ host' = [host EXCEPT !.ip = After, !.pc = host.ax]
    /\ UNCHANGED <<exit, flag_chain, cache, text, currentPos, chain_end, chain_type, mode, guest,
                   returns>>

RunSite ==
    /\ \/ Fetched("MOV_CHAIN_END")  /\ chain_end' = host.ax /\ UNCHANGED chain_type
       \/ Fetched("CHAIN_END_NULL") /\ chain_end' = 0 /\ UNCHANGED chain_type
       \/ Fetched("MOV_CHAIN_TYPE") /\ chain_type' = i.v /\ UNCHANGED chain_end
    /\ host' = [host EXCEPT !.ip = After]
    /\ UNCHANGED <<exit, flag_chain, cache, text, currentPos, mode, guest, returns>>

\* Three returns to one address are counted as two.
RunRet ==
    /\ Fetched("RET")
    /\ mode' = "loop"
    /\ returns' = IF i.v = 0 THEN [returns EXCEPT ![guest.due] = IF @ < 3 THEN @ + 1 ELSE 3] ELSE returns
    /\ UNCHANGED <<exit, flag_chain, cache, text, currentPos, chain_end, chain_type, host, guest>>

Next == \/ TranslateTarget \/ TranslateNested \/ TranslateNext \/ Execute
        \/ RunBody \/ RunCompare \/ RunJump \/ RunMove \/ RunSite \/ RunRet

Spec == Init /\ [][Next]_vars

-----------------------------------------------------------------------------

TypeOK ==
    /\ exit \in Exits /\ flag_chain \in BOOLEAN
    /\ cache \in [Addrs -> {UNSEEN_CODE} \cup DOMAIN text]
    /\ chain_end \in {0} \cup DOMAIN text /\ chain_type \in Jumps
    /\ mode \in {"loop", "run"}
    /\ guest.rs1 \in Word /\ guest.rs2 \in Word /\ guest.due \in Addrs
    /\ returns \in [Addrs -> 0 .. 3]

(***************************************************************************)
(* The guest goes where its instruction leads: a block is only entered,    *)
(* and the main loop only reached, with the address the branch, the jump   *)
(* or the end of the buffer leads to - by way of the main loop, of a       *)
(* direct jump or of a patched one, whichever of the two exits of a branch *)
(* was patched, in either order, and whatever both exits left behind.      *)
(***************************************************************************)
Continues ==
    /\ mode = "loop" => host.pc = guest.due
    /\ mode = "run" => \A a \in Addrs : host.ip = cache[a] => guest.due = a

(***************************************************************************)
(* No replaced dummy and no patch cuts an instruction that is still        *)
(* executed: execution always meets the start of an instruction (chain     *)
(* writes five or six bytes over instructions of seven and more, and the   *)
(* dummies are replaced after the code behind them is emitted).            *)
(***************************************************************************)
WholeInstructions == mode = "run" => host.ip \in DOMAIN text

(***************************************************************************)
(* Chaining works: each exit of the block comes back to the main loop once *)
(* at most, and leads to the following block directly from then on         *)
(* ("inserts direct jumps after first cache lookup in main",               *)
(* gen/translate.c:535).                                                   *)
(***************************************************************************)
OnceThroughLoop ==
    flag_chain => \A a \in Addrs :
        returns[a] <= IF exit.kind = "BRANCH" /\ exit.target = next THEN 2 ELSE 1
=============================================================================
