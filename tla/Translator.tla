----------------------------- MODULE Translator -----------------------------
(***************************************************************************)
(* The dynamic binary translator: the main loop (main.c), the recursive    *)
(* translation of basic blocks (translate.c), the code they emit for       *)
(* jumps, calls, returns and branches (translate_controlflow.c,            *)
(* return_stack.c, translate_pseudo.c), and the execution of that code,    *)
(* which jumps from block to block, patches itself through chain_end, and  *)
(* predicts returns with the return stack.                                 *)
(*                                                                         *)
(* A guest address counts instructions.  A block's location is its number  *)
(* in `code` plus one, since 0 is UNSEEN_CODE and 1 TRANSLATION_STARTED.   *)
(* Only the control flow is modelled: NOP stands for every instruction     *)
(* that neither jumps nor writes a register that holds an address.         *)
(***************************************************************************)
EXTENDS Integers, Sequences

CONSTANTS Programs,            \* guest programs, each address -> instruction
          FlagSets,            \* settings of the optimisation flags
          BLOCK_CACHE_SIZE,    \* maxCount of translate_block
          RAS_SIZE             \* entries of the return stack

VARIABLES program, flags,
          cache,       \* address -> location, of the addresses it holds
          code,        \* the emitted blocks, patched by chain
          frames,      \* the running calls of translate_block, innermost last
          mode,        \* what the process does
          at,          \* the host instruction to execute: block and position
          next_pc,     \* the guest pc in the register file
          regs,        \* guest registers that hold addresses
          r_stack, rs_front,
          chain_end    \* the slot to patch, or NoSite

input == <<program, flags>>
guest == <<regs, r_stack, rs_front>>
vars  == <<program, flags, cache, code, frames, mode, at, next_pc, regs,
           r_stack, rs_front, chain_end>>

UNSEEN_CODE == 0
TRANSLATION_STARTED == 1

RegNames == {"x0", "x1", "x5", "x6"}
LinkRegs == {"x1", "x5"}

Instructions == [op : {"NOP", "FENCE", "AUIPC", "JAL", "JALR", "BRANCH", "ECALL", "INVALID"},
                 rd : RegNames, rs1 : RegNames, imm : Int]

ASSUME BlockCacheAssumption == BLOCK_CACHE_SIZE \in Nat /\ BLOCK_CACHE_SIZE >= 2
ASSUME ProgramsAssumption == \A p \in Programs : p \in Seq(Instructions)
ASSUME RasAssumption == RAS_SIZE \in Nat /\ RAS_SIZE >= 1

INVALID == [op |-> "INVALID", rd |-> "x0", rs1 |-> "x0", imm |-> 0]

InstrAt(a) == IF a \in DOMAIN program THEN program[a] ELSE INVALID

-----------------------------------------------------------------------------
(* The cache, through its interface (CodeCache is the table behind it). *)

lookup_cache_entry(a) == IF a \in DOMAIN cache THEN cache[a] ELSE UNSEEN_CODE

set_cache_entry(a, l) ==
    cache' = [x \in DOMAIN cache \cup {a} |-> IF x = a THEN l ELSE cache[x]]

IsBlock(l) == l # UNSEEN_CODE /\ l # TRANSLATION_STARTED

BlockAt(l) == code[l - 1]

-----------------------------------------------------------------------------
(* Parsing.  A frame is one call of translate_block: the block's address,  *)
(* the next address to parse, the parsed instructions, the control         *)
(* instruction that ended the block (or NoEnd), and the addresses that     *)
(* parse_block still has to translate before it returns.                   *)

NoEnd == [kind |-> "none", at |-> 0, rd |-> "x0", rs1 |-> "x0", imm |-> 0,
          paired |-> FALSE]

NewFrame(a) == [start |-> a, risc_addr |-> a, buf |-> <<>>, end |-> NoEnd,
                todo |-> <<>>]

Top == frames[Len(frames)]

SetTop(f) == frames' = [frames EXCEPT ![Len(frames)] = f]

maxCount == IF flags.single_step THEN 2 ELSE BLOCK_CACHE_SIZE

\* The loop condition of parse_block: the last slot is kept for PC_NEXT_INST.
RoomLeft(f) == Len(f.buf) < maxCount - 1

Parsing(f) == f.end = NoEnd

\* A parsed instruction in the buffer.
Parsed(f, i) == Append(f.buf, [at |-> f.risc_addr, op |-> i.op, rd |-> i.rd, imm |-> i.imm])

EndWith(f, kind, i) == [kind |-> kind, at |-> f.risc_addr, rd |-> i.rd,
                        rs1 |-> i.rs1, imm |-> i.imm, paired |-> FALSE]

\* JALR whose target the AUIPC before it in the buffer makes known.
AuipcBefore(f, i) == /\ Len(f.buf) > 0
                     /\ LET p == f.buf[Len(f.buf)] IN
                           p.op = "AUIPC" /\ p.rd # "x0" /\ i.rs1 = p.rd

\* Default: the next instruction follows.
ParsePlain(f, i) ==
    /\ i.op \in {"NOP", "AUIPC"}
    /\ SetTop([f EXCEPT !.buf = Parsed(f, i), !.risc_addr = @ + 1])

\* Mutant: the address is not advanced.
ParseFenceAgain(f, i) == i.op = "FENCE" /\ SetTop(f)

\* FENCE and FENCE_I leave the buffer as it is.
ParseFence(f, i) ==
    /\ i.op = "FENCE"
    /\ SetTop([f EXCEPT !.risc_addr = @ + 1])

\* INVALID (and EBREAK), ECALL, and branches end the block; so does JAL when
\* jumps are not followed.
ParseEnd(f, i) ==
    /\ i.op \in {"INVALID", "ECALL", "BRANCH"} \/ (i.op = "JAL" /\ ~flags.jump)
    /\ SetTop([f EXCEPT !.end = EndWith(f, i.op, i)])

\* JAL x0: the block goes on at the target.
FollowJal(f, i) ==
    /\ i.op = "JAL" /\ flags.jump /\ i.rd = "x0"
    /\ SetTop([f EXCEPT !.buf = Parsed(f, [i EXCEPT !.op = "AUIPC", !.imm = 1]),
                        !.risc_addr = @ + i.imm])

\* Any other JAL ends the block, after its target and, of a call, its return
\* address have been translated.
ParseJal(f, i) ==
    /\ i.op = "JAL" /\ flags.jump /\ i.rd # "x0"
    /\ SetTop([f EXCEPT !.end = EndWith(f, "JAL", i),
                        !.todo = <<f.risc_addr + i.imm>> \o
                                 IF i.rd \in LinkRegs THEN <<f.risc_addr + 1>> ELSE <<>>])

ParseJalr(f, i) ==
    LET paired == flags.jump /\ AuipcBefore(f, i)
        ret    == f.risc_addr + 1
    IN /\ i.op = "JALR"
       /\ SetTop([f EXCEPT
            !.end = [EndWith(f, "JALR", i) EXCEPT !.paired = paired],
            !.todo = (IF flags.ras /\ i.rd \in LinkRegs THEN <<ret>> ELSE <<>>) \o
                     IF paired
                     THEN <<ret, (f.risc_addr - 1) + f.buf[Len(f.buf)].imm + i.imm>>
                     ELSE <<>>])

ParseInstr ==
    /\ mode = "translate" /\ Parsing(Top) /\ RoomLeft(Top)
    /\ LET f == Top
           i == InstrAt(f.risc_addr)
       IN \/ ParsePlain(f, i) \/ ParseFence(f, i) \/ ParseEnd(f, i)
          \/ FollowJal(f, i) \/ ParseJal(f, i) \/ ParseJalr(f, i)
    /\ UNCHANGED <<input, cache, code, mode, at, next_pc, guest, chain_end>>

\* Mutant: the pseudo instruction sets the address after the next.
ParseFullSkipsOne ==
    /\ mode = "translate" /\ Parsing(Top) /\ ~RoomLeft(Top)
    /\ SetTop([Top EXCEPT !.end =
                 [EndWith(Top, "PC_NEXT_INST", INVALID) EXCEPT !.at = @ + 1]])
    /\ UNCHANGED <<input, cache, code, mode, at, next_pc, guest, chain_end>>

\* The buffer is full: the pseudo instruction that sets the pc ends the block.
ParseFull ==
    /\ mode = "translate" /\ Parsing(Top) /\ ~RoomLeft(Top)
    /\ SetTop([Top EXCEPT !.end = EndWith(Top, "PC_NEXT_INST", INVALID)])
    /\ UNCHANGED <<input, cache, code, mode, at, next_pc, guest, chain_end>>

\* A target that is cached, or that an outer call is translating, is left alone.
SkipTarget ==
    /\ mode = "translate" /\ Top.todo # <<>>
    /\ lookup_cache_entry(Head(Top.todo)) # UNSEEN_CODE
    /\ SetTop([Top EXCEPT !.todo = Tail(@)])
    /\ UNCHANGED <<input, cache, code, mode, at, next_pc, guest, chain_end>>

\* Mutant: the target is not marked before the recursion.
RecurseUnmarked ==
    /\ mode = "translate" /\ Top.todo # <<>>
    /\ lookup_cache_entry(Head(Top.todo)) = UNSEEN_CODE
    /\ frames' = Append([frames EXCEPT ![Len(frames)].todo = Tail(@)],
                        NewFrame(Head(Top.todo)))
    /\ UNCHANGED <<input, cache, code, mode, at, next_pc, guest, chain_end>>

\* Mutant: a target that is cached is translated again.
RecurseAlways ==
    /\ mode = "translate" /\ Top.todo # <<>>
    /\ set_cache_entry(Head(Top.todo), TRANSLATION_STARTED)
    /\ frames' = Append([frames EXCEPT ![Len(frames)].todo = Tail(@)],
                        NewFrame(Head(Top.todo)))
    /\ UNCHANGED <<input, code, mode, at, next_pc, guest, chain_end>>

\* Any other is marked and translated by a recursive call.
RecurseInto ==
    /\ mode = "translate" /\ Top.todo # <<>>
    /\ LET target == Head(Top.todo) IN
         /\ lookup_cache_entry(target) = UNSEEN_CODE
         /\ set_cache_entry(target, TRANSLATION_STARTED)
         /\ frames' = Append([frames EXCEPT ![Len(frames)].todo = Tail(@)],
                             NewFrame(target))
    /\ UNCHANGED <<input, code, mode, at, next_pc, guest, chain_end>>

-----------------------------------------------------------------------------
(* Emission.  A slot is a place that jumps to a fixed guest address: with  *)
(* a direct jump when `jump` is a location, otherwise by way of chain_end  *)
(* and the main loop.                                                      *)

NoPush == -1

\* Mutant: TRANSLATION_STARTED is taken for a location.
SlotToStarted(target) ==
    [target |-> target,
     jump   |-> IF flags.chain THEN lookup_cache_entry(target) ELSE UNSEEN_CODE]

Slot(target) ==
    [target |-> target,
     jump   |-> IF flags.chain /\ IsBlock(lookup_cache_entry(target))
                THEN lookup_cache_entry(target) ELSE UNSEEN_CODE]

\* translate_JALR parses the instruction before it again for its immediate.
JalrTarget(e) == (e.at - 1) + InstrAt(e.at - 1).imm + e.imm

Slots(e) ==
    CASE e.kind = "JAL" -> <<Slot(e.at + e.imm)>>
      [] e.kind = "BRANCH" -> <<Slot(e.at + e.imm), Slot(e.at + 1)>>
      [] e.kind = "PC_NEXT_INST" -> <<[target |-> e.at, jump |-> UNSEEN_CODE]>>
      [] e.kind = "JALR" /\ e.paired /\ flags.chain -> <<Slot(JalrTarget(e))>>
      [] OTHER -> <<>>

\* Mutant: TRANSLATION_STARTED is pushed as well.
PushOfStarted(e) ==
    IF flags.ras /\ e.kind \in {"JAL", "JALR"} /\ e.rd \in LinkRegs
    THEN lookup_cache_entry(e.at + 1) ELSE NoPush

\* rs_emit_push: nothing while the return address is still being translated.
PushOf(e) ==
    IF /\ flags.ras /\ e.kind \in {"JAL", "JALR"} /\ e.rd \in LinkRegs
       /\ lookup_cache_entry(e.at + 1) # TRANSLATION_STARTED
    THEN lookup_cache_entry(e.at + 1) ELSE NoPush

\* rs_emit_pop_RAX is emitted, to jump on a hit (pop), or to push in between.
PopOf(e) ==
    /\ flags.ras /\ e.kind = "JALR"
    /\ e.rs1 \in LinkRegs /\ e.rd # e.rs1

EmittedBlock(f) == [addr |-> f.start, items |-> f.buf, exit |-> f.end,
                    slots |-> Slots(f.end), push |-> PushOf(f.end), pop |-> PopOf(f.end)]

\* Mutant: the block is cached under the address that follows it.
FinishBlockAtEnd ==
    /\ mode = "translate" /\ ~Parsing(Top) /\ Top.todo = <<>>
    /\ code' = Append(code, EmittedBlock(Top))
    /\ set_cache_entry(Top.risc_addr, Len(code) + 2)
    /\ frames' = SubSeq(frames, 1, Len(frames) - 1)
    /\ mode' = IF Len(frames) = 1 THEN "loop" ELSE "translate"
    /\ UNCHANGED <<input, at, next_pc, guest, chain_end>>

\* translate_block_instructions, the return of translate_block, and the
\* set_cache_entry of its caller: an outer parse_block or the main loop.
FinishBlock ==
    /\ mode = "translate" /\ ~Parsing(Top) /\ Top.todo = <<>>
    /\ code' = Append(code, EmittedBlock(Top))
    /\ set_cache_entry(Top.start, Len(code) + 2)
    /\ frames' = SubSeq(frames, 1, Len(frames) - 1)
    /\ mode' = IF Len(frames) = 1 THEN "loop" ELSE "translate"
    /\ UNCHANGED <<input, at, next_pc, guest, chain_end>>

-----------------------------------------------------------------------------
(* The main loop. *)

NoSite == <<>>

\* The location has no block behind it: the process dies there.
Enter(l) == IF l - 1 \in DOMAIN code
            THEN mode' = "run" /\ at' = [block |-> l, pos |-> 1]
            ELSE mode' = "crash" /\ at' = [block |-> l, pos |-> 1]

LookupUnseen ==
    /\ mode = "loop"
    /\ lookup_cache_entry(next_pc) = UNSEEN_CODE
    /\ frames' = <<NewFrame(next_pc)>>
    /\ mode' = "translate"
    /\ UNCHANGED <<input, cache, code, at, next_pc, guest, chain_end>>

\* chain: the slot the last block left through becomes a direct jump.
chain(l) ==
    IF flags.chain /\ chain_end # NoSite
    THEN /\ code' = [code EXCEPT ![chain_end[1] - 1].slots[chain_end[2]].jump = l]
         /\ chain_end' = NoSite
    ELSE UNCHANGED <<code, chain_end>>

Execute ==
    /\ mode = "loop"
    /\ lookup_cache_entry(next_pc) # UNSEEN_CODE
    /\ chain(lookup_cache_entry(next_pc))
    /\ Enter(lookup_cache_entry(next_pc))
    /\ UNCHANGED <<input, cache, frames, next_pc, guest>>

-----------------------------------------------------------------------------
(* Execution of the emitted code. *)

Current == BlockAt(at.block)

WriteReg(r, v) == IF r = "x0" THEN regs ELSE [regs EXCEPT ![r] = v]

ExecItem ==
    /\ mode = "run" /\ at.pos <= Len(Current.items)
    /\ LET item == Current.items[at.pos] IN
         regs' = IF item.op = "AUIPC" THEN WriteReg(item.rd, item.at + item.imm) ELSE regs
    /\ at' = [at EXCEPT !.pos = @ + 1]
    /\ UNCHANGED <<input, cache, code, frames, mode, next_pc, r_stack, rs_front, chain_end>>

ExecExit(kind) ==
    /\ mode = "run" /\ at.pos > Len(Current.items) /\ Current.exit.kind = kind
    /\ UNCHANGED <<input, cache, code, frames>>

\* Back to the main loop, which goes on at guest address a.
Leave(a) == mode' = "loop" /\ next_pc' = a /\ at' = at

\* Mutant: chain_end is always the first exit of the block.
TakeSlotFirst(k) ==
    LET slot == Current.slots[k] IN
    \/ /\ slot.jump # UNSEEN_CODE
       /\ Enter(slot.jump)
       /\ UNCHANGED <<next_pc, chain_end>>
    \/ /\ slot.jump = UNSEEN_CODE
       /\ Leave(slot.target)
       /\ chain_end' = IF flags.chain THEN <<at.block, 1>> ELSE chain_end

TakeSlot(k) ==
    LET slot == Current.slots[k] IN
    \/ /\ slot.jump # UNSEEN_CODE
       /\ Enter(slot.jump)
       /\ UNCHANGED <<next_pc, chain_end>>
    \/ /\ slot.jump = UNSEEN_CODE
       /\ Leave(slot.target)
       /\ chain_end' = IF flags.chain THEN <<at.block, k>> ELSE chain_end

\* The exits that nothing may be chained to reset chain_end.
LeaveUnchained(a) ==
    /\ Leave(a)
    /\ chain_end' = IF flags.chain THEN NoSite ELSE chain_end

NextFront(f) == (f + 1) % RAS_SIZE
PrevFront(f) == (f + RAS_SIZE - 1) % RAS_SIZE

\* The effect on the return stack of an optional push when the front is f.
PushFrom(f) ==
    LET e == Current.exit IN
    IF Current.push = NoPush
    THEN r_stack' = r_stack /\ rs_front' = f
    ELSE /\ r_stack' = [r_stack EXCEPT ![NextFront(f)] =
                          [risc_addr |-> e.at + 1, x86_addr |-> Current.push]]
         /\ rs_front' = NextFront(f)

Link == regs' = WriteReg(Current.exit.rd, Current.exit.at + 1)

ExecJal == /\ ExecExit("JAL")
           /\ Link
           /\ PushFrom(rs_front)
           /\ TakeSlot(1)

ExecBranch == /\ ExecExit("BRANCH")
              /\ TakeSlot(1) \/ TakeSlot(2)
              /\ UNCHANGED guest

ExecPcNext == /\ ExecExit("PC_NEXT_INST")
              /\ TakeSlot(1)
              /\ UNCHANGED guest

\* The emulated call sets the pc, and finalize when it is exit or exit_group.
ExecEcall == /\ ExecExit("ECALL")
             /\ LeaveUnchained(Current.exit.at + 1)
             /\ UNCHANGED guest

ExecExitCall == /\ ExecExit("ECALL")
                /\ mode' = "done" /\ next_pc' = Current.exit.at + 1
                /\ chain_end' = IF flags.chain THEN NoSite ELSE chain_end
                /\ UNCHANGED <<at, guest>>

\* invalid_error_handler ends the process.
ExecInvalid == /\ ExecExit("INVALID")
               /\ mode' = "panic"
               /\ UNCHANGED <<at, next_pc, guest, chain_end>>

\* What RIP is in the block: no address of the guest program.
HostPc == -1

\* The end of a JALR that the return stack has not answered.  Where the target
\* is known but not cached, RAX has been loaded with the place to patch before
\* it is written to the pc.
JalrLeaves(target) ==
    CASE Current.slots = <<>> -> LeaveUnchained(target)
      [] Current.slots # <<>> /\ Current.slots[1].jump # UNSEEN_CODE ->
            Enter(Current.slots[1].jump) /\ UNCHANGED <<next_pc, chain_end>>
      [] OTHER ->
            Leave(HostPc) /\ chain_end' = <<at.block, 1>>

ExecJalr ==
    /\ ExecExit("JALR")
    /\ Link
    /\ LET target == regs[Current.exit.rs1] + Current.exit.imm
           top    == r_stack[rs_front]
           hit    == Current.pop /\ top.risc_addr = target
           pushes == Current.exit.rd \in LinkRegs
       IN \/ /\ hit /\ ~pushes
             /\ rs_front' = PrevFront(rs_front) /\ UNCHANGED r_stack
             /\ Enter(top.x86_addr)
             /\ UNCHANGED <<next_pc, chain_end>>
          \/ /\ hit /\ pushes
             /\ PushFrom(PrevFront(rs_front))
             /\ IF top.x86_addr # UNSEEN_CODE
                THEN Enter(top.x86_addr) /\ UNCHANGED <<next_pc, chain_end>>
                ELSE JalrLeaves(target)
          \/ /\ ~hit
             /\ PushFrom(rs_front)
             /\ JalrLeaves(target)

\* The process has ended.
Ended == mode \in {"done", "panic", "crash"} /\ UNCHANGED vars

-----------------------------------------------------------------------------

ENTRY == 1

\* The first block starts here, after a prologue that has set the registers that
\* hold addresses: none is a null pointer.
Init == /\ program \in Programs
        /\ flags \in FlagSets
        /\ cache = [a \in {} |-> UNSEEN_CODE]
        /\ code = <<>>
        /\ frames = <<>>
        /\ mode = "loop"
        /\ at = [block |-> UNSEEN_CODE, pos |-> 1]
        /\ next_pc = ENTRY
        /\ regs = [r \in RegNames |-> IF r = "x0" THEN 0 ELSE ENTRY]
        /\ r_stack = [k \in 0..(RAS_SIZE - 1) |-> [risc_addr |-> 0, x86_addr |-> UNSEEN_CODE]]
        /\ rs_front = 0
        /\ chain_end = NoSite

Translate == ParseInstr \/ ParseFull \/ SkipTarget \/ RecurseInto \/ FinishBlock

Run == \/ ExecItem \/ ExecJal \/ ExecBranch \/ ExecPcNext \/ ExecJalr
       \/ ExecEcall \/ ExecExitCall \/ ExecInvalid

Next == LookupUnseen \/ Execute \/ Translate \/ Run \/ Ended

Spec == Init /\ [][Next]_vars

\* One thread runs translator and guest in turn; nothing blocks it.
FairSpec == Spec /\ WF_vars(Next)

-----------------------------------------------------------------------------

Locations == {UNSEEN_CODE, TRANSLATION_STARTED} \cup {n + 1 : n \in 1..Len(code)}

TypeOK ==
    /\ program \in Programs /\ flags \in FlagSets
    /\ \A a \in DOMAIN cache : cache[a] \in Locations \ {UNSEEN_CODE}
    /\ mode \in {"loop", "translate", "run", "done", "panic", "crash"}
    /\ (mode = "translate") <=> (frames # <<>>)
    /\ mode = "run" => at.block - 1 \in DOMAIN code /\ at.pos \in 1..(Len(Current.items) + 1)
    /\ rs_front \in 0..(RAS_SIZE - 1)
    /\ DOMAIN r_stack = 0..(RAS_SIZE - 1)
    /\ chain_end # NoSite => /\ chain_end[1] - 1 \in DOMAIN code
                             /\ chain_end[2] \in DOMAIN BlockAt(chain_end[1]).slots

(***************************************************************************)
(* A location that the cache holds is the block of that very address, also *)
(* when nested translations have finished in between or an address was     *)
(* translated twice (the main loop does not mark its own block).           *)
(***************************************************************************)
CacheSound == \A a \in DOMAIN cache :
    IsBlock(cache[a]) => BlockAt(cache[a]).addr = a

(***************************************************************************)
(* Every direct jump in the emitted code, whether emitted as one or        *)
(* patched in later by chain, leads to the block of the guest address the  *)
(* jump stands for.  chain only sees chain_end and the next cache          *)
(* location: nothing else ties the two together.                           *)
(***************************************************************************)
SlotsSound == \A n \in DOMAIN code : \A k \in DOMAIN code[n].slots :
    LET slot == code[n].slots[k] IN
    slot.jump # UNSEEN_CODE =>
        slot.jump - 1 \in DOMAIN code /\ BlockAt(slot.jump).addr = slot.target

(***************************************************************************)
(* chain_end, when the main loop looks at it, is a slot of the block that  *)
(* just left, not patched yet, and for the address that comes next: no     *)
(* exit that cannot be chained (a return, an ecall, a return stack hit)    *)
(* leaves an older site behind.                                            *)
(***************************************************************************)
ChainEndFresh ==
    mode \in {"loop", "translate"} /\ chain_end # NoSite =>
        LET slot == BlockAt(chain_end[1]).slots[chain_end[2]] IN
        slot.target = next_pc /\ slot.jump = UNSEEN_CODE

(***************************************************************************)
(* An entry of the return stack pairs a guest return address with the      *)
(* block of that address, so that a return may jump there.                 *)
(***************************************************************************)
ReturnStackSound == \A k \in DOMAIN r_stack :
    LET e == r_stack[k] IN
    e.risc_addr # 0 => /\ e.x86_addr - 1 \in DOMAIN code
                       /\ BlockAt(e.x86_addr).addr = e.risc_addr

(***************************************************************************)
(* TRANSLATION_STARTED breaks the cycles of the recursion: it is the mark  *)
(* of the addresses being translated by a nested call and of no other.  A  *)
(* mark left behind would be executed as code at address 1 by the main     *)
(* loop; a missing one makes two nested calls translate one address.       *)
(***************************************************************************)
StartedOnStack ==
    /\ \A a \in DOMAIN cache : cache[a] = TRANSLATION_STARTED =>
          \E d \in 2..Len(frames) : frames[d].start = a
    /\ \A d, e \in 2..Len(frames) : d # e => frames[d].start # frames[e].start

(***************************************************************************)
(* A step never takes back what was translated: a cached block stays       *)
(* cached (perhaps as another block), and an emitted block changes only in *)
(* a slot that had no direct jump.                                         *)
(***************************************************************************)
TranslationStays ==
    [][/\ \A a \in DOMAIN cache : IsBlock(cache[a]) =>
              a \in DOMAIN cache' /\ IsBlock(cache'[a])
       /\ \A n \in DOMAIN code : \A k \in DOMAIN code[n].slots :
              code[n].slots[k].jump # UNSEEN_CODE =>
                  code'[n].slots[k] = code[n].slots[k]]_vars

(***************************************************************************)
(* The guest address execution has reached.                                *)
(***************************************************************************)
GuestPc ==
    CASE mode \in {"run", "panic"} /\ at.pos <= Len(Current.items) -> Current.items[at.pos].at
      [] mode \in {"run", "panic"} /\ at.pos > Len(Current.items) -> Current.exit.at
      [] mode = "crash" -> HostPc
      [] OTHER -> next_pc

\* Parsing leaves fences out, so execution is never at one.
PastFences(a) ==
    CHOOSE b \in a..(a + Len(program)) :
        /\ InstrAt(b).op # "FENCE"
        /\ \A c \in a..(b - 1) : InstrAt(c).op = "FENCE"

Guest == INSTANCE GuestMachine
            WITH pc <- PastFences(GuestPc), halted <- mode \in {"done", "panic"}

(***************************************************************************)
(* The translated program does what the guest program does: every emitted  *)
(* instruction is one step of the hart, and lookups, translations, chains  *)
(* and return stack hits are none.                                         *)
(***************************************************************************)
ImplementsGuest == Guest!Spec

(***************************************************************************)
(* Translation ends, for every call graph the program has: the recursion   *)
(* and the unrolling of jumps are bounded.                                 *)
(***************************************************************************)
TranslationEnds == (mode = "translate") ~> (mode # "translate")

(***************************************************************************)
(* A JALR that goes back to the main loop has written its target to the pc *)
(* ("the last instruction will be made to write the address next to be     *)
(* executed to the program counter").                                      *)
(***************************************************************************)
JalrWritesTarget ==
    [][ExecJalr /\ mode' = "loop" =>
         next_pc' = regs[Current.exit.rs1] + Current.exit.imm]_vars
=============================================================================
