# ria-jit in TLA+

ria-jit runs RISC-V (RV64IMAFD) Linux programs on x86-64 by dynamic binary
translation: a basic block of the guest is translated to host code when it is
first reached, cached, and executed. This directory holds TLA+ models of the
translator, TLC runs that check them on small instances, and TLAPS proofs of
results for every instance. Paths below are relative to the repository's `src/`
unless they start with `tla/`.

## The system

One thread does everything: it translates, jumps into the emitted code, comes
back, and translates more. There are no locks and no messages. What is hard is
the state that one piece of code leaves for another to use much later: a cache
that is updated by nested calls, emitted code that is patched afterwards, a
register allocator whose beliefs at translation time must be true at run time.

| component | state | operations | talks to |
|---|---|---|---|
| code cache (`cache/cache.c`) | `cache_table`, `table_size`, `count_entries`, `tlb` | `lookup_cache_entry`, `set_cache_entry` (with a recursive resize) | called by the main loop, `parse_block`, the control flow translators, `rs_emit_push` |
| main loop (`main/main.c`) | `next_pc`, `finalize` | `transcode_loop`, `execute_cached` | cache, `translate_block`, `chain`, emitted code |
| block translation (`gen/translate.c`) | the parse buffer of each running call, `block_head`, `current`, `chain_end` | `parse_block` (recursive), `translate_block_instructions`, `init_block`, `finalize_block`, `chain` | cache, parser, dispatch |
| control flow (`gen/instr/core/translate_controlflow.c`, `gen/instr/pseudo`) | none of its own; the code it emits reads and writes the pc, `chain_end`, the return stack | `translate_JAL`, `translate_JALR`, the branches, `translate_PC_NEXT_INST`, `translate_INVALID` | cache, return stack |
| return stack (`cache/return_stack.c`) | `r_stack`, `rs_front` | emitted pushes and pops | cache |
| replacement registers (`util/util.h`) | `replacement_content`, `replacement_recency`, `current_recency` | `getRs1` ... `getRdHinted`, `loadIntoReplacement`, `loadIntoSpecific`, `invalidate*` | every `translate_*` function |
| instruction translators (`gen/instr/**`) | none | one function per mnemonic | replacement registers |
| fusion (`gen/optimize.c`, `gen/instr/patterns.c`) | rewrites the parse buffer | `optimize_patterns` | `translate_block_instructions` |
| parser (`parser/parser.c`), dispatch (`gen/dispatch.c`) | none | decoding, a table of functions | `parse_block` |
| guest context (`main/context.c`, `runtime/register.c`) | register files, static mapping, the emitted load/execute/save routine | `init_map_context`, `execute_in_guest_context` | main loop, `translate_ECALL` |
| system calls (`runtime/emulateEcall.c`) | `initialBrk`, `curBrk`, `mappedBrk`, `lastHint`, `finalize` | `emulate_ecall` | emitted code, host kernel |
| CSRs and rounding (`runtime/manualCSRR.c`, `translate_csr.c`) | `fctrl_file`, MXCSR | `manual_csrr` and the rounding switches | emitted code |
| loader (`elf/loadElf.c`) | the guest's address space | `mapIntoMemory`, `createStack` | main loop |
| options (`env/opt.c`, `env/flags.c`) | the flags | `parse_cmd_arguments` | everything |
| static analysis (`util/tools/analyze.c`) | counters, lists of immediates | `add_instruction`, `analyze` | parser, loader |

What is hard in each, and what makes it correct:

* **Code cache.** Linear probing with doubling and a direct mapped TLB. The
  resize calls `set_cache_entry` recursively, on a table that it has just
  replaced, and every recursive call refills the TLB. Correct means: it is a
  map; no probe stops early; the TLB agrees with the table at every step; the
  nested calls never resize; every call returns.
* **Translation.** `parse_block` recurses into jump targets and return
  addresses, while the addresses on the way are marked `TRANSLATION_STARTED` -
  all except the block of the main loop, so that a block can be translated
  twice and replaced in the cache while others jump to the first copy. Correct
  means: the cache, direct jumps and the return stack always lead to the block
  of the guest address they stand for; the recursion ends; marks do not
  outlive their call.
* **Chaining.** The emitted code stores where a jump could be patched in
  `chain_end`; the main loop patches it with whatever block comes next. Correct
  means: the site is fresh and belongs to exactly that address.
* **Return stack.** A ring that overwrites its oldest entries, popped only on a
  match. Correct means: a match goes where the guest would go.
* **All of these together.** The translated program does what the guest
  program does.
* **Register allocation.** Lazy loads, least recently used eviction, forced
  placement in AX, DX and CX, exchanges between them. Correct means: no value is
  ever lost, and when an instruction executes its operands are all there.
* **Instructions.** Each emission is a few host instructions with a case for
  every way its operands can share a register; widths, signs, shifts by more
  than the width, division by zero, and floating point numbers next to NaN are
  where they differ from the guest's. Correct means: rd holds what the ISA says,
  and every register somebody still relies on is kept.
* **Fusion.** Patterns are marked in the buffer one after another, and what a
  marked pattern covers still matches shorter ones. Correct means: every
  instruction of the block has its effect exactly once.
* **Bytes of exits.** Jumps are emitted short before their distance is known,
  code is overwritten while it is in use, and one word (`chain_end`) says where.
  Correct means: from wherever the guest is, what is there is an instruction,
  and it leads to where the guest goes.
* **Address space.** The guest's heap, mappings and stack share one address
  space with the translator and its code memory, with page rounding on either
  side. Correct means: nobody loses memory to somebody else.
* **Switching.** Two generated blocks exchange the register files, called from C
  and from emitted code. Correct means: guest and host find their registers.
* **Floating point state.** Flags and rounding modes live in the host's MXCSR,
  renumbered, while single instructions borrow it. Correct means: the guest
  reads the fcsr it would have on a hart.

## The modules

| module | models | kind |
|---|---|---|
| `BlockMap` | what `cache.h` promises: a map from guest address to location | abstract specification |
| `CodeCache` | `cache.c`, one probe, one moved entry, one store at a time | state machine, implements `BlockMap` |
| `GuestMachine` | the RISC-V hart's control flow | abstract specification |
| `Translator` | `main.c`, `translate.c`, `translate_controlflow.c`, `return_stack.c`, `translate_pseudo.c`, and the execution of the emitted code | state machine, implements `GuestMachine` |
| `ExitCode` | the bytes at the end of a block: `translate_controlflow.c`, `translate_pseudo.c`, `chain` | state machine |
| `Replacements` | `util.h` and the way each family of instructions uses it | state machine |
| `Fusion` | `optimize.c`, `patterns.c` | state machine, compared with the block as parsed |
| `Words` | words of XLEN bits with halves; bitwise operations on them | operators |
| `HostMachine` | the x86-64 instructions that integer emissions consist of | operators |
| `IntegerCode` | `translate_arithmetic.c`, `translate_loadstore.c`, `translate_m_ext.c`, `translate_a_ext.c` | state machine, compared with the ISA |
| `FloatCode` | `translate_f_ext.c`, `translate_d_ext.c` | state machine, compared with the ISA |
| `ControlRegisters` | fcsr and the CSRs as the ISA promises them | abstract specification |
| `FloatControl` | `translate_csr.c`, `manualCSRR.c`, the rounding switches of `util.h` | state machine, implements `ControlRegisters` |
| `AddressSpace` | the loader's mappings, brk, mmap, munmap | state machine |
| `GuestStack` | `copyArgsToStack` | state machine |
| `GuestContext` | the switching blocks of `context.c` and their callers | state machine |
| `SystemCalls` | `emulate_ecall` without the memory calls | state machine |
| `Decoder`, `Encoding` | `parser.c`; the encodings of the manual it is compared with | state machine; operators |
| `Options` | `opt.c`, `flags.c`, the dispatch in `main` | state machine |
| `Analyzer` | `analyze.c` | state machine |
| `MC*` | the constants of the runs | for TLC |
| `CodeCacheProofs`, `TranslatorProofs`, `ExitCodeProofs`, `ReplacementsProofs`, `FusionProofs`, `AddressSpaceProofs` | theorems about the module of that name (`AddressSpaceProofs` also about `GuestStack`) | proofs |
| `EmittedCodeProofs` | theorems about `IntegerCode` and `FloatCode` | proofs |
| `RuntimeProofs` | theorems about `GuestContext`, `FloatControl`, `SystemCalls`, `Options` and `Analyzer` | proofs |

How they fit together: `Translator` uses the cache through its interface (a
function from addresses to locations), and `CodeCache` shows that the table
behind the interface is that function. `Translator` takes the end of a block as
one step of the guest; `ExitCode` is the bytes below that step. The straight-line
part of a block is `Replacements` (where operands are) and then `IntegerCode` or
`FloatCode` (what is emitted once they are there), or `Fusion` where a pattern
matched. `GuestContext` is the way in and out of blocks, with `SystemCalls`,
`AddressSpace` and `FloatControl` behind the calls it makes.

### CodeCache

A call of `lookup_cache_entry` or `set_cache_entry` is a record `op`; `pc` is
the place in the function, `index` the local of `find_lin_slot`, `old_table` and
`i` the locals of the resize. One turn of the probing loop is `ProbeStep`; the
body of the `for` loop is `RehashSkip`, or `RehashMove` and `Reinsert` around the
probes of the recursive call. `Reinsert` has `~NeedsResize` as a guard: the
branch of a *nested* resize is not modelled, because `RehashFits` shows that it
is never taken, and taking it would be a deadlock of the model. The masks
`& (size - 1)` are remainders, since sizes are powers of two; locations are
abstract numbers from 1. `ResizeFails` is the panic when `mmap` fails. Profiling
and logging are left out, and so is the failing `mmap` at start.

### Translator

A guest address counts instructions. `code` is the list of emitted blocks; the
location of block n is n + 1, since 0 is `UNSEEN_CODE` and 1 is
`TRANSLATION_STARTED`. `frames` is the call stack of `translate_block`: each
frame has the parse buffer (`buf`), the instruction that ended the block
(`end`), and the targets that `parse_block` has yet to visit (`todo`).

| action | code |
|---|---|
| `LookupUnseen`, `Execute` | one turn of `transcode_loop`: the cache is asked, a block is translated or not, `chain` patches, the block is entered |
| `ParseInstr` | one turn of the loop of `parse_block`; one disjunct per `case` |
| `ParseFull` | the end of the loop: the pseudo instruction `PC_NEXT_INST` |
| `SkipTarget`, `RecurseInto` | a `lookup_cache_entry` of a target, the mark and the recursive call |
| `FinishBlock` | emission, and the `set_cache_entry` of the caller |
| `ExecItem` | an instruction in the middle of a block |
| `ExecJal` ... `ExecInvalid` | the end of a block, with return stack, direct jump or `chain_end` |

A block's exits are its `slots`: a slot has the guest address it stands for and
either a direct jump or the way back by `chain_end` and the main loop. A
branch goes either way. The data path is one abstract instruction (`NOP`), plus
the registers that hold addresses (x1, x5 and one more). An address outside the
program reads as an invalid instruction. The registers hold the entry address
at first instead of 0, as after a prologue: a guest that jumps to a null
pointer is not modelled. Instruction fusion is left to `Fusion`; the flag for
float blocks, the size of the code memory and self-modifying code are left out.

### Replacements

The state `ri` holds both sides at once: what the translator believes
(`content`, `recency`, `now`) and what the emitted code makes true of the host
registers and the register file (`host`, `file`). A value is named by the guest
register whose present value it is; everything else is `Stale`. When an
instruction writes rd, all other copies of rd's old value become `Stale`, so a
missing write-back, a wrong exchange or a second copy is visible. There is an
action for each *way of using the allocator*: `TranslateImm` is every
instruction that calls `getRs1` and `getRd`, `TranslateShift` those that ask
for rs2 in CX, and so on; the state machine translates any sequence of them.
`misread` records the operands that the last instruction read wrongly.

### Words, HostMachine, IntegerCode

`Words` scales the machine: XLEN, HALF, SHORT and BYTE stand for 64, 32, 16 and
8 bits, and a sign, a carry or a shift by half a word is where it would be. AND, OR
and XOR go through the bits by a recursive function, not a `RECURSIVE` operator, so
that modules which use them can be proved about.
`HostMachine` is the meaning of the host instructions that are emitted, with the
rules that matter: 32 bit operations clear the upper half, narrower ones keep
it, shift amounts are masked, DIV and IDIV fault for zero and for a quotient
that does not fit. `IntegerCode` has one operator per `translate_*` function (or
family): the list of host instructions as a function of where the operands are.
`Init` takes an instruction and values; `Step` and `StepJump` execute the list.
`Place` says where an operand is, as `Replacements` leaves them in a block that
starts with the instruction.

### FloatCode

The same for the F and D extensions. Numbers are counted in halves, with NaN
apart and rounding to PRECISION bits, for arithmetic, comparison and conversion;
bit patterns of MantS and MantD bits of mantissa for sign injection,
classification, moves and memory. The SSE instructions have the corners that the
emissions rely on or forget: MINSS and MAXSS return the second operand for NaN,
COMISS sets three flags, CVTSS2SI returns the smallest integer for what does not
fit. FIRST and SECOND floating point replacement registers hold leftovers.

### Fusion

`i`, `j` and the current pattern are the loops of `optimize_patterns`; `Mark`
is the assignment of `PATTERN_EMIT`, `Mismatch` and `NextPattern` the ways on.
Then the marked buffer is translated entry by entry: `translate_pattern_emit`
emits the replacement and leaves `SILENT_NOP`s behind. Registers after the emitted
code are compared with those after the block as it was parsed.

### ControlRegisters, FloatControl

`ControlRegisters` is fcsr as the ISA describes it. `FloatControl` is what the
code makes of it: sets of bits of MXCSR and of the register file, the
renumbering of flags and modes, the save and restore around an instruction with
a mode of its own. `CsrStep` and `RoundingStep` say of every action which step
of `ControlRegisters` it is, through a refinement mapping of MXCSR's bits.

### AddressSpace, GuestStack

`owner` is the kernel's table of pages; `A(n)` is arithmetic modulo SPACE, as
the code's `uintptr_t` wraps at 2^64. The loader's three steps, `allocateStack`
and `setupInstrMem` come in the order of `main`; then the guest stores into its
heap and asks for brk, mmap and munmap. Where no address is asked for, the
kernel takes any free range. `dirty` are the bytes the guest has written.
`GuestStack` pushes `copyArgsToStack`'s words from the top down and compares what
`_start` reads from the stack pointer upwards.

### GuestContext, SystemCalls

`GuestContext` executes the two switching blocks one host instruction at a time
(`Transfer`, `JumpOrCall`), from `execute_in_guest_context`, and from an ECALL in
a block, with C code in between that leaves junk in every caller-saved register.
`SystemCalls` has the table of forwarded calls, the two that fill a record of
another layout, the ones the translator answers, and exit: `emulate_ecall` is one
step, `transcode_loop` looks at `finalize` later.

### ExitCode

`text` maps addresses to host instructions, with the lengths of their encodings;
writing over a part of an instruction leaves no instruction there. One block has
the exit under study; both its targets may be translated before it, within it
(recursively, at any distance) or later, and `chain` patches what `chain_end` names
at any time the guest comes back through the main loop.

### Decoder, Encoding

`parse_instruction` as a function from a word and what the buffer entry held to
the entry it leaves, against `Encoding`, which puts the words together from the
formats of the manual.

### Options, Analyzer

`Options` is the nested loop over `argv`, with the position in a cluster of
letters or in a list of categories as `letter`. Names and categories are compared
by their beginning: a category is the word that is compared and what the text has
more, and the loop over a list goes on only where there is nothing more
(`MoreCategories`). Its reference is the usage text: which option each letter is
short for, and what each is said to do. `FlagsAsDocumented` compares the flags, at
every step, with what the usage text promises for all that has been read (`Given`,
over the places `Seen` of each argument). `Analyzer` is the pass of
`add_instruction` over a segment and the sorting of the report, of its mnemonics,
registers, pairs of mnemonics with the limit behind which they are not printed, and
the entries of each; nodes are taken from pages, so that two of them could overlap.

## What the runs check

A suite (`emitted_code`, `address_space`, `runtime`, `front_end`) checks several
machines that share nothing but what the text above says; `part` says which one a
behaviour is of, the others stay where they start.

| run | configuration | shows |
|---|---|---|
| `code_cache` | `MCCodeCache.cfg` | `ProbePaths`, `TlbCoherent`, `RehashKeepsAll`, `RehashFits`, the refinement `ImplementsBlockMap`, and `CallsReturn` |
| `translator` | `MCTranslator.cfg` | all 2744 programs of three control flow instructions and eleven chosen longer ones, under twelve settings of the flags: `CacheSound`, `SlotsSound`, `ChainEndFresh`, `ReturnStackSound`, `StartedOnStack`, `TranslationStays`, the refinement `ImplementsGuest`, and `TranslationEnds` |
| `replacements` | `MCReplacements.cfg` | any sequence of instructions: `NoValueLost`, `RecencyMarks`, `OperandsRight`, `X0StaysZero`, for the operand combinations that are sound, and for those where results may go to x0 and no register is asked for in a fixed place |
| `fusion` | `MCFusion.cfg` | `SameEffectElsewhere`, for blocks without the patterns that `Equivalent` names (the four rows of `patterns.c` under Divergences); `EachOnce` |
| `emitted_code` | `MCEmittedCode.cfg` | `RightResult`, `RegistersKept` (`ComputesResult` and `OthersKept` of the two machines), and `TrapsOnOverflow`: the host traps exactly for the signed division that overflows |
| `address_space` | `MCAddressSpace.cfg` | `TranslatorKept`, `HeapGrowth`, `GuestKept`; `StackBuilt` for the initial stack |
| `runtime` | `MCRuntime.cfg` | `RegistersFound`, `CallRuns`; `CallsAsAsked`, `StatFilled`, `ExitEnds`; `CsrAsPromised`, in which rd = rs1 is a case of its own (Findings), `RoundingAsPromised` |
| `exit_code` | `MCExitCode.cfg` | `Continues`, `WholeInstructions`, `OnceThroughLoop` |
| `front_end` | `MCFrontEnd.cfg` | `WordsParsed`; `OptionsAsDocumented` (`FlagsAsDocumented`, `GuestArguments`, `UsageOnlyForUnknown`, `UnknownNotPassed`); `SegmentCounted` (the counts, the nodes, and the order and completeness of each part of the report) |
| `far_recursion`, `fixed_crossing`, `ras_without_jump` | one each | the findings below |

Deadlock is checked where the system goes on for ever (`code_cache`,
`translator`, `replacements`, `exit_code`, `runtime`, where a program that has
ended stutters by an action of its own). In `fusion`, `emitted_code` and
`front_end` a behaviour is one input and ends with it; in `address_space` the
stack is complete, or no file can be loaded and the program stops.

### Bounds, and why they are enough

* Code cache: addresses 0, 28, 32 and 60, two locations, an initial table of two
  slots and a TLB of two. In tables of up to eight slots 0 and 32 hash to the
  first slot, 28 and 60 to the last, so that probes collide and wrap around;
  each pair shares a TLB slot, and 0 is the address that hits the zeroed TLB.
  Four entries take the table through three doublings, each with nested calls.
* Translator: `BLOCK_CACHE_SIZE` 4 and `RAS_SIZE` 2 instead of 64: buffers fill
  up, jumps are unrolled to the end of the buffer, recursion of depth three
  overwrites the oldest return pair. Every pair of block address and exit kind
  occurs among the programs of three instructions; the chosen programs add what
  these cannot show (mutual recursion, AUIPC and JALR pairs, fences, both link
  registers). `SoundFlags` leaves out the setting of `ras_without_jump`, the
  return stack without recursive translation of jumps.
* Replacement registers: x0, three unmapped registers and one mapped one. Four
  registers that share three places reach every case of eviction and exchange,
  as no instruction names more than three. The three unmapped registers are
  symmetric (`SYMMETRY OtherRegs`; no property names one of them). The counter
  `current_recency` grows without end: `VIEW RecencyOrder` identifies states
  whose recencies are in the same order. That is exact, for the code compares
  recencies only with each other and with 0, and what it stores is above all of
  them; with it the run is complete, and the bound `MaxRecency` is never reached.
* Words: XLEN 8, HALF 4, SHORT 3, BYTE 2. Operands are the values where a width
  ends or a sign changes (0, 1, 7, 8, 15, 16, 127, 128, 143, 200, 255), immediates
  from -4 to 3, every shift amount; registers are equal or not, mapped or not,
  unmapped ones in each of the places an instruction may find them. Floating
  point numbers have 4 bits of precision and integers of 8, so that conversions
  round; arithmetic is checked on -3/2, 1, 77/2 and NaN, fused operations on
  distinct primes, which tell any confusion of operands. Bit patterns have 24 and
  12 bits, each sign, the two exponents at either end, the edges of the mantissa.
  The forms leave out the operand combinations under Divergences.
* Fusion: two registers and x0, six or nine register files, blocks of up to five
  instructions around every pattern; `Firsts`, `Thirds` and `Around` in
  `MCFusion` bound which neighbours longer blocks have. Immediates are on both
  sides of half a word.
* Address space: 16 pages of two bytes, the guest below 18, the code memory from
  18 to 22, the translator from there with one page in use; one or two segments;
  a stack that fits and one that does not; requests that begin, end and wrap on
  every side of each boundary. A fixed request across the boundary is the finding
  `fixed_crossing`. Up to five arguments and variables give every residue of the
  stack pointer.
* Runtime: a0 and a3 in the registers of C arguments, a5 in the last callee-saved
  one, one floating point register, pc in the register file only; two values and
  two blocks. All system call numbers, all argument registers different, a
  success and an error of the host. Two registers of nine bits, no flags or flags
  with a rounding mode; CSR instructions with rd and rs1 different, the same, and x0.
* Exits: all six branches, both targets at any of the block's neighbours; other
  code between them of 0 or 160 bytes, on either side of the reach of a short jump.
* Front end: four registers and 8 to 13 immediates per format, every rounding
  mode kind; one word for each `default` of the parser's switches. After each of
  a few instructions every other one, for what an entry held before. Of the
  command lines of three arguments, those that name an executable; lists that go on
  behind `verbose-disasm`, behind a word with a letter too many, and behind a comma
  with nothing, with known and unknown categories there. Five instructions with pages
  of two nodes fill two pages; the report has room for two pairs of mnemonics
  (`LastCombination` 1, where the code has 200), of up to four that there are.

### Fairness

Weak fairness says only that the one thread goes on: `Work` of `CodeCache` (a
call that is running), `Next` of `Translator`, the host instructions and
`emulate_ecall` of `GuestContext`, `emulate_ecall` and `transcode_loop` of
`SystemCalls`. There is no lock or other process it could wait for. What the
guest does (branches, ecalls) stays nondeterministic and unfair: nothing says
that a block ever returns. No other specification states fairness.

## What is proved

All theorems are `Spec => ...` for every value of the constants within the
assumptions named in the modules.

* **CodeCache** (`AddrsAssumption`, `LocsAssumption`, `SizesAssumption`: any
  addresses, locations and sizes of table and TLB). `TypeCorrect` carries what
  the locals of a resize mean and is inductive. `ProbePathsHold`: `ProbePaths`
  says of every occupied slot that the cyclic way to it from its hash passes only
  slots of *other* addresses, and of a probe in progress that it has passed only
  such slots; neither half is inductive alone. `RehashKeeps` adds `MoveInv`, that
  new and old table together hold every entry once, between the slots done and
  the slots to come; `RehashFitsHolds` adds `CountInv`, that `count_entries` is
  the number of occupied slots, at most half of the table, and during a move
  that of the slots passed. `TlbCoherentHolds` and `Refinement` (`Spec => ImplementsBlockMap`)
  follow from `CacheInv`, which says of the TLB what the table answers.
* **Translator** (`BlockCacheAssumption`, `ProgramsAssumption`, `RasAssumption`:
  any programs - sequences of instructions - any flags, sizes of buffer and
  return stack). `CacheInv` relates the cache, the emitted blocks and the running
  calls: an entry is the block of its address or the mark of a running call, and
  each mark occurs once. `CacheSoundHolds` and `StartedOnStackHolds` follow from
  it. `ReturnInv` adds that what an emitted call pushes is the block of its return
  address, and that the return addresses still to be emitted are translated,
  which is true only if jumps are followed where the return stack is used: the
  premise `RasFollows`, whose negation is the finding `ras_without_jump`.
  `JumpInv` adds direct jumps and `chain_end`; its premise `NoPairs` leaves out
  programs with AUIPC and JALR pairs, for which `far_recursion` shows
  `ChainEndFresh`'s neighbour `JalrWritesTarget` violated. `TypeInv` gives `TypeOK`.
* **Translator implements GuestMachine** (also in `TranslatorProofs`, premises
  `RasFollows` and `NoPairs` as above). `FlowInv` says what is in a block: its
  items are the guest's instructions from its address on, in the order in which
  the guest would execute them (a followed jump leads to the next item, a FENCE
  leaves none), its exit is the instruction behind them, and each slot of the exit
  stands for an address that this instruction can go to. The same is said of the
  buffer of every running call, since `parse_block` is interrupted between any
  two instructions by its own recursion. With `CacheInv`, `JumpInv` and
  `ReturnInv` every step of the process is one step of the hart, or none: a step
  in a block executes its next item; a direct jump and the main loop enter the
  block of the address the pc has; a return that hits is where the pc says.
  `ImplementsGuestUnlessNull` needs that no return goes to guest address 0, since
  an empty entry of the return stack has the address 0 and would answer;
  `ImplementsGuestHolds` puts a condition on programs instead
  (`AddressesPositive`: addresses computed from the pc are above 0, returns do not
  subtract).
* **ExitCode** (`ExitsAssumption`, `GapsAssumption`, and the facts `PowersOf2`, see
  Fusion: any exit, any width of the words, any length of the code in between).
  `ExitInv` describes the bytes. `Tidy`: instructions do not overlap. `Blocks`: every
  block in the cache has the code of its exit, piece by piece, each piece in each of
  the forms it may have by then (`Layout`): a direct jump, short or long, a site that
  is patched or not, a path of two lengths, an end that is a RET or a jump to one.
  `Place`, for the twelve kinds of place the guest can be at: what the code from
  here on does, and what it has already left in the registers, the pc and `chain_end`
  - which, from the store until `chain` uses it, names a site of this exit that is
  fresh (`Pending`). A write by `chain` or over a dummy
  keeps `Tidy`, since what it puts is no longer than what was there, and `Layout`,
  which allows for the site before and after it is patched. `Counted` bounds the returns to the main loop by the number of exits
  that are patched or about to be, of which `OnceThroughLoop` is a consequence.
  `MCExitCode` evaluates `PowersOf2` on its instance.
* **Replacements** (`RegsAssumption`, `MapAssumption`, `TokensAssumption`,
  `FormsAssumption`: any guest registers and static mapping). Every operator of
  the allocator keeps `Good(s, d)`: the records' types, `Marked` (recencies are
  distinct and 0 exactly for the unused), `Unique` (an unmapped register is in
  one place) and `Kept` (the place the allocator believes in holds the newest
  value), where d is a destination that has its place but not its value yet. Each
  instruction is a chain of such operators. `NoValueLostHolds`,
  `RecencyMarksHolds` and `TypeOKHolds` hold for *all* operand combinations, the
  unsound ones included: those read wrong operands but lose nothing.
  `OperandsRightHolds` has the premise `OperandsApart`, which names the
  combinations that are left out: MULH and its like, DIV and REM of an unmapped
  register with itself, AMOMIN and AMOMAX with an unmapped address (the rows under
  Divergences), and MULHSU of x0 where results are dropped into x0. The argument is a
  frame for each operator: getting the next operand leaves the one taken last where
  it is, for the least recently used of the three is never the last taken, and
  getting a destination changes no value in a host register but that of x0.
  `X0StaysZeroHolds` has the premise `X0Safe`:
  no result goes to x0, or no register is asked for in a fixed place; only
  `loadIntoSpecific` ever writes back a register that holds x0.
* **IntegerCode** (`MapAssumption`, `FormsAssumption`, `ValuesAssumption`,
  `WidthAssumption`, `SizesAssumption`: words of any width, any static mapping, any
  immediates, operands and memory; every instruction of the four files, in every way its operands
  can be equal or mapped. `FormsAssumption` leaves out what `Replacements` finds
  misread: M instructions and AMOMIN or AMOMAX of one unmapped register twice). The
  premise `SizeFacts` are facts about powers of two and the bitwise operations that
  need an induction over the width; `MCEmittedCode` evaluates it (`SmallWords`).
  `CodeInv` is inductive: the instruction stays what it is, and the host is where
  the code so far leads from its start. For most instructions the code has no jump
  (`PlainPath`), and one lemma each (`ArithmeticOutcome`, `LoadOutcome`,
  `StoreOutcome`, `AmoOutcome`, `MinMaxOutcome`, `MulHighOutcome`) says what it
  leaves, from lemmas about single host instructions (`AluStep`, `LoadStep` and so
  on) composed by position. MULHSU (`HighPath`) and the divisions (`DivPath`) jump, and
  have an assertion for each place: the sign of rs2, a divisor that is not zero, the
  extension of the dividend in DX. The arithmetic is that of two's complement: a sum,
  product or shift cut to a width and sign-extended is the guest's; the quotient of
  the halves is the word's; the upper half of a mixed product differs from that of
  the signed one by rs1. `ComputesResultHolds`, `OthersKeptHolds` and
  `TrapsOnOverflowHolds` are what the invariant says of a code that has run or
  trapped. The first two are the part "integers" of the run's `RightResult` and
  `RegistersKept`.
* **GuestContext** (`ContextAssumption`: any mapping in which no two guest
  registers share a host register, none is in AX or DX, the orders name every
  mapped register, the host's callee-saved registers have cells of their own, and
  a program that computes with floating point numbers has an ELF file that says
  so). `Inv` of `RuntimeProofs` is an assertion for every place of the emitted
  code, proved from the code itself by position (`SaveCode`, `LoadCode`): how much
  of the register file, the swap file and the host registers is already moved; who
  is on the host stack; and where the argument is that tells a call to execute a
  block from the one behind an ECALL - in SI, then in DX, then in the zero flag -
  for with the wrong one of them the code would return into C with the guest's
  registers, or enter a block twice. `GuestFoundHolds` and `HostFoundHolds` follow.
* **FloatControl** (`FloatAssumption`: any registers, operands, values and flags
  that a host instruction can raise; CSR numbers of 12 bits). `IInv` says what
  MXCSR and `fctrl_file` hold at each stage of an instruction: the exception masks
  are all set, and while an instruction rounds by a mode of its own, that mode is in
  MXCSR and nothing but a rounding mode, the guest's, in the cell `SAVE`.
  `ExceptionsMaskedHolds`, `RoundingAsPromisedHolds`, and `CsrAsPromisedHolds`, which
  says what is modified where rd is rs1 (see Findings) and needs that renumbering
  flags and modes to MXCSR and back loses nothing. That the cells of different CSRs are apart needs that the
  sign extension from 12 bits is one to one.
* **FloatCode** (`FormsAssumption`: any forms of the instructions it knows, FCVT.LU
  only with an unmapped source, see Divergences; in `EmittedCodeProofs`, as `Fp`).
  `Within(c, D)` says that every instruction of c is a jump ahead, writes no
  register, or writes one of D. Code put together from such code is such code
  (`JoinedWithin`, `Jumps`), so that each emission is taken piece by piece, for any
  mapping and any operands that coincide; D is the destination, FIRST, SECOND and the
  registers the emission gives up (`EmissionWithin`). One instruction of Within
  keeps the other registers (`StepKeeps`), wherever the jumps lead: `FloatInv`, and
  from it `FloatOthersKept`, this module's part of `RegistersKept`. `MCEmittedCode`
  evaluates the premise (`FloatForms`).
* **Options** (`ArgumentsAssumption`: any command line; in `RuntimeProofs`, as `O`).
  `CommandInv` says of the argument that is being read that nothing before the place
  reached ends it (`Reading`), and keeps with the parsed state that the last argument
  looked at names the executable. What a letter or category does to the flags is the
  same as what the options in `OptionsFor` say, atom by atom (`NamedForFlag`,
  `CategoryRight`, `ShortRight`, `LongRight`); a step out of a place adds to `Given` what
  is written there and nothing else (`PlaceRead`), and the promise for more options
  follows from that for fewer (`PromisesGrow`), so that no fold over the command line
  is needed. `CommandLineHolds` states the four parts of `OptionsAsDocumented`.
* **Analyzer** (pages of at least one node; in `RuntimeProofs`, as `An`). `NodesInv`
  says of every list, also of those that do not exist yet, that its nodes have
  different immediates, that each counts the pairs of the segment so far that are its
  own, and that there is no pair of which no node has the immediates (`Complete`:
  without it a new node could not start at one); and of all lists together, that no two
  nodes were handed out the same memory, which lies below what the allocator hands out
  next. `NodesApartHolds`. `MCFrontEnd` evaluates `ArgumentsAssumption`
  (`CommandArguments`).
* **SystemCalls** (no premise). `CallsAsAskedHolds` and `StatFilledHolds`: the
  numbers of the code's table are compared with the kernel's ABI case by case, for
  any registers, pointers and results of the host.
* **Fusion** (`BlocksAssumption`: any blocks, of any length, without marks).
  `MarksInv` says that every mark is that of a pattern whose occurrence ends before
  the last instruction (`MarksInsideHolds`), and that there is a place e up to which
  the emitted code reaches: every instruction below e was given effect once, those
  still to be visited below e are silent, and from e on nothing was done.
  `EachOnceHolds` follows; it does not need that the occurrences nest, since a mark
  inside another occurrence is overwritten before it is visited.
  `SameEffectHolds` shows `SameEffectElsewhere` for every register file and width of
  the words. `EffectInv` adds to the place e that the host's registers and memory are
  the guest's after the instructions up to e, at most two ahead, and that a mark
  stands where its pattern occurs in the block as parsed (`MarkOccurs`: matching
  reads a buffer with marks in it, but no pattern asks for a mark). For each pattern
  a lemma (`SameP3` and its like) says that its code does what the instructions do:
  sums cut to words once or twice, shifts by half a word and back, masks of lower bits.
  The premises, beside the assumptions of the module, are two facts of arithmetic
  whose proof is an induction: `PowersOf2` (2^(m+n) = 2^m * 2^n within the width) and
  `BitFacts` (a bitwise operation on words is a word; masking with 2^n - 1 is a
  remainder, inverting a subtraction). They hold of any width; `MCFusion` evaluates
  them on its own (`SmallWords`).
* **AddressSpace** (`LayoutAssumption`, `RequestsAssumption`: any page size,
  layout, executable and requests). `IInv` says that the heap is exactly the pages
  from the initial to the mapped break, both page-aligned, that the break lies
  between them, and that the bytes the guest has written are there.
  `HeapGrowthHolds`, `GuestKeptHolds`, and under the premise `NoCrossing` (no
  fixed request that begins below the boundary ends beyond it, and the
  translator's own pages lie above it) `TranslatorKeptHolds`.
* **GuestStack** (`StackAssumption`: any number of arguments and variables, pages of
  an even number of words, the code's list of fifteen entries and `AT_NULL`; in
  `AddressSpaceProofs`, as `G`). `StackInv` is what is on the stack at each stage, as a
  concatenation; `Found` is the position of every word in the complete one, `Ends`
  that the search for a terminator stops at the end of its own list. With the
  padding the words are even in number (`Lengths`): `StackBuiltHolds`.
  `MCAddressSpace` evaluates the assumption (`StackInstance`).

Model-checked only:

* liveness under fairness (`CallsReturn`, `TranslationEnds`, `CallRuns`,
  `ExitEnds`), which is beyond these provers;
* `FloatCode`'s part of `RightResult`: rounding is a choice of the nearest number, and
  classification and sign injection take a word's bits apart by position;
* the parser (`WordsParsed`): a comparison of two tables on the bits of a word, over
  the words that the run enumerates;
* the analyzer's sums and report (`PairsCounted`, `RankingsComplete`,
  `CombinationsRanked`, `EntriesRanked`, `MostUsedFirst`, in `SegmentCounted`): folds over
  lists of any length, whose results are inductions over data.

`MCRuntime` evaluates `ContextAssumption` and `FloatAssumption` on its instance
(`SmallInstances`). Its properties of `GuestContext` and `FloatControl` are
those of the theorems, composed.

## Findings

Each is shown by a run; `PROJECT.json` quotes the places.

* **`far_recursion`**: for an AUIPC and JALR pair whose target is not in the
  cache, `translate_JALR` loads AX with the address to patch and then writes AX
  to the pc (`src/gen/instr/core/translate_controlflow.c:170` and `:192`): the
  guest continues at a host address. `parse_block` normally translates the
  target first; it does not when the target is itself in translation, which
  happens when a function ends in such a jump to itself.
* **`ras_without_jump`**: `--optimize=no-jump` leaves the return stack on, but
  `rs_emit_push` relies on the recursive translation for the return address's
  location; pairs with location 0 are pushed, and the return jumps there.
* **`fixed_crossing`**: mmap compares only the start of a MAP_FIXED range with the
  boundary (`src/runtime/emulateEcall.c:488`); a range that begins below it and
  ends beyond replaces translated code.
* **division overflow** (`emitted_code`, `TrapsOnOverflow`): DIV, REM, DIVW and
  REMW of the smallest number by -1 reach an IDIV, which traps; the property says
  that this is the only way a trap is reached.
* **lists of categories** (`front_end`, `OptionsAsDocumented`): of `verbose-disasm`
  eleven characters of fourteen are skipped (`src/env/opt.c:72`), so that the loop over
  the list ends; `--log=verbose-disasm,general` sets one flag, and an unknown category
  behind the comma is not reported. The property counts as read what comes before
  that place; the usage text promises a list.
* **rd = rs1 of a CSR instruction** (`runtime`, `CsrAsPromised`): `translate_CSRRW`,
  `CSRRS` and `CSRRC` load the CSR into rd's register before they use rs1
  (`src/gen/instr/core/translate_csr.c:28`), so that the CSR is modified with its own old
  value; the property has this as a case of its own (`SameRegister`), which
  `manualCSRR` does not need.

## Divergences without a run of their own

Other places where the code differs from its comments or the RISC-V manual. The
instances above leave them out by the definitions named here; giving these to the
configuration named (in place of the value it has) shows the violation.

| where | what | to see it |
|---|---|---|
| `src/gen/translate.c:445` | FENCE leaves no trace in the parse buffer, so AUIPC, FENCE, JALR is taken for an adjacent pair, and the target is computed from the wrong address | `MCTranslator.cfg`, `Programs <- FencedCall`: `ChainEndFresh`, then `ImplementsGuest` |
| `src/gen/instr/ext/translate_m_ext.c:50` | MULH, MULHU, MULHSU, DIV, REM of an unmapped register with itself: the second `getRs*Into` takes the register away from where the first one put it | `MCReplacements.cfg`, `Kinds = {"square"}`, no `SYMMETRY`: `OperandsRight` |
| `src/gen/instr/ext/translate_a_ext.c:201` | AMOMIN and its like keep the host register of rs1 in a variable while loading rs2 into DX, which may be that very register | the same with `"min_max"` |
| `src/util/util.h:363` | the condition is always true: a result dropped into x0 reaches the register file | the same with `"dropped_result"`: `X0StaysZero` |
| `src/gen/instr/patterns.c:182` | AUIPC, ADDI, LW, ADDIW, SW becomes one ADD to memory: the four registers are not written | `MCFusion.cfg`, `Blocks <- IncMemBlocks`: `SameEffect` |
| `src/gen/instr/patterns.c:388` | LUI, ADDI 0, SLLI, SRLI: the copy the ADDI makes is not written | `MaskedBlocks` |
| `src/gen/instr/patterns.c:540` | the SHR of SLTZ has lost its register operand: rd is a copy of rs1 | `SltzBlocks` |
| `src/gen/instr/patterns.c:366` | SEXTW reads and writes slot 0 of the register file for x0 | `SextwX0Blocks` |
| `src/runtime/emulateEcall.c:52` | `setupMmapHint` forgets the guard page of the stack: the first mapping goes wherever the kernel likes, above the translator in its own order | `MCAddressSpace.cfg`, `PROPERTY MapsInGuestSpace`, `MmapRequests <- Anywhere` |
| `src/elf/loadElf.c:229` | after reading a segment's bytes the result of reading its header is tested | `MCAddressSpace.cfg`, `INVARIANT SegmentsLoaded` |
| `src/runtime/emulateEcall.c:265` | a failing fstat or fstatat copies zeroes over the guest's record | `MCRuntime.cfg`, `PROPERTY FailedStatKeeps` |
| `src/parser/parser.c:122` | FSW and FSD leave bits of the immediate in `reg_dest`, where stores have `INVALID_REG` for the analyzer | `MCFrontEnd.cfg`, `INVARIANT UnusedIsInvalid` |
| `src/parser/parser.c:572` | the mask that asks whether funct3 is a rounding mode is beyond the bits of funct7 | `MCFrontEnd.cfg`, `INVARIANT RoundingModeIsOne` |
| `src/parser/parser.c:717` | with `--fail-silently` an OP_FP word of size D without an entry in the tables becomes SLL, the mnemonic 0 + FLD - FLW | `MCFrontEnd.cfg`, `fail_silently = TRUE`: `WordsParsed` |

The following are left out of the models' instances or written down as what the
code does, and seen by reading:

* CSR numbers are sign-extended from 12 bits (`src/parser/parser.c:317`): those from
  0x800 on are addressed below `csr_file`.
* `MXCSR_SCRATCH` is the third word of the two of `fctrl_file` (`src/util/util.h:642`).
* FSUB of a register with itself into itself is zeroed, NaN and infinity too
  (`src/gen/instr/ext/translate_f_ext.c:347`). FCVT.W of a large number and of NaN
  gives the smallest integer (`:718`); FCVT.WU does not clip from 2^32 on (`:759`),
  nor sign-extends from 2^31 on; FCVT.WU and FCVT.LU of a mapped register compare
  a leftover with zero (`:754`), FCVT.LU subtracts from the guest's own register
  (`:1083`) and has no result of its own for NaN. Fused operations round twice, and
  FNMADD may get the sign of zero wrong. NaN boxing is ignored.
* The floating point registers are switched only when the ELF flags name such an
  ABI (`src/main/context.c:282`); `MCRuntime` has `floatBinary` TRUE.
* `README.md:52` spells log categories with underscores, `src/env/opt.c:54` with
  hyphens, and a wrong one ends the translator; an unknown long option is ignored.
* The report of pairs says "List limited to first 200 combinations" behind the 201st
  (`src/util/tools/analyze.c:219`): `LastCombination` is the last index that is printed.
* The analyzer compares `INVALID_REG` like a register (`src/util/tools/analyze.c:317`),
  so that a store and a load without rs2 are a pair; its flags do not look at the
  first operand when the result is used as the second; and the loop that sorts
  the lists of immediates begins with the entry 1 (`:171`), so that pairs none of
  whose flags hold are not sorted. No instruction of `MCCode` has these.
* `rs_emit_pop` writes 8 bytes to the 4 of `rs_front`; fstat with a bad pointer ends
  the translator; rt_sigaction is answered without effect.

## Not modelled

* Vendored code: googletest, ryu, and the encoder and decoder library (a submodule, as
  its users call it). The first two are most of the lines in the repository; the
  models cover about two thirds of its own.
* `lib/minilibc.c` and `lib/common.h`: a libc for the translator, apart from what a
  failing `mmap` means to its callers. The tests.
* Logging, the profiler, time measurement; exit codes; the header checks of the
  loader are one failure.
* The size of the code memory, which no line of the code compares with anything;
  the bytes a level of `parse_block` takes on the host stack; guest programs that
  modify themselves (FENCE.I is ignored by the code) or fetch unmapped addresses.
* Builds with AVX, which choose other encodings of the same operations.
* What the host kernel does with a call it is handed: any result.

Possible next steps: `JalrWritesTarget` for programs whose pairs are never followed
into a call in progress, so that `NoPairs` can go; the results of
those emissions of `FloatCode` that neither round nor take bits apart.
