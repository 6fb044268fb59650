----------------------------- MODULE MCFrontEnd -----------------------------
(***************************************************************************)
(* Small instances of the three parts that read what the user gives: the   *)
(* instruction parser ("decoder"), the command line ("options") and the    *)
(* analyzer ("analyzer").  Each behaviour is of one of them, `part'; the   *)
(* others stay where they start.                                           *)
(***************************************************************************)
EXTENDS Decoder, Encoding

VARIABLES
    part,
    argv, optind, letter, flags, file_path, status,          \* Options
    segment, prev, cur, mnem_count, reg_count, array, pages, \* Analyzer
    nextFree, report

commandLine == <<argv, optind, letter, flags, file_path, status>>
analysis == <<segment, prev, cur, mnem_count, reg_count, array, pages, nextFree, report>>
-----------------------------------------------------------------------------
(* Every instruction of the manual, with registers and immediates at the   *)
(* boundaries of their fields.                                             *)
MCRegs == {0, 1, 21, 31}
MCPairs == {<<0, 31>>, <<31, 0>>, <<10, 21>>}
MCRm == {0, 1, 4, 7}
MCImm12 == {-2048, -1366, -1, 0, 1, 32, 1365, 2047}
MCImm13 == {-4096, -2732, -2048, -2, 0, 2, 32, 2046, 2048, 2730, 4094}
MCImm21 == {-1048576, -699052, -4096, -2, 0, 2, 2046, 2048, 4096, 32768, 524288, 699050, 1048574}
MCUpper == {-524288, -349526, -1, 0, 1, 349525, 524287}

\* An instruction is its form, its fields and its word.
With(f, rd, rs1, rs2, rs3, rm, imm, word) ==
    [mnem |-> f.mnem, fmt |-> f.fmt, opcode |-> f.opcode, float |-> f.float, rd |-> rd,
     rs1 |-> rs1, rs2 |-> rs2, rs3 |-> rs3, rm |-> rm, imm |-> imm, word |-> word]

Rms(f) == IF f.rm = "dyn" THEN MCRm ELSE {f.funct3}
RmOf(f, rm) == IF f.rm = "dyn" THEN rm ELSE NoMode

Of(f) ==
    CASE f.fmt \in {"R", "AMO"} ->
           {With(f, rd, p[1], p[2], 0, RmOf(f, rm), 0, EncodeR(f, f.funct7, p[2], p[1], rm, rd))
              : rd \in MCRegs, p \in MCPairs, rm \in Rms(f)}
      [] f.fmt = "CVT" ->
           {With(f, rd, rs1, f.rs2, 0, RmOf(f, rm), 0, EncodeR(f, f.funct7, f.rs2, rs1, rm, rd))
              : rd \in MCRegs, rs1 \in MCRegs, rm \in Rms(f)}
      [] f.fmt = "R4" ->
           {With(f, rd, p[1], p[2], rs3, rm, 0, EncodeR(f, 4 * rs3 + f.funct7, p[2], p[1], rm, rd))
              : rd \in MCRegs, p \in MCPairs, rs3 \in MCRegs, rm \in MCRm}
      [] f.fmt \in {"I", "IF"} ->
           {With(f, rd, rs1, 0, 0, NoMode, imm, EncodeI(f, rd, rs1, imm))
              : rd \in MCRegs, rs1 \in MCRegs, imm \in MCImm12}
      [] f.fmt = "SH6" ->
           {With(f, rd, rs1, 0, 0, NoMode, imm, EncodeI(f, rd, rs1, 32 * f.funct7 + imm))
              : rd \in MCRegs, rs1 \in MCRegs, imm \in {0, 1, 31, 32, 63}}
      [] f.fmt = "SH5" ->
           {With(f, rd, rs1, 0, 0, NoMode, imm, EncodeI(f, rd, rs1, 32 * f.funct7 + imm))
              : rd \in MCRegs, rs1 \in MCRegs, imm \in {0, 1, 31}}
      [] f.fmt \in {"S", "SF"} ->
           {With(f, 0, p[1], p[2], 0, NoMode, imm, EncodeS(f, p[1], p[2], imm))
              : p \in MCPairs, imm \in MCImm12}
      [] f.fmt = "B" ->
           {With(f, 0, p[1], p[2], 0, NoMode, imm, EncodeB(f, p[1], p[2], imm))
              : p \in MCPairs, imm \in MCImm13}
      [] f.fmt = "U" ->
           {With(f, rd, 0, 0, 0, NoMode, imm * 4096, EncodeU(f, rd, imm * 4096))
              : rd \in MCRegs, imm \in MCUpper}
      [] f.fmt = "J" ->
           {With(f, rd, 0, 0, 0, NoMode, imm, EncodeJ(f, rd, imm)) : rd \in MCRegs, imm \in MCImm21}

\* ECALL and EBREAK have no fields.
MCTraps == {[mnem |-> m, fmt |-> "trap", opcode |-> 28, float |-> FALSE, rm |-> NoMode,
             word |-> IF m = "ECALL" THEN 115 ELSE 1048691] : m \in {"ECALL", "EBREAK"}}

MCForms == IntegerForms \cup AtomicForms \cup FloatForms

\* Words of no instruction, one for each default of the parser's switches.
Reserved(upper, rs2, funct3, opcode) ==
    [fmt |-> "reserved", word |-> Pack(upper, rs2, 7, funct3, 9, opcode)]
MCReserved ==
    {Reserved(0, 5, 7, o) : o \in {0, 1, 3, 8, 9}}
    \cup {Reserved(0, 5, 2, o) : o \in {6, 14, 24}} \cup {Reserved(1, 5, 1, 14), Reserved(0, 5, 4, 28)}
    \cup {Reserved(f, 5, 2, 11) : f \in {20, 127}} \cup {Reserved(0, 5, 4, 11)}
    \cup {Reserved(0, 5, 0, o) : o \in {2, 7, 10, 15, 21, 26, 29, 31}}

\* Words with no entry in the floating point tables, of size S and D.
MCFloatReserved ==
    {Reserved(4 * f + d, 5, 3, 20) : f \in {4, 5, 6, 20, 24, 26, 28, 31}, d \in {0, 1}}
    \cup {Reserved(32, 5, 0, 20)} \cup {Reserved(2, 5, 0, o) : o \in {17, 18, 19}}

MCValid == MCTraps \cup UNION {Of(f) : f \in MCForms}
MCInstructions == MCValid \cup MCReserved \cup MCFloatReserved

\* After a float, a branch and a system instruction.
MCBefore ==
    {i \in MCValid : i.mnem = "EBREAK"}
    \cup {i \in MCValid : i.mnem \in {"FMSUBD", "BGEU"} /\ i.rd \in {0, 31} /\ i.rs1 = 31
                            /\ i.rs3 \in {0, 31} /\ i.rm \in {NoMode, 7} /\ i.imm \in {0, 4094}}
-----------------------------------------------------------------------------
(* Command lines: every letter and long option, clusters, lists, unknown   *)
(* options.                                                                *)
MCShort(letters) == [form |-> "short", letters |-> letters, name |-> "", categories |-> <<>>]
MCLong(name, categories) ==
    [form |-> "long", letters |-> <<>>, name |-> name, categories |-> categories]

MCLetters ==
    {MCShort(<<c>>) : c \in {"a", "g", "i", "o", "r", "c", "s", "d", "m", "b", "p", "f", "v", "h"}}
MCClusters ==
    {MCShort(c) : c \in {<<"g", "m">>, <<"m", "f", "g">>, <<"d", "x">>, <<"i", "-", "s">>, <<"a", "v">>}}
\* A category, followed by a comma or the end, or by something else.
MCWord(c) == [word |-> c, more |-> ""]
MCWords(list) == [k \in DOMAIN list |-> MCWord(list[k])]
MCText(c, more) == [word |-> c, more |-> more]
VerboseDisasm == MCText("verbose-dis", "asm")

\* Single categories, lists, and lists that go on behind verbose-disasm, behind a
\* word with a letter too many, and behind a comma with nothing.
MCLists ==
    {MCLong("log", <<MCWord(c)>>) : c \in {"general", "asm-in", "asm-out", "reg", "cache",
       "cache-contents", "strace", "context", "verbose-dis"}}
    \cup {MCLong("optimize", <<MCWord(c)>>) :
            c \in {"no-ras", "no-chain", "no-jump", "no-fusion", "singlestep", "none"}}
    \cup {MCLong("log", MCWords(<<"cache", "asm-out">>)), MCLong("log", MCWords(<<"general", "no-ras">>)),
          MCLong("optimize", MCWords(<<"no-jump", "singlestep">>)),
          MCLong("optimize", MCWords(<<"none", "help">>))}
    \cup {MCLong("log", <<VerboseDisasm>>), MCLong("log", <<VerboseDisasm, MCWord("general")>>),
          MCLong("log", <<MCWord("reg"), VerboseDisasm, MCWord("no-ras")>>),
          MCLong("log", <<MCWord("cache"), MCWord("")>>),
          MCLong("optimize", <<MCText("no-ras", "x"), MCWord("none")>>)}
MCLongs ==
    {MCLong(n, <<>>) : n \in {"perf", "help", "version", "file", "benchmark", "profile",
       "fail-silently", "analyze-all", "analyze-mnem", "analyze-reg", "analyze-pattern", "log", "unknown"}}
MCOthers ==
    {[form |-> f, letters |-> <<>>, name |-> "prog", categories |-> <<>>] : f \in {"plain", "end"}}

O == INSTANCE Options WITH
       Arguments <- MCLetters \cup MCClusters \cup MCLists \cup MCLongs \cup MCOthers, MaxArgs <- 3

\* The premise of the theorem on Options in RuntimeProofs.
ASSUME CommandArguments == O!ArgumentsAssumption

\* Of the lines of three arguments, those that name an executable.
NamesFile(arg) == arg.name = "file" \/ "f" \in {arg.letters[k] : k \in DOMAIN arg.letters}
MCLine == Len(argv) = 3 => NamesFile(argv[2]) \/ NamesFile(argv[3])
-----------------------------------------------------------------------------
(* Segments of a few instructions with the registers that make the flags   *)
(* differ, two immediates, pages of two nodes, a report of two pairs.      *)
MCIns(m, rd, rs1, rs2, imm) == [mnem |-> m, rd |-> rd, rs1 |-> rs1, rs2 |-> rs2, imm |-> imm]

\* ADDI with its operands equal or not.
MCCode ==
    {MCIns("ADDI", 1, 1, 33, 0), MCIns("ADDI", 1, 1, 33, 8), MCIns("ADDI", 1, 2, 33, 0),
     MCIns("LD", 1, 1, 33, 8), MCIns("ADD", 1, 2, 1, 0)}

A == INSTANCE Analyzer WITH
       Code <- MCCode, MaxLength <- 5, NodesPerPage <- 2, LastCombination <- 1
-----------------------------------------------------------------------------
InDecoder == part = "decoder" /\ UNCHANGED <<commandLine, analysis, part>>
InOptions == part = "options" /\ UNCHANGED <<vars, analysis, part>>
InAnalyzer == part = "analyzer" /\ UNCHANGED <<vars, commandLine, part>>

MCInit ==
    /\ Init /\ O!Init /\ A!Init
    /\ \/ part = "options" /\ MCLine
       \/ part \in {"decoder", "analyzer"} /\ argv = <<>>

MCNext ==
    \/ InDecoder /\ Next
    \/ InOptions /\ O!NextArgument
    \/ InOptions /\ O!NoMoreArguments
    \/ InOptions /\ O!ShortOption
    \/ InOptions /\ O!ListOption
    \/ InOptions /\ O!LongOption
    \/ InOptions /\ O!Run
    \/ InAnalyzer /\ A!Read
    \/ InAnalyzer /\ A!Report

MCSpec == MCInit /\ [][MCNext]_<<vars, commandLine, analysis, part>>
-----------------------------------------------------------------------------
\* Every word the manual defines is parsed to its mnemonic, registers,
\* immediate, rounding mode and type, whatever the buffer entry held before; a
\* word it does not define is never taken for an instruction (parser.c).
WordsParsed == part = "decoder" => TypeOK /\ Decodes /\ Classified /\ UnknownStaysUnknown

\* What runs, runs with the flags and arguments the usage text promises for what
\* is read of the command line, and unknown letters and categories, but nothing
\* else, show the usage; what is read ends where text follows the characters
\* skipped, so that verbose-disasm hides the rest of its list (opt.c, main.c).
OptionsAsDocumented ==
    part = "options" =>
      /\ O!TypeOK /\ O!FlagsAsDocumented /\ O!GuestArguments
      /\ O!UsageOnlyForUnknown /\ O!UnknownNotPassed

\* The analyzer counts every pair of the segment under its own mnemonics, flags
\* and immediates, in nodes that never overlap, and its report lists everything
\* that occurs, of pairs of mnemonics the most frequent, the most used first
\* (add_instruction, analyze).
SegmentCounted ==
    part = "analyzer" =>
      /\ A!TypeOK /\ A!PairsCounted /\ A!NodesApart
      /\ A!RankingsComplete /\ A!CombinationsRanked /\ A!EntriesRanked /\ A!MostUsedFirst
=============================================================================
