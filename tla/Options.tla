------------------------------ MODULE Options ------------------------------
(***************************************************************************)
(* The command line (src/env/opt.c) and what main() does with it: options  *)
(* set and reset flags until the executable is named, what follows belongs *)
(* to the guest.                                                           *)
(*                                                                         *)
(* An argument is a record.  form is "plain" (not an option), "end" (--),  *)
(* "short" (a cluster of letters) or "long" (a name, with categories where *)
(* `=' follows).  A name stands for every string it is a prefix of, which  *)
(* is how the code compares; a category has the word that is compared, and *)
(* what its text has more, up to the comma.                                *)
(***************************************************************************)
EXTENDS Integers, Sequences

CONSTANTS
    Arguments,         \* the arguments a user may give
    MaxArgs            \* bound: how many

\* An argument is a string: a cluster has the letters it has, a list its texts.
ArgumentsAssumption ==
    \A arg \in Arguments :
      /\ arg.letters \in Seq(STRING)
      /\ arg.categories \in Seq([word : STRING, more : STRING])

VARIABLES
    argv,              \* the arguments, without the program's name
    optind,            \* the next argument to look at
    letter,            \* where in the cluster or list argv[optind - 1]; 0 between arguments
    flags,             \* the flags that are true
    file_path,         \* index of the argument naming the executable, 0 is NULL
    status             \* how far main() is

vars == <<argv, optind, letter, flags, file_path, status>>
-----------------------------------------------------------------------------
Optimizations == {"ras", "chain", "jump", "fusion"}
Analyses == {"mnem", "reg", "pattern"}
Logs == {"general", "syscall", "asm_in", "asm_out", "verbose", "reg_dump", "cache",
         "cache_contents", "context"}
Flags == Optimizations \cup Analyses \cup Logs
           \cup {"silently", "single_step", "benchmark", "profile", "perf"}

\* What a letter, a category or a long name does to the flags.
On(f, set) == f \cup set
Off(f, set) == f \ set

NoOptimizations(f) == Off(f, Optimizations)

\* The comma follows the word at once.
NoText == ""

\* Of verbose-disasm eleven characters are compared and skipped.
LogCategories == {"general", "asm-in", "asm-out", "reg", "cache", "cache-contents", "strace",
                  "verbose-dis", "context"}
Log(f, c) ==
    On(f, CASE c = "general" -> {"general"}       [] c = "asm-in" -> {"asm_in"}
            [] c = "asm-out" -> {"asm_out", "verbose"}
            [] c = "reg" -> {"reg_dump"}          [] c = "cache" -> {"cache"}
            [] c = "cache-contents" -> {"cache", "cache_contents"}
            [] c = "strace" -> {"syscall"}        [] c = "verbose-dis" -> {"verbose"}
            [] c = "context" -> {"context"})

OptimizeCategories == {"no-ras", "no-chain", "no-jump", "no-fusion", "singlestep", "none"}
Optimize(f, c) ==
    CASE c = "no-ras" -> Off(f, {"ras"})     [] c = "no-chain" -> Off(f, {"chain"})
      [] c = "no-jump" -> Off(f, {"jump"})   [] c = "no-fusion" -> Off(f, {"fusion"})
      [] c = "singlestep" -> On(f, {"single_step"})
      [] c = "none" -> NoOptimizations(f)

LongFlags(name) ==
    CASE name = "perf" -> {"perf"}               [] name = "benchmark" -> {"benchmark"}
      [] name = "profile" -> {"profile"}         [] name = "fail-silently" -> {"silently"}
      [] name = "analyze-all" -> Analyses        [] name = "analyze-mnem" -> {"mnem"}
      [] name = "analyze-reg" -> {"reg"}         [] name = "analyze-pattern" -> {"pattern"}
      [] OTHER -> {}

ShortLetters == {"a", "g", "i", "o", "r", "c", "s", "d", "m", "b", "p"}
Short(f, c) ==
    CASE c = "a" -> On(f, Analyses)              [] c = "g" -> On(f, {"general", "syscall"})
      [] c = "i" -> On(f, {"asm_in"})            [] c = "o" -> On(f, {"asm_out", "verbose"})
      [] c = "r" -> On(f, {"reg_dump"})          [] c = "c" -> On(f, {"cache"})
      [] c = "s" -> On(f, {"silently"})          [] c = "d" -> On(f, {"single_step"})
      [] c = "m" -> NoOptimizations(f)           [] c = "b" -> On(f, {"benchmark"})
      [] c = "p" -> On(f, {"profile"})
-----------------------------------------------------------------------------
Init ==
    /\ argv \in UNION {[1 .. n -> Arguments] : n \in 0 .. MaxArgs}
    /\ optind = 1
    /\ letter = 0
    /\ flags = Optimizations
    /\ file_path = 0
    /\ status = IF argv = <<>> THEN "help" ELSE "options"

Arg == argv[optind - 1]

Exit(how) == status' = how /\ UNCHANGED <<argv, optind, letter, flags, file_path>>

\* while (argv[optind] != NULL && strcmp(argv[optind], "--") != 0)
MoreArguments == optind <= Len(argv) /\ argv[optind].form # "end"

NextArgument ==
    /\ status = "options" /\ letter = 0 /\ MoreArguments
    /\ \/ argv[optind].form = "plain" /\ Exit("help")
       \/ /\ argv[optind].form \in {"short", "long"}
          /\ optind' = optind + 1
          /\ letter' = 1
          /\ UNCHANGED <<argv, flags, file_path, status>>

EndParsing(file, f) ==
    /\ file_path' = file
    /\ flags' = f
    /\ letter' = 0
    /\ status' = IF file = 0 THEN "no file" ELSE "parsed"
    /\ UNCHANGED <<argv, optind>>

NoMoreArguments ==
    /\ status = "options" /\ letter = 0 /\ ~MoreArguments
    /\ EndParsing(0, flags)

\* Mutant: the name itself is not passed on.
FileSkipped ==
    /\ file_path' = optind /\ optind' = optind + 1 /\ letter' = 0
    /\ status' = IF optind > Len(argv) THEN "no file" ELSE "parsed"
    /\ UNCHANGED <<argv, flags>>

\* -f and --file: the next argument names the executable and parsing ends.
File == EndParsing(IF optind <= Len(argv) THEN optind ELSE 0, flags)

\* The next argument, or the next letter of this one.
Continue(f, next) ==
    flags' = f /\ letter' = next /\ UNCHANGED <<argv, optind, file_path, status>>

ShortOption ==
    /\ status = "options" /\ letter > 0 /\ Arg.form = "short"
    /\ IF letter > Len(Arg.letters) THEN Continue(flags, 0)
       ELSE LET c == Arg.letters[letter]
            IN \/ c = "f" /\ File
               \/ c = "v" /\ Exit("version")
               \/ c = "-" /\ Continue(flags, 0)     \* taken for a long option without a name
               \/ c \in ShortLetters /\ Continue(Short(flags, c), letter + 1)
               \/ c \notin ShortLetters \cup {"f", "v", "-"} /\ Exit("help")

Known(list) == IF list = "log" THEN LogCategories ELSE OptimizeCategories
Category(f, list, c) == IF list = "log" THEN Log(f, c) ELSE Optimize(f, c)

\* The loop over a list goes on while a comma follows what it has skipped.
MoreCategories(categories, k) == k < Len(categories) /\ categories[k].more = NoText

IsList(arg) == arg.form = "long" /\ arg.name \in {"log", "optimize"} /\ arg.categories # <<>>

\* One category of --log= or --optimize=; an unknown one ends the translator.
ListOption ==
    /\ status = "options" /\ letter > 0 /\ IsList(Arg)
    /\ LET c == Arg.categories[letter].word
       IN IF c \in Known(Arg.name)
          THEN Continue(Category(flags, Arg.name, c),
                        IF MoreCategories(Arg.categories, letter) THEN letter + 1 ELSE 0)
          ELSE Exit("help")

LongOption ==
    /\ status = "options" /\ letter > 0 /\ Arg.form = "long" /\ ~IsList(Arg)
    /\ \/ Arg.name = "help" /\ Exit("help")
       \/ Arg.name = "version" /\ Exit("version")
       \/ Arg.name = "file" /\ File
       \/ Arg.name \notin {"help", "version", "file"}
            /\ Continue(On(flags, LongFlags(Arg.name)), 0)

\* main() after parse_cmd_arguments() returned status 0.
Run ==
    /\ status = "parsed"
    /\ Exit(IF flags \cap Analyses # {} THEN "analyze" ELSE "transcode")

Next == NextArgument \/ NoMoreArguments \/ ShortOption \/ ListOption \/ LongOption \/ Run

Spec == Init /\ [][Next]_vars

\* guestArgv of transcode_loop(): argv from last_optind on.
guestArgv == SubSeq(argv, optind, Len(argv))
-----------------------------------------------------------------------------
TypeOK ==
    /\ optind \in 1 .. Len(argv) + 1
    /\ letter \in Nat
    /\ flags \subseteq Flags
    /\ file_path \in 0 .. Len(argv)
    /\ status \in {"options", "help", "version", "no file", "parsed", "analyze", "transcode"}

\* What the usage text says of an option: a letter stands for the long
\* options in parentheses after it.
Atom(name, c) == <<name, c>>
Meaning(c) ==
    CASE c = "a" -> {Atom("analyze-all", "")}    [] c = "b" -> {Atom("benchmark", "")}
      [] c = "p" -> {Atom("profile", "")}        [] c = "s" -> {Atom("fail-silently", "")}
      [] c = "g" -> {Atom("log", "general"), Atom("log", "strace")}
      [] c = "i" -> {Atom("log", "asm-in")}
      [] c = "o" -> {Atom("log", "asm-out"), Atom("log", "verbose-dis")}
      [] c = "r" -> {Atom("log", "reg")}         [] c = "c" -> {Atom("log", "cache")}
      [] c = "d" -> {Atom("optimize", "singlestep")}
      [] c = "m" -> {Atom("optimize", "none")}
      [] OTHER -> {}

\* Where an argument is read: a cluster up to -f or a hyphen in it, a list up to
\* a category whose text goes on behind the word.
Places(arg) ==
    CASE arg.form = "short" ->
           {k \in DOMAIN arg.letters : \A j \in 1 .. k - 1 : arg.letters[j] \notin {"f", "-"}}
      [] IsList(arg) ->
           {k \in DOMAIN arg.categories : \A j \in 1 .. k - 1 : arg.categories[j].more = NoText}
      [] OTHER -> {1}

\* The places of argument i that have been read.
Seen(i) == {k \in Places(argv[i]) : i = optind - 1 /\ letter > 0 => k < letter}

AtomsAt(arg, k) ==
    CASE arg.form = "short" -> Meaning(arg.letters[k])
      [] IsList(arg) -> {Atom(arg.name, arg.categories[k].word)}
      [] arg.form = "long" /\ ~IsList(arg) -> {Atom(arg.name, "")}
      [] OTHER -> {}

Given == UNION {UNION {AtomsAt(argv[i], k) : k \in Seen(i)} : i \in 1 .. optind - 1}

\* The options the usage text and --log=help name for a flag: they turn an
\* optimization off, and everything else on.
LogAtoms(set) == {Atom("log", c) : c \in set}
OptionsFor(flag) ==
    CASE flag = "ras" -> {Atom("optimize", "none"), Atom("optimize", "no-ras")}
      [] flag = "chain" -> {Atom("optimize", "none"), Atom("optimize", "no-chain")}
      [] flag = "jump" -> {Atom("optimize", "none"), Atom("optimize", "no-jump")}
      [] flag = "fusion" -> {Atom("optimize", "none"), Atom("optimize", "no-fusion")}
      [] flag = "mnem" -> {Atom("analyze-all", ""), Atom("analyze-mnem", "")}
      [] flag = "reg" -> {Atom("analyze-all", ""), Atom("analyze-reg", "")}
      [] flag = "pattern" -> {Atom("analyze-all", ""), Atom("analyze-pattern", "")}
      [] flag = "silently" -> {Atom("fail-silently", "")}
      [] flag = "single_step" -> {Atom("optimize", "singlestep")}
      [] flag \in {"benchmark", "profile", "perf"} -> {Atom(flag, "")}
      [] flag = "syscall" -> LogAtoms({"strace"})
      [] flag = "asm_in" -> LogAtoms({"asm-in"})
      [] flag = "asm_out" -> LogAtoms({"asm-out"})
      [] flag = "verbose" -> LogAtoms({"asm-out", "verbose-dis"})
      [] flag = "reg_dump" -> LogAtoms({"reg"})
      [] flag = "cache" -> LogAtoms({"cache", "cache-contents"})
      [] flag = "cache_contents" -> LogAtoms({"cache-contents"})
      [] flag \in {"general", "context"} -> LogAtoms({flag})

Promised(flag) == (flag \in Optimizations) = (Given \cap OptionsFor(flag) = {})

Started == status \in {"analyze", "transcode"}

\* The flags are those the usage text promises for what has been read of the
\* options, in whatever order and spelling they come.  Not all that is given is
\* read, though "--log=category,[...]" promises a list: of verbose-disasm the
\* code skips eleven characters, sees no comma, and drops the categories behind
\* it, known or not, without a word (opt.c:72); so does any text behind a word.
FlagsAsDocumented == flags = {f \in Flags : Promised(f)}

\* "All options after the file path are passed to the guest": the guest's
\* arguments begin with the executable, which follows the first -f, and no
\* argument is lost.
GuestArguments ==
    Started =>
      /\ file_path = optind
      /\ guestArgv = SubSeq(argv, file_path, Len(argv))
      /\ \/ argv[file_path - 1].form = "long" /\ argv[file_path - 1].name = "file"
         \/ /\ argv[file_path - 1].form = "short"
            /\ \E i \in DOMAIN argv[file_path - 1].letters : argv[file_path - 1].letters[i] = "f"

\* A letter or a category the code has no case for.
UnknownAt(arg, k) ==
    CASE arg.form = "short" -> arg.letters[k] \notin ShortLetters \cup {"f", "v", "-"}
      [] IsList(arg) -> arg.categories[k].word \notin Known(arg.name)
      [] OTHER -> arg.form = "plain"

\* The usage is shown to those who ask for it or give something unknown where
\* the code reads it: a documented option never ends the translator.
UsageOnlyForUnknown ==
    status = "help" =>
      \/ argv = <<>>
      \/ \E i \in {optind - 1, optind} \cap DOMAIN argv :
           \/ argv[i].form = "long" /\ argv[i].name = "help"
           \/ \E k \in Places(argv[i]) : UnknownAt(argv[i], k)

\* Nothing unknown is passed over: what runs has options that are all known,
\* as far as they are read (unknown long options are not: opt.c:160).
UnknownNotPassed ==
    \A i \in 1 .. optind - 1 : \A k \in Seen(i) : ~UnknownAt(argv[i], k)

=============================================================================
