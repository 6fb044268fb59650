--------------------------- MODULE MCReplacements ---------------------------
(* Small instances of Replacements: x0, three registers without a place of  *)
(* their own (so four registers share the three replacement registers) and  *)
(* one that is mapped to BX.                                                *)
EXTENDS Replacements, FiniteSets, TLC

CONSTANTS t0, t1, t2,   \* no host register of their own
          a5,          \* mapped to BX
          Kinds        \* the programs of this run, of those of FormsOf

MCRegs == {x0, t0, t1, t2, a5}
MCMap == a5 :> "BX"

VARIABLE program     \* the kind of the guest program, one of Kinds

OtherRegs == Permutations({t0, t1, t2})

\* Recencies are compared with each other and with 0, and current_recency is
\* above them all: states that agree on the order are the same state.
Rank(h) == Cardinality({g \in Replace : ri.recency[g] < ri.recency[h]})
RecencyOrder == <<ri.content, [h \in Replace |-> <<ri.recency[h] = 0, Rank(h)>>],
                  ri.host, ri.file, misread, program>>

AllForms == [family : Families, rs1 : MCRegs, rs2 : MCRegs, rd : MCRegs]

\* An operand a family does not have is x0.
Has1 == Families \ {"Upper", "FpToInt", "FpClass", "FpSign"}
Has2 == {"Reg", "Shift", "MulHigh", "MulHighSU", "Div", "Store", "Branch", "Amo", "AmoMinMax"}
HasD == Families \ {"Store", "Branch", "FpFromWord", "FpFromLong", "FpSign"}

EveryForm == {f \in AllForms : /\ f.family \notin Has1 => f.rs1 = x0
                               /\ f.family \notin Has2 => f.rs2 = x0
                               /\ f.family \notin HasD => f.rd = x0}

\* The two operands of these are not the same unmapped register, AMOMIN and
\* AMOMAX take their address from a mapped register, and no result goes to x0.
SoundForms == {f \in EveryForm :
    /\ f.family \in {"MulHigh", "MulHighSU", "Div"} => f.rs1 # f.rs2 \/ f.rs1 = a5
    /\ f.family = "AmoMinMax" => f.rs1 = a5
    /\ f.family \in HasD => f.rd # x0}

\* No register is asked for in a place of its own, results may go to x0.
AnywhereForms == {f \in EveryForm : f.family \notin
                    {"Shift", "MulHigh", "MulHighSU", "Div", "AmoMinMax", "FpClass"}}

\* Programs for which OperandsRight or X0StaysZero fails.
SquareForms == {[family |-> "Store", rs1 |-> t0, rs2 |-> t1, rd |-> x0],
                [family |-> "Upper", rs1 |-> x0, rs2 |-> x0, rd |-> t2],
                [family |-> "MulHigh", rs1 |-> t0, rs2 |-> t0, rd |-> t1]}

MinMaxForms == {[family |-> "Store", rs1 |-> t0, rs2 |-> t1, rd |-> x0],
                [family |-> "AmoMinMax", rs1 |-> t1, rs2 |-> t2, rd |-> t0]}

DroppedResultForms == {[family |-> "Imm", rs1 |-> t0, rs2 |-> x0, rd |-> x0],
                       [family |-> "Store", rs1 |-> t0, rs2 |-> t1, rd |-> x0],
                       [family |-> "Shift", rs1 |-> t1, rs2 |-> t2, rd |-> t0]}

FormsOf(p) == CASE p = "sound" -> SoundForms
                [] p = "anywhere" -> AnywhereForms
                [] p = "square" -> SquareForms
                [] p = "min_max" -> MinMaxForms
                [] p = "dropped_result" -> DroppedResultForms
MCForms == UNION {FormsOf(p) : p \in Kinds}

Of(families) == {f \in MCForms : f.family \in families}
Taken(f) == f \in FormsOf(program) /\ UNCHANGED program

MCInit == Init /\ program \in Kinds
MCNext ==
    \/ \E f \in Of({"Imm"}) : Taken(f) /\ TranslateImm(f)
    \/ \E f \in Of({"Upper"}) : Taken(f) /\ TranslateUpper(f)
    \/ \E f \in Of({"Reg"}) : Taken(f) /\ TranslateReg(f)
    \/ \E f \in Of({"Shift"}) : Taken(f) /\ TranslateShift(f)
    \/ \E f \in Of({"MulHigh", "MulHighSU"}) : Taken(f) /\ TranslateMulHigh(f)
    \/ \E f \in Of({"Div"}) : Taken(f) /\ TranslateDiv(f)
    \/ \E f \in Of({"Store"}) : Taken(f) /\ TranslateStore(f)
    \/ \E f \in Of({"Branch"}) : Taken(f) /\ TranslateBranch(f)
    \/ \E f \in Of({"Amo"}) : Taken(f) /\ TranslateAmo(f)
    \/ \E f \in Of({"AmoMinMax"}) : Taken(f) /\ TranslateAmoMinMax(f)
    \/ \E f \in Of({"FpToInt"}) : Taken(f) /\ TranslateFpToInt(f)
    \/ \E f \in Of({"FpFromWord"}) : Taken(f) /\ TranslateFpFromWord(f)
    \/ \E f \in Of({"FpFromLong"}) : Taken(f) /\ TranslateFpFromLong(f)
    \/ \E f \in Of({"FpClass"}) : Taken(f) /\ TranslateFpClass(f)
    \/ \E f \in Of({"FpSign"}) : Taken(f) /\ TranslateFpSign(f)
    \/ EndBlock /\ UNCHANGED program
MCSpec == MCInit /\ [][MCNext]_<<vars, program>>
=============================================================================
