---------------------------- MODULE MCExitCode ----------------------------
(* Every kind of exit, to the block itself, to the next one and to another *)
(* one, with blocks close to each other and out of reach of a short jump.  *)
EXTENDS ExitCode

AllExits == [kind : {"BRANCH"}, mnem : BranchOps, zero : BOOLEAN, target : Addrs]
            \cup [kind : {"JAL"}, target : Addrs]
            \cup [kind : {"PC_NEXT_INST"}, target : {next}]

NearAndFar == {0, 160}

\* The arithmetic that the theorems of ExitCodeProofs assume is so here.
ASSUME SmallWords == PowersOf2
=============================================================================
