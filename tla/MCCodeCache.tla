---------------------------- MODULE MCCodeCache ----------------------------
(***************************************************************************)
(* A small instance of CodeCache.  With two slots at first and four        *)
(* addresses the table doubles three times.  Up to eight slots, 0 and 32   *)
(* have the first as their hash, and 28 and 60 the last, so that probes    *)
(* wrap round; each pair also shares a TLB slot, and 0 is the address a    *)
(* zeroed TLB slot holds.                                                  *)
(***************************************************************************)
EXTENDS CodeCache

MCAddrs == {0, 28, 32, 60}

\* TRANSLATION_STARTED and one block.
MCLocs == {1, 2}
=============================================================================
