------------------------------ MODULE BlockMap ------------------------------
(***************************************************************************)
(* What the code cache promises to the translator: a map from guest        *)
(* addresses to host code locations, in which every lookup answers with    *)
(* the location of the last set for that address, or UNSEEN_CODE when      *)
(* there was none.  cache.h declares this interface; CodeCache is the hash *)
(* table with its TLB that implements it.                                  *)
(***************************************************************************)
EXTENDS Naturals

CONSTANTS Addrs,    \* guest block addresses
          Locs      \* host code locations, TRANSLATION_STARTED (1) among them

\* "#define UNSEEN_CODE (void*) 0"
UNSEEN_CODE == 0

VARIABLES map,      \* the location stored for each address
          ret       \* the last answer of lookup_cache_entry, with its address

vars == <<map, ret>>

\* Before the first lookup nothing has been answered yet.
NoAnswer == [addr |-> UNSEEN_CODE, loc |-> UNSEEN_CODE]

Init == /\ map = [a \in Addrs |-> UNSEEN_CODE]
        /\ ret = NoAnswer

Lookup(a) == /\ ret' = [addr |-> a, loc |-> map[a]]
             /\ UNCHANGED map

Set(a, l) == /\ map' = [map EXCEPT ![a] = l]
             /\ UNCHANGED ret

Next == \E a \in Addrs : Lookup(a) \/ \E l \in Locs : Set(a, l)

Spec == Init /\ [][Next]_vars
=============================================================================
