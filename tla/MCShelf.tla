------------------------------ MODULE MCShelf ------------------------------
(***************************************************************************)
(* One client, for TLC: the instance satisfies what OneClient asks for.    *)
(***************************************************************************)
EXTENDS MCLibrary, OneClient

ASSUME SequentialAssumption == Sequential /\ Furnished
=============================================================================
