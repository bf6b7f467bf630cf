----------------------------- MODULE MCAssembly -----------------------------
(***************************************************************************)
(* Pools for TLC: one backend is in both pools, and one that does not      *)
(* parse is in the pool of the client the program built.  A tenant file    *)
(* that is not read sets every field or none.                              *)
(***************************************************************************)
EXTENDS Assembly

MCPoolOf == [users |-> {"b1", "b2"}, billing |-> {"b1", "bad"}]
MCUnreadTexts == {{}, Fields}
=============================================================================
