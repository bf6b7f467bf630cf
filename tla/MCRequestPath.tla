--------------------------- MODULE MCRequestPath ----------------------------
(***************************************************************************)
(* Handlers for TLC: "a" is registered twice under different patterns, the *)
(* two parameterised patterns conflict, one handler has no pattern, one    *)
(* has a pattern that does not parse and one has a method under the        *)
(* reflection prefix.                                                      *)
(***************************************************************************)
EXTENDS ObserverBridge, TLC

MCIdOf == [home |-> "a", any |-> "a", other |-> "b", blank |-> "c",
           broken |-> "b", odd |-> "/grpc.reflection.odd"]

MCPatternOf == [home |-> "/a", any |-> "/{x}", other |-> "/{y}", blank |-> "",
                broken |-> "/{", odd |-> "/odd"]

MCConflicts == {{"/a"}, {"/{x}"}, {"/{y}"}, {"/{"}, {"/{x}", "/{y}"}}

MCMatching == [a |-> <<"/a", "/{x}", "/{y}">>, z |-> <<"/{x}", "/{y}">>]

MCSettings == {{}, {"guard", "reflection", "monitor"}}

\* The requests start alike, and no property names one.
MCSymmetry == Permutations(Requests)
=============================================================================
