----------------------------- MODULE Dispatcher -----------------------------
(***************************************************************************)
(* What a runtime promises its clients.  Who serves which target is fixed  *)
(* when it opens; every request is executed by whoever serves its target,  *)
(* is told that nobody does, or is turned away on the way there, and is    *)
(* over once.  The abstract specification of the layers and the jobs,      *)
(* whatever their tables and the order of registrations.                   *)
(***************************************************************************)
CONSTANTS Requests, Targets, Executors, Nobody, NoTarget

VARIABLES
  open,    \* requests are taken
  serves,  \* [Targets -> Executors \cup {Nobody}]
  stage,   \* [Requests -> where the request is]
  target,  \* [Requests -> what it has asked for]
  by       \* [Requests -> who executes it]

dpvars == <<open, serves, stage, target, by>>

Init ==
  /\ open = FALSE
  /\ serves = [t \in Targets |-> Nobody]
  /\ stage = [r \in Requests |-> "new"]
  /\ target = [r \in Requests |-> NoTarget]
  /\ by = [r \in Requests |-> Nobody]

Open ==
  /\ ~open
  /\ open' = TRUE
  /\ serves' \in [Targets -> Executors \cup {Nobody}]
  /\ UNCHANGED <<stage, target, by>>

\* The request is executed, or it is for nobody, or something stands between.
Outcome(kind, t) ==
  CASE kind = "running"  -> serves[t] # Nobody
    [] kind = "unserved" -> serves[t] = Nobody
    [] kind = "turned"   -> TRUE

Arrive(r) ==
  /\ open
  /\ stage[r] = "new"
  /\ \E kind \in {"running", "unserved", "turned"} :
       /\ stage' = [stage EXCEPT ![r] = kind]
       /\ \E t \in Targets :
            /\ Outcome(kind, t)
            /\ target' = [target EXCEPT ![r] = t]
            /\ by' = [by EXCEPT ![r] = IF kind = "running" THEN serves[t] ELSE Nobody]
  /\ UNCHANGED <<open, serves>>

\* Its executor answers, or it is dropped.
End(r) ==
  /\ stage[r] = "running"
  /\ stage' = [stage EXCEPT ![r] = "over"]
  /\ UNCHANGED <<open, serves, target, by>>

Next == Open \/ \E r \in Requests : Arrive(r) \/ End(r)

Spec == Init /\ [][Next]_dpvars

TypeOK ==
  /\ open \in BOOLEAN
  /\ serves \in [Targets -> Executors \cup {Nobody}]
  /\ stage \in [Requests -> {"new", "running", "over", "unserved", "turned"}]
  /\ target \in [Requests -> Targets \cup {NoTarget}]
  /\ by \in [Requests -> Executors \cup {Nobody}]

\* All requests for a target are served alike, or none is.
SameForAll ==
  \A r, s \in Requests :
    /\ stage[r] \in {"running", "over", "unserved"}
    /\ stage[s] \in {"running", "over", "unserved"}
    /\ target[r] = target[s]
    => by[r] = by[s]
=============================================================================
