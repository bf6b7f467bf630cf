-------------------------- MODULE MCHealthEndpoint --------------------------
(* HealthEndpoint over one ingress and the egress. *)
EXTENDS HealthEndpoint

MCTransports == <<"ingress.http", "egress.http">>
=============================================================================
