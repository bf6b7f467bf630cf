------------------------------ MODULE Assembly ------------------------------
(***************************************************************************)
(* From configuration to serving: a RuntimeConfig is built or loaded, the  *)
(* program builds its clients from it, and serve() resolves each part of   *)
(* the runtime from the builder, the configuration or a default.  Once it  *)
(* serves, the clients carry the handlers' outbound calls.                 *)
(***************************************************************************)
EXTENDS ConfigLayers, EgressPool

VARIABLES
  part,      \* position in Parts of what serve() resolves next
  resolved,  \* how the part before it was resolved
  sampler    \* BackgroundSampler has been spawned

avars == <<cvars, part, resolved, sampler>>
allvars == <<avars, evars>>

\* The parts in the order serve() resolves them, each with the field of the
\* configuration it falls back to.
Part(name, field) == [name |-> name, field |-> field]

Parts ==
  << Part("tracing", "observability"),
     Part("http_tls", "http_tls"), Part("grpc_tls", "grpc_tls"),
     Part("http_verifier", "http_auth"),
     Part("allow_unauthenticated", "grpc_allow_unauthenticated"),
     Part("metrics_provider", "metrics_backend"),
     Part("tracer_provider", "tracer_backend"), Part("log_backend", "log_backend"),
     Part("observer", "none"), Part("ingress", "none"),
     Part("egress_http", "egress_http"), Part("egress_grpc", "egress_grpc"),
     Part("lifecycle", "none"), Part("intrusion", "intrusion") >>

\* Parts built from the configuration by a call that can fail.
Built == {"http_verifier", "metrics_provider", "tracer_provider", "log_backend",
          "egress_http", "egress_grpc", "intrusion"}

Builder == Program + 1

NotResolved == [name |-> "none", field |-> "none", from |-> 0, supplied |-> FALSE]

AssemblyInit ==
  /\ ConfigInit
  /\ EgressInit
  /\ part = 1
  /\ resolved = NotResolved
  /\ sampler = FALSE

Set(field) == field \in Fields /\ cfg[field] # 0

\* Without a metrics endpoint there is no provider, a supplied one included.
Skipped(p) == p.name = "metrics_provider" /\ ~Set("metrics")

\* The layer a part comes from: builder, configuration, else default or none.
Origin(p, supplied) ==
  IF Skipped(p) THEN 0
  ELSE IF supplied THEN Builder
  ELSE IF Set(p.field) THEN cfg[p.field] ELSE 0

CanFail(p, from) ==
  \/ p.name \in Built /\ from \in 1..Program
  \/ p.name = "egress_http" /\ from = 0
  \/ p.name = "ingress" /\ from = 0

Resolving == stage = "loaded" /\ part <= Len(Parts)

\* The sampler is spawned as soon as the metrics provider is there.
Resolve ==
  /\ Resolving
  /\ \E supplied \in BOOLEAN :
       LET p == Parts[part]
       IN  /\ p.name = "ingress" => supplied
           /\ resolved' = [name |-> p.name, field |-> p.field,
                           from |-> Origin(p, supplied), supplied |-> supplied]
           /\ sampler' = (sampler \/ (p.name = "metrics_provider" /\ ~Skipped(p)))
  /\ part' = part + 1
  /\ UNCHANGED <<cvars, evars>>

\* serve() returns StartFailed; the sampler it may have spawned goes on.
ResolveFails ==
  /\ Resolving
  /\ \E supplied \in BOOLEAN : CanFail(Parts[part], Origin(Parts[part], supplied))
  /\ stage' = "failed"
  /\ UNCHANGED <<scope, next, cfg, written, tenantDir, part, resolved, sampler, evars>>

\* Every part is there: servers and manager take them over.
HandOver ==
  /\ stage = "loaded"
  /\ part > Len(Parts)
  /\ stage' = "serving"
  /\ scope' = "none" /\ next' = 1
  /\ cfg' = [f \in Fields |-> 0]
  /\ written' = NotWritten
  /\ tenantDir' = 0
  /\ resolved' = NotResolved
  /\ UNCHANGED <<part, sampler, evars>>

\* Before serve() the program builds clients: its own, and build_registry()
\* from the services of the configuration it was given.
BuildsClients ==
  /\ stage = "loaded"
  /\ part = 1
  /\ \/ Set("services") /\ BuildRegistry
     \/ \E s \in Services : NewClient(s)
  /\ UNCHANGED avars

\* Handlers make their calls while the runtime serves.
Serves ==
  /\ stage = "serving"
  /\ Traffic
  /\ UNCHANGED avars

AssemblyNext ==
  \/ Load /\ UNCHANGED <<part, resolved, sampler, evars>>
  \/ BuildsClients
  \/ Resolve
  \/ ResolveFails
  \/ HandOver
  \/ Serves

AssemblySpec == AssemblyInit /\ [][AssemblyNext]_allvars

-----------------------------------------------------------------------------
\* Configuration, parts and clients have their types.
ATypeOK ==
  /\ CTypeOK
  /\ ETypeOK
  /\ part \in 1..(Len(Parts) + 1)
  /\ resolved.from \in 0..Builder
  /\ sampler \in BOOLEAN

\* runtime_builder.rs: what the builder is given "Takes precedence over" the
\* TOML configuration.  End to end: whatever the files and variables say, a
\* part serve() installs comes from the builder if the builder has it, else
\* from the highest layer read that set it, else from no layer.
EffectiveIsHighest ==
  resolved.name # "none" /\ resolved.name # "metrics_provider" =>
    IF resolved.supplied THEN resolved.from = Builder
    ELSE resolved.field \in Keys =>
           /\ resolved.from = 0 \/ resolved.field \in written[resolved.from]
           /\ \A l \in Layers \ Unread : resolved.field \in written[l] => l <= resolved.from
=============================================================================
