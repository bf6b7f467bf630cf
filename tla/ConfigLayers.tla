---------------------------- MODULE ConfigLayers ----------------------------
(***************************************************************************)
(* ApplicationConfigLoader: a RuntimeConfig is the defaults, overlaid by   *)
(* the application.toml of each configuration directory, by one tenant     *)
(* file and by the environment.  The value of a field is abstracted to the *)
(* layer it came from.  The texts of the tenant's files that are there but *)
(* not read are recorded too.                                              *)
(***************************************************************************)
EXTENDS Integers, Sequences

CONSTANTS
  NDirs,     \* length of config_dirs, which goes from low to high priority
  Keys,      \* fields of RuntimeConfig that ConfigOverride has too
  Sections,  \* fields of RuntimeConfig that it lacks
  EnvKeys,   \* fields an environment variable sets
  UnreadTexts,     \* bound: what a tenant file that is not read may set
  SectionKeys,     \* keys of a section a program loads for itself
  MaxSectionFiles  \* bound: files load_section() is checked over

ASSUME LayersAssumption ==
  /\ NDirs \in Nat
  /\ Keys \cap Sections = {}
  /\ EnvKeys \subseteq Keys
  /\ "tenant_id" \in EnvKeys
  /\ UnreadTexts \subseteq SUBSET (Keys \cup Sections)
  /\ MaxSectionFiles \in Nat

Fields == Keys \cup Sections

\* The layers as the code applies them, each above those before it.  Of the
\* tenant's files one is read, and it is above every application.toml.
Dirs       == 1..NDirs
Overlay(d) == NDirs + d      \* tenants/<id>.toml in a directory
Env        == 2 * NDirs + 1
Argument   == 2 * NDirs + 2  \* the tenant asked for
Program    == 2 * NDirs + 3  \* a RuntimeConfig the program built
Layers     == 0..Program     \* 0 is RuntimeConfig::default()

VARIABLES
  stage,    \* where the configuration is
  scope,    \* what has been asked for: "plain" or "tenant"
  next,     \* the layer group load() reads next
  cfg,      \* [Fields -> Layers]: where each field's value comes from
  written,  \* history: [Layers -> SUBSET Fields], what each layer's text sets
  tenantDir \* history: the directory whose tenant file was read, or 0

cvars == <<stage, scope, next, cfg, written, tenantDir>>

NotWritten == [l \in Layers |-> {}]

ConfigInit ==
  /\ stage = "start"
  /\ scope = "none"
  /\ next = 1
  /\ cfg = [f \in Fields |-> 0]
  /\ written = NotWritten
  /\ tenantDir = 0

\* The program builds its configuration itself.
ProgramConfig ==
  /\ stage = "start"
  /\ stage' = "loaded"
  /\ \E fields \in SUBSET Fields :
       /\ cfg' = [f \in Fields |-> IF f \in fields THEN Program ELSE 0]
       /\ written' = [written EXCEPT ![Program] = fields]
  /\ UNCHANGED <<scope, next, tenantDir>>

\* load() or load_for_tenant(), whose tenant id must be valid.
LoadBegins ==
  /\ stage = "start"
  /\ stage' = "loading"
  /\ scope' \in {"plain", "tenant"}
  /\ UNCHANGED <<next, cfg, written, tenantDir>>

InvalidTenant ==
  /\ stage = "start"
  /\ scope' = "tenant"
  /\ stage' = "failed"
  /\ UNCHANGED <<next, cfg, written, tenantDir>>

\* ConfigOverride::apply_to: what the text sets and ConfigOverride has; other
\* keys of the text are ignored.  An empty tenant_id counts as not set.
ApplyTo(layer, fields) ==
  cfg' = [f \in Fields |-> IF f \in fields \cap Keys THEN layer ELSE cfg[f]]

\* application.toml of the next directory; a missing file sets nothing.
ReadDir ==
  /\ stage = "loading"
  /\ next <= NDirs
  /\ \E fields \in SUBSET Fields :
       /\ ApplyTo(next, fields)
       /\ written' = [written EXCEPT ![next] = fields]
  /\ next' = next + 1
  /\ UNCHANGED <<stage, scope, tenantDir>>

\* What the tenant's files say when that of directory d sets fields and those
\* of the directories others set what they do; elsewhere there is none.
TenantFiles(d, fields, others) ==
  [l \in Layers |->
     IF l = Overlay(d) THEN fields
     ELSE IF l - NDirs \in DOMAIN others THEN others[l - NDirs]
     ELSE written[l]]

\* A bug: the search starts at the lowest directory.
ReadOverlayLowest ==
  /\ stage = "loading" /\ scope = "tenant"
  /\ next = NDirs + 1
  /\ \E d \in Dirs, fields \in SUBSET Fields :
       \E others \in [(d + 1)..NDirs -> UnreadTexts] :
         /\ ApplyTo(Overlay(d), fields)
         /\ written' = TenantFiles(d, fields, others)
         /\ tenantDir' = d
  /\ next' = next + 1
  /\ UNCHANGED <<stage, scope>>

\* The tenant's file in the highest directory that has one; those in lower
\* directories are not read.
ReadOverlay ==
  /\ stage = "loading" /\ scope = "tenant"
  /\ next = NDirs + 1
  /\ \E d \in Dirs, fields \in SUBSET Fields :
       \E others \in [1..(d - 1) -> UnreadTexts] :
         /\ ApplyTo(Overlay(d), fields)
         /\ written' = TenantFiles(d, fields, others)
         /\ tenantDir' = d
  /\ next' = next + 1
  /\ UNCHANGED <<stage, scope>>

\* A file is too large, unreadable or no TOML; no directory has a file of the
\* tenant's; a variable does not parse.
LoadFails ==
  /\ stage = "loading"
  /\ stage' = "failed"
  /\ UNCHANGED <<scope, next, cfg, written, tenantDir>>

\* The environment follows the tenant's file, or the last directory.
EnvGroup == IF scope = "tenant" THEN NDirs + 2 ELSE NDirs + 1

\* A bug: the tenant asked for replaces whatever the layers say.
ReadEnvForced ==
  /\ stage = "loading"
  /\ next = EnvGroup
  /\ \E fields \in SUBSET EnvKeys :
       /\ cfg' = [f \in Fields |->
            IF f = "tenant_id" /\ scope = "tenant" THEN Argument
            ELSE IF f \in fields THEN Env ELSE cfg[f]]
       /\ written' = [written EXCEPT ![Env] = fields]
  /\ stage' = "loaded"
  /\ UNCHANGED <<scope, next, tenantDir>>

\* apply_env, then load_for_tenant's own field: the tenant asked for is kept
\* only if no layer has named another.
ReadEnv ==
  /\ stage = "loading"
  /\ next = EnvGroup
  /\ \E fields \in SUBSET EnvKeys :
       /\ cfg' = [f \in Fields |->
            IF f \in fields THEN Env
            ELSE IF f = "tenant_id" /\ scope = "tenant" /\ cfg[f] = 0 THEN Argument
            ELSE cfg[f]]
       /\ written' = [written EXCEPT ![Env] = fields]
  /\ stage' = "loaded"
  /\ UNCHANGED <<scope, next, tenantDir>>

Load ==
  \/ ProgramConfig
  \/ LoadBegins
  \/ InvalidTenant
  \/ ReadDir
  \/ ReadOverlay
  \/ LoadFails
  \/ ReadEnv

ConfigSpec == ConfigInit /\ [][Load]_cvars

-----------------------------------------------------------------------------
(* load_section(), which a program calls for a section of its own *)

\* What one application.toml has under the dotted key.
SectionTexts ==
  [kind : {"absent", "value"}, keys : {{}}] \cup [kind : {"table"}, keys : SUBSET SectionKeys]

EmptyTable == [kind |-> "table", from |-> [k \in SectionKeys |-> 0]]

\* The section as it is in file d: each of its keys comes from there.
SectionOf(d, text) ==
  [kind |-> text.kind, from |-> [k \in SectionKeys |-> IF k \in text.keys THEN d ELSE 0]]

\* A bug: a key that is there already is kept.
MergeValuesKept(base, overlay) ==
  IF base.kind = "table" /\ overlay.kind = "table"
    THEN [base EXCEPT !.from =
           [k \in SectionKeys |-> IF @[k] # 0 THEN @[k] ELSE overlay.from[k]]]
    ELSE overlay

\* Two tables are merged key by key, without descending into nested tables;
\* anything else is replaced.
MergeValues(base, overlay) ==
  IF base.kind = "table" /\ overlay.kind = "table"
    THEN [base EXCEPT !.from =
           [k \in SectionKeys |-> IF overlay.from[k] # 0 THEN overlay.from[k] ELSE @[k]]]
    ELSE overlay

\* The files from low to high priority, those without the section left out.
LoadSection(texts) ==
  LET merged[d \in 0..Len(texts)] ==
        IF d = 0 THEN EmptyTable
        ELSE IF texts[d].kind = "absent" THEN merged[d - 1]
        ELSE MergeValues(merged[d - 1], SectionOf(d, texts[d]))
  IN  merged[Len(texts)]

-----------------------------------------------------------------------------
CTypeOK ==
  /\ stage \in {"start", "loading", "loaded", "failed", "serving"}
  /\ scope \in {"none", "plain", "tenant"}
  /\ next \in 1..(NDirs + 2)
  /\ cfg \in [Fields -> Layers]
  /\ written \in [Layers -> SUBSET Fields]
  /\ tenantDir \in 0..NDirs

\* The tenant's files in directories below the one that was read.
Unread == {Overlay(d) : d \in 1..(tenantDir - 1)}

\* config_loader.rs, the contract of the port: application.toml, then
\* tenants/<id>.toml "on top of application.toml", then the environment.  At
\* every moment of a load a field comes from the highest layer read so far
\* that sets it, whatever a tenant's file left unread in a lower directory
\* says, and a tenant's id from the call only if no layer read has named one.
\* (application_config_loader.rs:17-19 describes another order, directory by
\* directory with a tenant file in each, which the code does not follow.)
HighestLayerWins ==
  \A f \in Keys :
    /\ cfg[f] \in {0, Argument} \/ f \in written[cfg[f]]
    /\ \A l \in Layers \ Unread : f \in written[l] => cfg[f] # Argument /\ l <= cfg[f]

\* application_config_loader.rs, load_section: "Layer order (later wins)".  A
\* program can ask for a section before anything is loaded, whatever the files
\* hold.  A key comes from the highest file that has it, unless a file above
\* that one has a plain value where the table would be: it hides every table
\* below it, and only a table above it starts the section again.
SectionLaterWins ==
  stage = "start" =>
    \A n \in 0..MaxSectionFiles : \A texts \in [1..n -> SectionTexts] :
      LET Plain(d)   == texts[d].kind = "value"
          Has(d, k)  == k \in texts[d].keys
          section    == LoadSection(texts)
      IN  /\ section.kind = "value" <=>
               \E d \in 1..n : Plain(d) /\ \A e \in (d + 1)..n : texts[e].kind = "absent"
          /\ \A k \in SectionKeys, d \in 1..n :
               section.from[k] = d <=>
                 Has(d, k) /\ \A e \in (d + 1)..n : ~Has(e, k) /\ ~Plain(e)

\* runtime_config.rs and runtime_builder.rs document sections of the TOML
\* configuration, `[intrusion]` among them, that the runtime is configured by.
\* What the operator has written in a file is in the configuration loaded.
SectionsReachRuntime ==
  stage = "loaded" =>
    \A s \in Sections : (\E l \in Layers : s \in written[l]) => cfg[s] # 0
=============================================================================
