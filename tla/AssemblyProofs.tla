--------------------------- MODULE AssemblyProofs ---------------------------
(***************************************************************************)
(* The assembly of a runtime, for any number of directories and any pools. *)
(* Its steps on the clients are steps of EgressPool, whose theorems carry  *)
(* over; of the configuration it is proved that the highest layer wins,    *)
(* while it is loaded and in the parts resolved from it.                   *)
(***************************************************************************)
EXTENDS Assembly, EgressPoolProofs, WellFoundedInduction

LEMMA AssemblyRunsEgress == AssemblySpec => EgressSpec
<1>1. AssemblyInit => EgressInit
  BY DEF AssemblyInit
<1>2. [AssemblyNext]_allvars => [EgressNext]_evars
  <2> SUFFICES ASSUME [AssemblyNext]_allvars PROVE [EgressNext]_evars
    OBVIOUS
  <2>1. CASE Load /\ UNCHANGED <<part, resolved, sampler, evars>>
    BY <2>1
  <2>2. CASE BuildsClients
    BY <2>2 DEF BuildsClients, EgressNext
  <2>3. CASE Resolve \/ ResolveFails \/ HandOver
    BY <2>3 DEF Resolve, ResolveFails, HandOver
  <2>4. CASE Serves
    BY <2>4 DEF Serves, EgressNext
  <2>5. CASE UNCHANGED allvars
    BY <2>5 DEF allvars
  <2> QED  BY <2>1, <2>2, <2>3, <2>4, <2>5 DEF AssemblyNext
<1> QED  BY <1>1, <1>2, PTL DEF AssemblySpec, EgressSpec

\* What holds of the clients holds of them in the assembled runtime: no call is
\* sent to a backend out of rotation.
THEOREM AssemblyOldCallsOnly == AssemblySpec => []OldCallsOnly
BY AssemblyRunsEgress, EgressOldCallsOnly, PTL

\* An evicted backend comes back by an old call or a report of the program's.
THEOREM AssemblyRestoredByOldCall == AssemblySpec => RestoredByOldCall
BY AssemblyRunsEgress, EgressRestoredByOldCall, PTL

\* A dead pool of the registry stays dead.
THEOREM AssemblyDeadPool == AssemblySpec => DeadPoolStaysDead
BY AssemblyRunsEgress, EgressDeadPool, PTL

-----------------------------------------------------------------------------
(***************************************************************************)
(* The configuration.  HighestLayerWins is kept by a load because layers   *)
(* are read from low to high: what has been read before the group `next`   *)
(* lies at most at Top(next), so the layer applied next is above it.       *)
(***************************************************************************)
Top(n) == IF n <= NDirs + 1 THEN n - 1 ELSE 2 * NDirs

ReadSoFar ==
  /\ written[0] = {}
  /\ stage = "start" =>
       next = 1 /\ tenantDir = 0 /\ written = NotWritten /\ \A f \in Fields : cfg[f] = 0
  /\ stage = "loading" =>
       /\ \A f \in Fields : cfg[f] <= Top(next)
       /\ \A l \in Layers : written[l] # {} => l <= Top(next)
       /\ next <= NDirs + 1 => tenantDir = 0
  /\ \A f \in Fields : cfg[f] \in (NDirs + 1)..(2 * NDirs) => cfg[f] = Overlay(tenantDir)

\* Only the tenant's id is taken from the call.
ArgumentIsTenant == \A f \in Fields : cfg[f] = Argument => f = "tenant_id"

ConfigInv == CTypeOK /\ ReadSoFar /\ ArgumentIsTenant /\ HighestLayerWins

LEMMA LayerOrder ==
  /\ NDirs \in Nat
  /\ Layers = 0..(2 * NDirs + 3) /\ Program = 2 * NDirs + 3
  /\ Env = 2 * NDirs + 1 /\ Argument = 2 * NDirs + 2
  /\ \A d \in Dirs : Overlay(d) \in (NDirs + 1)..(2 * NDirs)
  /\ Keys \subseteq Fields /\ EnvKeys \subseteq Fields
BY LayersAssumption DEF Layers, Program, Env, Argument, Overlay, Dirs, Fields

\* A layer above all that has been read is applied, before or with the tenant's
\* file: the texts below it are what they were.
LEMMA ApplyAbove ==
  ASSUME ConfigInv, stage = "loading", next <= NDirs + 1,
         NEW layer \in Layers, NEW fields \in SUBSET Fields,
         layer > Top(next), layer <= 2 * NDirs, ApplyTo(layer, fields),
         written'[layer] = fields,
         \A l \in Layers : l <= Top(next) => written'[l] = written[l],
         \A l \in Layers : written'[l] # {} => l <= layer,
         \A l \in Layers \ Unread' : l <= Top(next) \/ l = layer \/ written'[l] = {}
  PROVE  /\ cfg' \in [Fields -> Layers]
         /\ \A f \in Fields : \/ cfg'[f] = layer
                              \/ cfg'[f] = cfg[f] /\ cfg[f] <= Top(next)
         /\ written'[0] = {}
         /\ \A f \in Fields : cfg'[f] <= layer
         /\ ArgumentIsTenant' /\ HighestLayerWins'
<1>1. cfg \in [Fields -> Layers] /\ next \in 1..(NDirs + 2)
  BY DEF ConfigInv, CTypeOK
<1>2. /\ cfg' \in [Fields -> Layers]
      /\ \A f \in Fields : cfg'[f] = IF f \in fields \cap Keys THEN layer ELSE cfg[f]
  BY <1>1 DEF ApplyTo
<1>3. /\ \A f \in Fields : cfg[f] <= Top(next)
      /\ written[0] = {}
  BY DEF ConfigInv, ReadSoFar
<1>4. Unread = {}
  <2>1. tenantDir = 0
    BY DEF ConfigInv, ReadSoFar
  <2> QED  BY <2>1 DEF Unread
<1>5. Top(next) \in 0..NDirs
  BY <1>1, LayerOrder DEF Top
<1>6. written'[0] = {}
  BY <1>3, <1>5, LayerOrder
<1>7. \A f \in Fields : cfg'[f] <= layer
  BY <1>1, <1>2, <1>3, <1>5, LayerOrder
<1>8. ArgumentIsTenant'
  <2>1. \A f \in Fields : cfg'[f] # Argument
    BY <1>2, <1>7, LayerOrder
  <2> QED  BY <2>1 DEF ArgumentIsTenant, Argument
<1>9. HighestLayerWins'
  <2> SUFFICES ASSUME NEW f \in Keys
               PROVE  /\ cfg'[f] \in {0, Argument} \/ f \in written'[cfg'[f]]
                      /\ \A l \in Layers \ Unread' :
                           f \in written'[l] => cfg'[f] # Argument /\ l <= cfg'[f]
    BY DEF HighestLayerWins, Layers, Argument, Program
  <2>0. f \in Fields
    BY LayerOrder
  <2>1. CASE f \in fields
    BY <1>2, <2>0, <2>1, LayerOrder
  <2>2. CASE f \notin fields
    <3>1. cfg'[f] = cfg[f] /\ cfg[f] \in Layers /\ cfg[f] <= Top(next)
      BY <1>1, <1>2, <1>3, <2>0, <2>2
    <3>2. \A l \in Layers \ Unread' : f \in written'[l] => f \in written[l]
      BY <2>2
    <3>3. written'[cfg[f]] = written[cfg[f]]
      BY <3>1
    <3> QED  BY <1>4, <3>1, <3>2, <3>3 DEF ConfigInv, HighestLayerWins
  <2> QED  BY <2>1, <2>2
<1> QED  BY <1>2, <1>3, <1>6, <1>7, <1>8, <1>9

LEMMA ConfigInvInit == ConfigInit => ConfigInv
BY LayerOrder DEF ConfigInit, ConfigInv, CTypeOK, ReadSoFar, ArgumentIsTenant,
   HighestLayerWins, NotWritten, Unread

LEMMA LoadStep ==
  ASSUME ConfigInv, Load
  PROVE  ConfigInv'
<1>0. /\ cfg \in [Fields -> Layers] /\ written \in [Layers -> SUBSET Fields]
      /\ next \in 1..(NDirs + 2) /\ tenantDir \in 0..NDirs
      /\ scope \in {"none", "plain", "tenant"}
  BY DEF ConfigInv, CTypeOK
<1>1. CASE ProgramConfig
  <2>1. PICK fields \in SUBSET Fields :
          /\ cfg' = [f \in Fields |-> IF f \in fields THEN Program ELSE 0]
          /\ written' = [written EXCEPT ![Program] = fields]
    BY <1>1 DEF ProgramConfig
  <2>2. /\ written = NotWritten /\ stage' = "loaded" /\ UNCHANGED <<scope, next, tenantDir>>
    BY <1>1 DEF ProgramConfig, ConfigInv, ReadSoFar
  <2>3. /\ written' \in [Layers -> SUBSET Fields]
        /\ \A l \in Layers : written'[l] = IF l = Program THEN fields ELSE {}
    BY <1>0, <2>1, <2>2 DEF NotWritten
  <2>4. cfg' \in [Fields -> Layers] /\ \A f \in Fields : cfg'[f] # Argument
    BY <2>1, LayerOrder
  <2>5. CTypeOK'
    BY <1>0, <2>2, <2>3, <2>4 DEF CTypeOK, Layers, Program
  <2>6. ReadSoFar'
    <3>1. \A f \in Fields : cfg'[f] \notin (NDirs + 1)..(2 * NDirs)
      BY <2>1, LayerOrder
    <3> QED  BY <2>2, <2>3, <3>1, LayerOrder DEF ReadSoFar
  <2>7. ArgumentIsTenant'
    BY <2>4 DEF ArgumentIsTenant, Argument
  <2>8. HighestLayerWins'
    <3> SUFFICES ASSUME NEW f \in Keys
                 PROVE  /\ cfg'[f] \in {0, Argument} \/ f \in written'[cfg'[f]]
                        /\ \A l \in Layers \ Unread' :
                             f \in written'[l] => cfg'[f] # Argument /\ l <= cfg'[f]
      BY DEF HighestLayerWins, Layers, Argument, Program
    <3> QED  BY <2>1, <2>3, LayerOrder
  <2> QED  BY <2>5, <2>6, <2>7, <2>8 DEF ConfigInv
<1>2. CASE LoadBegins \/ InvalidTenant \/ LoadFails
  <2>1. /\ UNCHANGED <<cfg, written, next, tenantDir>>
        /\ stage' \in {"loading", "failed"} /\ scope' \in {"none", "plain", "tenant"}
        /\ stage' = "loading" => stage = "start"
    BY <1>0, <1>2 DEF LoadBegins, InvalidTenant, LoadFails
  <2>2. CTypeOK'
    BY <1>0, <2>1 DEF CTypeOK
  <2>3. ReadSoFar'
    <3>1. stage = "start" =>
            /\ \A f \in Fields : cfg[f] <= Top(next)
            /\ \A l \in Layers : written[l] # {} => l <= Top(next)
            /\ tenantDir = 0
      BY LayerOrder DEF ConfigInv, ReadSoFar, NotWritten, Top
    <3>2. Top(next)' = Top(next)
      BY <2>1 DEF Top
    <3> QED  BY <2>1, <3>1, <3>2 DEF ConfigInv, ReadSoFar, Overlay
  <2>4. ArgumentIsTenant' /\ HighestLayerWins'
    BY <2>1 DEF ConfigInv, ArgumentIsTenant, HighestLayerWins, Unread
  <2> QED  BY <2>2, <2>3, <2>4 DEF ConfigInv
<1>3. CASE ReadDir
  <2>1. PICK fields \in SUBSET Fields :
          ApplyTo(next, fields) /\ written' = [written EXCEPT ![next] = fields]
    BY <1>3 DEF ReadDir
  <2>2. /\ stage = "loading" /\ next <= NDirs /\ next' = next + 1
        /\ UNCHANGED <<stage, scope, tenantDir>>
    BY <1>3 DEF ReadDir
  <2>3. /\ next \in Layers /\ Top(next) = next - 1 /\ next <= 2 * NDirs
        /\ next' \in 1..(NDirs + 1) /\ Top(next') = next
    BY <1>0, <2>2, LayerOrder DEF Top
  <2>4. /\ written' \in [Layers -> SUBSET Fields]
        /\ \A l \in Layers : written'[l] = IF l = next THEN fields ELSE written[l]
    BY <1>0, <2>1
  <2>5. \A l \in Layers : written[l] # {} => l <= next - 1
    BY <2>2, <2>3 DEF ConfigInv, ReadSoFar
  <2>6. /\ cfg' \in [Fields -> Layers] /\ written'[0] = {}
        /\ \A f \in Fields : cfg'[f] <= next
        /\ ArgumentIsTenant' /\ HighestLayerWins'
    <3>1. next > Top(next) /\ next <= NDirs + 1
      BY <1>0, <2>2, <2>3, LayerOrder
    <3>2. /\ written'[next] = fields
          /\ \A l \in Layers : l <= Top(next) => written'[l] = written[l]
          /\ \A l \in Layers : written'[l] # {} => l <= next
          /\ \A l \in Layers : l <= Top(next) \/ l = next \/ written'[l] = {}
      BY <1>0, <2>3, <2>4, <2>5, LayerOrder
    <3> QED  BY <2>1, <2>2, <2>3, <3>1, <3>2, ApplyAbove
  <2>7. CTypeOK'
    BY <1>0, <2>2, <2>3, <2>4, <2>6, LayerOrder DEF CTypeOK
  <2>8. ReadSoFar'
    <3>1. tenantDir' = 0
      BY <2>2, LayerOrder, <1>0 DEF ConfigInv, ReadSoFar
    <3>2. \A l \in Layers : written'[l] # {} => l <= next
      BY <1>0, <2>4, <2>5, LayerOrder
    <3>3. \A f \in Fields : cfg'[f] \notin (NDirs + 1)..(2 * NDirs)
      BY <1>0, <2>2, <2>6, LayerOrder
    <3> QED  BY <2>2, <2>3, <2>6, <3>1, <3>2, <3>3 DEF ReadSoFar, Top
  <2> QED  BY <2>6, <2>7, <2>8 DEF ConfigInv
<1>4. CASE ReadOverlay
  <2>1. PICK d \in Dirs, fields \in SUBSET Fields :
          \E o \in [1..(d - 1) -> UnreadTexts] :
            /\ ApplyTo(Overlay(d), fields)
            /\ written' = TenantFiles(d, fields, o)
            /\ tenantDir' = d
    BY <1>4 DEF ReadOverlay
  <2>2. PICK others \in [1..(d - 1) -> UnreadTexts] :
          /\ ApplyTo(Overlay(d), fields)
          /\ written' = TenantFiles(d, fields, others)
          /\ tenantDir' = d
    BY <2>1
  <2>3. /\ stage = "loading" /\ next = NDirs + 1 /\ next' = NDirs + 2
        /\ UNCHANGED <<stage, scope>>
    BY <1>4, LayerOrder DEF ReadOverlay
  <2>4. /\ d \in 1..NDirs /\ Overlay(d) = NDirs + d /\ Overlay(d) \in Layers
        /\ Top(next) = NDirs /\ Top(next') = 2 * NDirs
    BY <2>3, LayerOrder DEF Top, Dirs, Overlay
  <2>5. /\ written' \in [Layers -> SUBSET Fields]
        /\ \A l \in Layers :
             /\ l = NDirs + d => written'[l] = fields
             /\ l - NDirs \notin 1..d => written'[l] = written[l]
    <3>1. \A e \in 1..(d - 1) : others[e] \in SUBSET Fields
      BY LayersAssumption DEF Fields
    <3>2. DOMAIN others = 1..(d - 1)
      OBVIOUS
    <3>3. ASSUME NEW l \in Layers
          PROVE  /\ written'[l] \in SUBSET Fields
                 /\ l = NDirs + d => written'[l] = fields
                 /\ l - NDirs \notin 1..d => written'[l] = written[l]
      <4>1. written'[l] = IF l = NDirs + d THEN fields
                          ELSE IF l - NDirs \in 1..(d - 1) THEN others[l - NDirs]
                          ELSE written[l]
        BY <2>2, <2>4, <3>2 DEF TenantFiles
      <4>2. l = NDirs + d => l - NDirs = d
        BY <2>4, LayerOrder
      <4>3. 1..(d - 1) \subseteq 1..d
        BY <2>4, LayerOrder
      <4>4. written'[l] \in SUBSET Fields
        BY <1>0, <3>1, <4>1
      <4>5. l - NDirs \notin 1..d => written'[l] = written[l]
        <5>1. d \in 1..d
          BY <2>4
        <5> QED  BY <4>1, <4>2, <4>3, <5>1
      <4> QED  BY <4>1, <4>4, <4>5
    <3>4. written' = [l \in Layers |-> written'[l]]
      BY <2>2 DEF TenantFiles
    <3> QED  BY <3>3, <3>4
  <2>6. \A l \in Layers : written[l] # {} => l <= NDirs
    BY <2>3, <2>4 DEF ConfigInv, ReadSoFar
  <2>7. /\ cfg' \in [Fields -> Layers] /\ written'[0] = {}
        /\ \A f \in Fields : \/ cfg'[f] = NDirs + d
                             \/ cfg'[f] = cfg[f] /\ cfg[f] <= NDirs
        /\ \A f \in Fields : cfg'[f] <= NDirs + d
        /\ \A l \in Layers : written'[l] # {} => l <= NDirs + d
        /\ ArgumentIsTenant' /\ HighestLayerWins'
    <3>1. /\ NDirs + d \in Layers /\ NDirs + d > Top(next) /\ NDirs + d <= 2 * NDirs
          /\ next <= NDirs + 1
      BY <2>3, <2>4, LayerOrder
    <3>2. /\ written'[NDirs + d] = fields
          /\ \A l \in Layers : l <= Top(next) => written'[l] = written[l]
          /\ \A l \in Layers : written'[l] # {} => l <= NDirs + d
      BY <2>4, <2>5, <2>6, LayerOrder
    <3>3. \A l \in Layers \ Unread' : l <= Top(next) \/ l = NDirs + d \/ written'[l] = {}
      <4> SUFFICES ASSUME NEW l \in Layers, l \notin Unread', l > NDirs, l # NDirs + d
                   PROVE  written'[l] = {}
        BY <2>4, LayerOrder
      <4>1. l - NDirs \notin 1..(d - 1)
        <5>1. l - NDirs \in 1..(d - 1) => l = Overlay(l - NDirs)
          BY <2>4, LayerOrder DEF Overlay
        <5> QED  BY <2>2, <5>1 DEF Unread, Overlay
      <4>2. l - NDirs \notin 1..d
        BY <2>4, <4>1, LayerOrder
      <4> QED  BY <2>5, <2>6, <4>2, LayerOrder
    <3> QED  BY <2>2, <2>3, <2>4, <3>1, <3>2, <3>3, ApplyAbove
  <2>8. CTypeOK'
    BY <1>0, <2>2, <2>3, <2>4, <2>5, <2>7, LayerOrder DEF CTypeOK
  <2>9. ReadSoFar'
    <3>1. \A f \in Fields : cfg'[f] \in (NDirs + 1)..(2 * NDirs) => cfg'[f] = NDirs + d
      BY <1>0, <2>7, LayerOrder
    <3> QED  BY <2>2, <2>3, <2>4, <2>7, <3>1, LayerOrder DEF ReadSoFar, Top, Overlay
  <2> QED  BY <2>7, <2>8, <2>9 DEF ConfigInv
<1>5. CASE ReadEnv
  <2>1. PICK fields \in SUBSET EnvKeys :
          /\ cfg' = [f \in Fields |->
               IF f \in fields THEN Env
               ELSE IF f = "tenant_id" /\ scope = "tenant" /\ cfg[f] = 0 THEN Argument
               ELSE cfg[f]]
          /\ written' = [written EXCEPT ![Env] = fields]
    BY <1>5 DEF ReadEnv
  <2>2. /\ stage = "loading" /\ stage' = "loaded"
        /\ UNCHANGED <<scope, next, tenantDir>>
    BY <1>5 DEF ReadEnv
  <2>3. /\ cfg' \in [Fields -> Layers]
        /\ \A f \in Fields :
             \/ f \in fields /\ cfg'[f] = Env
             \/ f \notin fields /\ f = "tenant_id" /\ cfg[f] = 0 /\ cfg'[f] = Argument
             \/ f \notin fields /\ cfg'[f] = cfg[f]
    BY <1>0, <2>1, LayerOrder
  <2>4. /\ written' \in [Layers -> SUBSET Fields]
        /\ \A l \in Layers : written'[l] = IF l = Env THEN fields ELSE written[l]
    BY <1>0, <2>1, LayerOrder
  <2>5. /\ \A f \in Fields : cfg[f] <= 2 * NDirs
        /\ \A l \in Layers : written[l] # {} => l <= 2 * NDirs
        /\ written[0] = {}
    <3>1. Top(next) \in 0..(2 * NDirs)
      BY <1>0, LayerOrder DEF Top
    <3> QED  BY <1>0, <2>2, <3>1, LayerOrder DEF ConfigInv, ReadSoFar
  <2>6. CTypeOK'
    BY <1>0, <2>2, <2>3, <2>4 DEF CTypeOK
  <2>7. ReadSoFar'
    <3>1. \A f \in Fields : cfg'[f] \in (NDirs + 1)..(2 * NDirs) => cfg'[f] = cfg[f]
      BY <1>0, <2>3, LayerOrder
    <3> QED  BY <2>2, <2>4, <2>5, <3>1, LayerOrder DEF ConfigInv, ReadSoFar, Overlay
  <2>8. ArgumentIsTenant'
    <3>1. \A f \in Fields : cfg'[f] = Argument => f = "tenant_id"
      BY <1>0, <2>3, <2>5, LayerOrder
    <3> QED  BY <3>1 DEF ArgumentIsTenant, Argument
  <2>9. HighestLayerWins'
    <3> SUFFICES ASSUME NEW f \in Keys
                 PROVE  /\ cfg'[f] \in {0, Argument} \/ f \in written'[cfg'[f]]
                        /\ \A l \in Layers \ Unread' :
                             f \in written'[l] => cfg'[f] # Argument /\ l <= cfg'[f]
      BY DEF HighestLayerWins, Layers, Argument, Program
    <3>0. f \in Fields /\ cfg[f] \in Layers
      BY <1>0, LayerOrder
    <3>5. Unread' = Unread
      BY <2>2 DEF Unread
    <3>1. CASE f \in fields /\ cfg'[f] = Env
      BY <2>4, <2>5, <3>1, LayerOrder
    <3>2. /\ cfg[f] \in {0, Argument} \/ f \in written[cfg[f]]
          /\ \A l \in Layers \ Unread : f \in written[l] => cfg[f] # Argument /\ l <= cfg[f]
      BY DEF ConfigInv, HighestLayerWins
    <3>3. CASE f \notin fields /\ cfg[f] = 0 /\ cfg'[f] = Argument
      <4>1. \A l \in Layers \ Unread : f \notin written[l]
        BY <2>5, <3>2, <3>3, LayerOrder
      <4> QED  BY <2>4, <3>3, <3>5, <4>1
    <3>4. CASE f \notin fields /\ cfg'[f] = cfg[f]
      <4>1. cfg[f] # Env
        BY <2>5, <3>0, LayerOrder
      <4>2. \A l \in Layers : f \in written'[l] => f \in written[l]
        BY <2>4, <3>4
      <4>3. written'[cfg[f]] = written[cfg[f]]
        BY <2>4, <3>0, <4>1
      <4> QED  BY <3>2, <3>4, <3>5, <4>2, <4>3
    <3> QED  BY <2>3, <3>0, <3>1, <3>3, <3>4
  <2> QED  BY <2>6, <2>7, <2>8, <2>9 DEF ConfigInv
<1> QED  BY <1>1, <1>2, <1>3, <1>4, <1>5 DEF Load

-----------------------------------------------------------------------------
(***************************************************************************)
(* The parts.  Nothing is resolved before the configuration is loaded, and *)
(* the configuration does not change until serve() hands the parts over.   *)
(***************************************************************************)
PartsInv ==
  /\ part \in 1..(Len(Parts) + 1)
  /\ resolved.from \in 0..Builder
  /\ sampler \in BOOLEAN
  /\ stage \in {"start", "loading"} => resolved = NotResolved

AssemblyInv == ConfigInv /\ PartsInv /\ EffectiveIsHighest

LEMMA PartFields ==
  /\ Len(Parts) = 14
  /\ \A i \in 1..14 : Parts[i].field # "tenant_id"
BY DEF Parts, Part

LEMMA EffectiveWhenNone ==
  ASSUME resolved' = NotResolved
  PROVE  EffectiveIsHighest'
BY DEF EffectiveIsHighest, NotResolved

LEMMA ResolveStep ==
  ASSUME AssemblyInv, Resolve
  PROVE  AssemblyInv'
<1>1. PICK supplied \in BOOLEAN :
        /\ resolved' = [name |-> Parts[part].name, field |-> Parts[part].field,
                        from |-> Origin(Parts[part], supplied), supplied |-> supplied]
        /\ sampler' = (sampler \/ (Parts[part].name = "metrics_provider" /\ ~Skipped(Parts[part])))
  BY DEF Resolve
<1>2. /\ stage = "loaded" /\ part \in 1..14 /\ part' = part + 1 /\ UNCHANGED cvars
  BY PartFields DEF Resolve, Resolving, AssemblyInv, PartsInv
<1>3. ConfigInv'
  BY <1>2 DEF cvars, AssemblyInv, ConfigInv, CTypeOK, ReadSoFar, Top, ArgumentIsTenant,
     HighestLayerWins, Unread, Overlay
<1>4. cfg \in [Fields -> Layers]
  BY DEF AssemblyInv, ConfigInv, CTypeOK
<1>5. Origin(Parts[part], supplied) \in 0..Builder
  BY <1>4, LayerOrder DEF Origin, Set, Builder
<1>6. PartsInv'
  <2>1. sampler' \in BOOLEAN
    BY <1>1 DEF AssemblyInv, PartsInv
  <2>2. part' \in 1..(Len(Parts) + 1)
    BY <1>2, PartFields
  <2>3. resolved'.from \in 0..Builder
    BY <1>1, <1>5
  <2>4. stage' = "loaded"
    BY <1>2 DEF cvars
  <2> QED  BY <2>1, <2>2, <2>3, <2>4 DEF PartsInv, Builder, Program, Parts, Part
<1>7. EffectiveIsHighest'
  <2> SUFFICES ASSUME resolved'.name # "metrics_provider"
               PROVE  IF resolved'.supplied THEN resolved'.from = Builder
                      ELSE resolved'.field \in Keys =>
                        /\ resolved'.from = 0 \/ resolved'.field \in written'[resolved'.from]
                        /\ \A l \in Layers \ Unread' :
                             resolved'.field \in written'[l] => l <= resolved'.from
    BY DEF EffectiveIsHighest, Builder, Program, Layers
  <2> DEFINE q == Parts[part]
  <2>1. /\ resolved'.name = q.name /\ resolved'.field = q.field
        /\ resolved'.supplied = supplied /\ resolved'.from = Origin(q, supplied)
        /\ q.field # "tenant_id" /\ written' = written /\ Unread' = Unread
    BY <1>1, <1>2, PartFields DEF cvars, Unread
  <2> HIDE DEF q
  <2>2. Origin(q, supplied) = IF supplied THEN Builder ELSE IF Set(q.field) THEN cfg[q.field] ELSE 0
    BY <2>1 DEF Origin, Skipped
  <2>3. CASE supplied
    BY <2>1, <2>2, <2>3
  <2>4. CASE ~supplied /\ q.field \in Keys
    <3>1. q.field \in Fields /\ cfg[q.field] \in Layers
      BY <1>4, <2>4, LayerOrder
    <3>2. resolved'.from = cfg[q.field]
      BY <2>1, <2>2, <2>4, <3>1 DEF Set
    <3>3. cfg[q.field] # Argument
      BY <2>1, <3>1 DEF AssemblyInv, ConfigInv, ArgumentIsTenant
    <3>4. /\ cfg[q.field] \in {0, Argument} \/ q.field \in written[cfg[q.field]]
          /\ \A l \in Layers \ Unread : q.field \in written[l] => l <= cfg[q.field]
      BY <2>4 DEF AssemblyInv, ConfigInv, HighestLayerWins
    <3> QED  BY <2>1, <2>4, <3>2, <3>3, <3>4
  <2>5. CASE ~supplied /\ q.field \notin Keys
    BY <2>1, <2>5
  <2> QED  BY <2>3, <2>4, <2>5
<1> QED  BY <1>3, <1>6, <1>7 DEF AssemblyInv

\* The rest of the state is kept while stage, configuration and parts are.
LEMMA AssemblyKept ==
  ASSUME AssemblyInv, UNCHANGED <<scope, next, cfg, written, tenantDir>>,
         UNCHANGED <<part, resolved, sampler>>,
         stage' \in {stage, "failed"}
  PROVE  AssemblyInv'
<1>1. ConfigInv'
  BY DEF AssemblyInv, ConfigInv, CTypeOK, ReadSoFar, Top, ArgumentIsTenant,
         HighestLayerWins, Unread, Overlay
<1>2. PartsInv'
  BY DEF AssemblyInv, PartsInv
<1>3. EffectiveIsHighest'
  BY DEF AssemblyInv, EffectiveIsHighest, Unread
<1> QED  BY <1>1, <1>2, <1>3 DEF AssemblyInv

LEMMA AssemblyInductive == AssemblySpec => []AssemblyInv
<1>1. AssemblyInit => AssemblyInv
  <2> SUFFICES ASSUME AssemblyInit PROVE AssemblyInv
    OBVIOUS
  <2>1. ConfigInv
    BY ConfigInvInit DEF AssemblyInit
  <2>2. PartsInv
    <3>1. part \in 1..(Len(Parts) + 1)
      BY PartFields DEF AssemblyInit
    <3>2. resolved = NotResolved /\ resolved.from \in 0..Builder
      BY LayerOrder DEF AssemblyInit, NotResolved, Builder
    <3>3. sampler \in BOOLEAN
      BY DEF AssemblyInit
    <3> QED  BY <3>1, <3>2, <3>3 DEF PartsInv
  <2>3. EffectiveIsHighest
    BY DEF AssemblyInit, EffectiveIsHighest, NotResolved
  <2> QED  BY <2>1, <2>2, <2>3 DEF AssemblyInv
<1>2. AssemblyInv /\ [AssemblyNext]_allvars => AssemblyInv'
  <2> SUFFICES ASSUME AssemblyInv, [AssemblyNext]_allvars PROVE AssemblyInv'
    OBVIOUS
  <2>1. CASE Load /\ UNCHANGED <<part, resolved, sampler, evars>>
    <3>1. ConfigInv'
      BY <2>1, LoadStep DEF AssemblyInv
    <3>2. stage \in {"start", "loading"}
      BY <2>1 DEF Load, ProgramConfig, LoadBegins, InvalidTenant, ReadDir, ReadOverlay,
         LoadFails, ReadEnv
    <3>3. resolved' = NotResolved
      BY <2>1, <3>2 DEF AssemblyInv, PartsInv
    <3>4. PartsInv'
      BY <2>1, <3>2, <3>3 DEF AssemblyInv, PartsInv
    <3> QED  BY <3>1, <3>3, <3>4, EffectiveWhenNone DEF AssemblyInv
  <2>2. CASE BuildsClients \/ Serves \/ UNCHANGED allvars
    <3>1. UNCHANGED avars
      BY <2>2 DEF BuildsClients, Serves, allvars
    <3> QED  BY <3>1, AssemblyKept DEF avars, cvars
  <2>3. CASE Resolve
    BY <2>3, ResolveStep
  <2>4. CASE ResolveFails
    BY <2>4, AssemblyKept DEF ResolveFails
  <2>5. CASE HandOver
    <3>1. /\ stage' = "serving" /\ scope' = "none" /\ next' = 1
          /\ cfg' = [f \in Fields |-> 0] /\ written' = NotWritten /\ tenantDir' = 0
          /\ resolved' = NotResolved /\ UNCHANGED <<part, sampler>>
      BY <2>5 DEF HandOver
    <3>2. ConfigInv'
      BY <3>1, LayerOrder DEF ConfigInv, CTypeOK, ReadSoFar, ArgumentIsTenant,
         HighestLayerWins, NotWritten, Unread
    <3>3. PartsInv'
      BY <3>1, LayerOrder DEF AssemblyInv, PartsInv, NotResolved, Builder
    <3> QED  BY <3>1, <3>2, <3>3, EffectiveWhenNone DEF AssemblyInv
  <2> QED  BY <2>1, <2>2, <2>3, <2>4, <2>5 DEF AssemblyNext
<1> QED  BY <1>1, <1>2, PTL DEF AssemblySpec

\* Configuration, parts and clients have their types.
THEOREM AssemblyTypeCorrect == AssemblySpec => []ATypeOK
<1>1. AssemblyInv /\ ETypeOK => ATypeOK
  BY DEF AssemblyInv, ConfigInv, PartsInv, ATypeOK
<1> QED  BY <1>1, AssemblyInductive, AssemblyRunsEgress, EgressTypeCorrect, PTL

\* At every moment a field has the value of the highest layer read that set it.
THEOREM AssemblyHighestLayer == AssemblySpec => []HighestLayerWins
BY AssemblyInductive, PTL DEF AssemblyInv, ConfigInv

(***************************************************************************)
(* The doc comment of ApplicationConfigLoader has each directory's tenant  *)
(* file overlay the result right after its application.toml.  In that      *)
(* order a layer would have this rank.                                     *)
(***************************************************************************)
CommentRank(l) ==
  IF l \in Dirs THEN 2 * l - 1
  ELSE IF l \in NDirs + 1 .. 2 * NDirs THEN 2 * (l - NDirs)
  ELSE l

\* A field that the order of the comment would give another value: the one of
\* a tenant file that was not read, or of the application.toml of a directory
\* above that of the tenant file the field has its value from.
TenantOrderGap ==
  \A f \in Keys, l \in Layers :
    f \in written[l] /\ CommentRank(l) > CommentRank(cfg[f]) =>
      \/ l \in Unread
      \/ tenantDir # 0 /\ cfg[f] = Overlay(tenantDir) /\ l \in (tenantDir + 1)..NDirs

\* Only an application.toml and a tenant file ever stand in another order.
LEMMA RanksCross ==
  ASSUME NEW l \in Layers, NEW c \in Layers, l <= c, CommentRank(l) > CommentRank(c)
  PROVE  l \in Dirs /\ c \in (NDirs + 1)..(2 * NDirs)
<1>1. CASE l \in Dirs
  BY <1>1, LayerOrder DEF CommentRank, Dirs
<1>2. CASE l \in (NDirs + 1)..(2 * NDirs)
  BY <1>2, LayerOrder DEF CommentRank, Dirs
<1>3. CASE l \notin Dirs /\ l \notin (NDirs + 1)..(2 * NDirs)
  <2>1. CommentRank(l) = l
    BY <1>3 DEF CommentRank
  <2>2. CommentRank(c) \in Nat
    BY LayerOrder DEF CommentRank, Dirs
  <2>3. l > 2 * NDirs => CommentRank(c) = c
    BY LayerOrder DEF CommentRank, Dirs
  <2>4. l = 0 \/ l > 2 * NDirs
    BY <1>3, LayerOrder DEF Dirs
  <2> QED  BY <2>1, <2>2, <2>3, <2>4, LayerOrder
<1> QED  BY <1>1, <1>2, <1>3

\* The loader differs from the order its comment gives in those two ways and in
\* no other, for any number of directories; with one directory, in none.
THEOREM AssemblyTenantOrder ==
  AssemblySpec => [](TenantOrderGap /\ (NDirs = 1 => Unread = {}))
<1>1. ConfigInv => TenantOrderGap
  <2> SUFFICES ASSUME ConfigInv, NEW f \in Keys, NEW l \in Layers \ Unread,
                      f \in written[l], CommentRank(l) > CommentRank(cfg[f])
               PROVE  /\ tenantDir # 0 /\ cfg[f] = Overlay(tenantDir)
                      /\ l \in (tenantDir + 1)..NDirs
    BY DEF TenantOrderGap
  <2>1. cfg[f] \in Layers /\ tenantDir \in 0..NDirs
    BY LayerOrder DEF ConfigInv, CTypeOK
  <2>2. l <= cfg[f]
    BY DEF ConfigInv, HighestLayerWins
  <2>3. l \in Dirs /\ cfg[f] \in (NDirs + 1)..(2 * NDirs)
    BY <2>1, <2>2, RanksCross
  <2>4. cfg[f] = Overlay(tenantDir)
    BY <2>3, LayerOrder DEF ConfigInv, ReadSoFar
  <2>5. CommentRank(l) = 2 * l - 1 /\ CommentRank(cfg[f]) = 2 * tenantDir
    BY <2>1, <2>3, <2>4, LayerOrder DEF CommentRank, Overlay, Dirs
  <2> QED  BY <2>1, <2>3, <2>4, <2>5, LayerOrder DEF Overlay, Dirs
<1>2. ConfigInv /\ NDirs = 1 => Unread = {}
  BY DEF ConfigInv, CTypeOK, Unread
<1> QED  BY <1>1, <1>2, AssemblyInductive, PTL DEF AssemblyInv

\* A part comes from the builder, else from the highest layer read that sets it.
THEOREM AssemblyEffective == AssemblySpec => []EffectiveIsHighest
BY AssemblyInductive, PTL DEF AssemblyInv

\* A section of the configuration that no ConfigOverride has a field for.
SectionsFromProgram ==
  /\ \A s \in Sections : cfg[s] \in {0, Program}
  /\ resolved.field \in Sections /\ ~resolved.supplied => resolved.from \in {0, Program}

\* However many files there are and whatever they hold, such a section has a
\* value only if the program built the configuration itself, and so has the
\* part that serve() resolves from it: what an operator writes into a file
\* never gets there.
THEOREM AssemblySectionsFromProgram == AssemblySpec => []SectionsFromProgram
<1>1. AssemblyInit => SectionsFromProgram
  BY LayersAssumption DEF AssemblyInit, ConfigInit, NotResolved, SectionsFromProgram, Fields
<1>2. AssemblyInv /\ SectionsFromProgram /\ [AssemblyNext]_allvars => SectionsFromProgram'
  <2> SUFFICES ASSUME AssemblyInv, SectionsFromProgram, [AssemblyNext]_allvars
               PROVE  SectionsFromProgram'
    OBVIOUS
  <2>1. \A s \in Sections : s \in Fields /\ s \notin Keys /\ s \notin EnvKeys /\ s # "tenant_id"
    BY LayersAssumption DEF Fields
  <2>2. CASE Load /\ UNCHANGED <<part, resolved, sampler, evars>>
    <3>1. \A s \in Sections : cfg'[s] \in {0, Program}
      <4>1. CASE ProgramConfig
        BY <2>1, <4>1 DEF ProgramConfig
      <4>2. CASE LoadBegins \/ InvalidTenant \/ LoadFails
        BY <4>2 DEF LoadBegins, InvalidTenant, LoadFails, SectionsFromProgram
      <4>3. CASE ReadDir \/ ReadOverlay
        BY <2>1, <4>3 DEF ReadDir, ReadOverlay, ApplyTo, SectionsFromProgram
      <4>4. CASE ReadEnv
        BY <2>1, <4>4 DEF ReadEnv, SectionsFromProgram
      <4> QED  BY <2>2, <4>1, <4>2, <4>3, <4>4 DEF Load
    <3> QED  BY <2>2, <3>1 DEF SectionsFromProgram, Program
  <2>3. CASE BuildsClients \/ Serves \/ ResolveFails \/ UNCHANGED allvars
    BY <2>3 DEF BuildsClients, Serves, ResolveFails, allvars, avars, cvars,
         SectionsFromProgram, Program
  <2>4. CASE Resolve
    <3>1. PICK supplied \in BOOLEAN :
            resolved' = [name |-> Parts[part].name, field |-> Parts[part].field,
                         from |-> Origin(Parts[part], supplied), supplied |-> supplied]
      BY <2>4 DEF Resolve
    <3>2. UNCHANGED cfg
      BY <2>4 DEF Resolve, cvars
    <3>3. /\ resolved'.field = Parts[part].field /\ resolved'.supplied = supplied
          /\ resolved'.from = Origin(Parts[part], supplied)
      BY <3>1
    <3>4. ASSUME resolved'.field \in Sections, ~supplied PROVE resolved'.from \in {0, Program}
      BY <3>3, <3>4 DEF Origin, SectionsFromProgram
    <3> QED  BY <3>2, <3>3, <3>4 DEF SectionsFromProgram, Program
  <2>5. CASE HandOver
    BY <2>1, <2>5 DEF HandOver, NotResolved, SectionsFromProgram
  <2> QED  BY <2>2, <2>3, <2>4, <2>5 DEF AssemblyNext
<1> QED  BY <1>1, <1>2, AssemblyInductive, PTL DEF AssemblySpec
-----------------------------------------------------------------------------
(***************************************************************************)
(* load_section, for any number of files.  SectionUpTo says in closed form *)
(* what the first d files amount to; it obeys the recursion of LoadSection *)
(* and is, by induction on d, the only function that does.  The induction  *)
(* is a least counterexample: < is well-founded on the natural numbers.    *)
(***************************************************************************)

\* Key k of the section comes from file e, of the first d.
Supplies(texts, k, d, e) ==
  /\ k \in texts[e].keys
  /\ \A c \in (e + 1)..d : k \notin texts[c].keys /\ texts[c].kind # "value"

\* A plain value is the last that the first d files say.
EndsPlain(texts, d) ==
  \E e \in 1..d : /\ texts[e].kind = "value"
                  /\ \A c \in (e + 1)..d : texts[c].kind = "absent"

SectionUpTo(texts, d) ==
  [kind |-> IF EndsPlain(texts, d) THEN "value" ELSE "table",
   from |-> [k \in SectionKeys |->
               IF \E e \in 1..d : Supplies(texts, k, d, e)
                 THEN CHOOSE e \in 1..d : Supplies(texts, k, d, e)
                 ELSE 0]]

LEMMA LeastNatural ==
  ASSUME NEW S, S \subseteq Nat, S # {}
  PROVE  \E m \in S : \A n \in S : m <= n
<1> DEFINE LessThan == OpToRel(<, Nat)
<1>1. PICK m \in S : \A n \in S : ~(<<n, m>> \in LessThan)
  <2>1. IsWellFoundedOn(LessThan, Nat)
    BY NatLessThanWellFounded
  <2> HIDE DEF LessThan
  <2> QED  BY <2>1, WFMin
<1>2. ASSUME NEW n \in S PROVE m <= n
  <2>1. ~(n < m)
    BY <1>1 DEF OpToRel
  <2> QED  BY <2>1
<1> QED  BY <1>2

LEMMA TextFields ==
  ASSUME NEW text \in SectionTexts
  PROVE  /\ text.kind \in {"absent", "value", "table"}
         /\ text.keys \subseteq SectionKeys
         /\ text.kind # "table" => text.keys = {}
BY DEF SectionTexts

\* At most one file supplies a key.
LEMMA OneSupplier ==
  ASSUME NEW texts, NEW k \in SectionKeys, NEW d \in Nat, NEW e \in 1..d
  PROVE  /\ SectionUpTo(texts, d).from[k] \in 0..d
         /\ SectionUpTo(texts, d).from[k] = e <=> Supplies(texts, k, d, e)
<1> DEFINE from == IF \E x \in 1..d : Supplies(texts, k, d, x)
                     THEN CHOOSE x \in 1..d : Supplies(texts, k, d, x)
                     ELSE 0
<1>1. SectionUpTo(texts, d).from[k] = from
  BY DEF SectionUpTo
<1>2. ASSUME NEW x \in 1..d, Supplies(texts, k, d, x), NEW y \in 1..d, Supplies(texts, k, d, y)
      PROVE  x = y
  <2>1. ~(x < y)
    BY <1>2 DEF Supplies
  <2>2. ~(y < x)
    BY <1>2 DEF Supplies
  <2> QED  BY <2>1, <2>2
<1>3. CASE \E x \in 1..d : Supplies(texts, k, d, x)
  <2>1. from \in 1..d /\ Supplies(texts, k, d, from)
    BY <1>3
  <2> HIDE DEF from
  <2> QED  BY <1>1, <1>2, <2>1
<1>4. CASE ~\E x \in 1..d : Supplies(texts, k, d, x)
  BY <1>1, <1>4
<1> QED  BY <1>3, <1>4

LEMMA UpToNone ==
  ASSUME NEW texts
  PROVE  SectionUpTo(texts, 0) = EmptyTable
<1>1. 1..0 = {}
  OBVIOUS
<1> QED  BY <1>1 DEF SectionUpTo, EndsPlain, EmptyTable

\* A key comes from the last file if it has the key, from no file if that has a
\* plain value, and else from where it came before.
LEMMA LastSupplier ==
  ASSUME NEW n \in Nat, NEW texts \in [1..n -> SectionTexts], NEW d \in 1..n,
         NEW k \in SectionKeys
  PROVE  SectionUpTo(texts, d).from[k] =
           IF k \in texts[d].keys THEN d
           ELSE IF texts[d].kind = "value" THEN 0 ELSE SectionUpTo(texts, d - 1).from[k]
<1> DEFINE now == SectionUpTo(texts, d).from[k]
           before == SectionUpTo(texts, d - 1).from[k]
<1>1. d - 1 \in Nat /\ d \in Nat /\ d \in 1..d
  OBVIOUS
<1>2. now \in 0..d /\ \A e \in 1..d : now = e <=> Supplies(texts, k, d, e)
  BY <1>1, OneSupplier
<1>3. \A e \in 1..(d - 1) : before = e <=> Supplies(texts, k, d - 1, e)
  BY <1>1, OneSupplier
<1>4. before \in 0..(d - 1)
  <2>1. CASE d = 1
    <3>1. 1..(d - 1) = {}
      BY <2>1
    <3> QED  BY <1>1, <3>1 DEF SectionUpTo
  <2>2. CASE d # 1
    <3>1. 1 \in 1..(d - 1)
      BY <2>2
    <3> QED  BY <1>1, <3>1, OneSupplier
  <2> QED  BY <2>1, <2>2
<1> HIDE DEF now, before
<1>5. Supplies(texts, k, d, d) <=> k \in texts[d].keys
  BY DEF Supplies
<1>6. ASSUME NEW e \in 1..(d - 1)
      PROVE  Supplies(texts, k, d, e) <=>
               /\ Supplies(texts, k, d - 1, e)
               /\ k \notin texts[d].keys /\ texts[d].kind # "value"
  <2>1. (e + 1)..d = ((e + 1)..(d - 1)) \cup {d}
    OBVIOUS
  <2> QED  BY <2>1 DEF Supplies
<1>7. CASE k \in texts[d].keys
  BY <1>1, <1>2, <1>5, <1>7 DEF now, before
<1>8. CASE k \notin texts[d].keys /\ texts[d].kind = "value"
  <2>1. \A e \in 1..d : now # e
    BY <1>2, <1>5, <1>6, <1>8
  <2>2. now = 0
    BY <1>2, <2>1
  <2> QED  BY <1>8, <2>2 DEF now
<1>9. CASE k \notin texts[d].keys /\ texts[d].kind # "value"
  <2>1. now # d
    BY <1>1, <1>2, <1>5, <1>9
  <2>2. \A e \in 1..(d - 1) : now = e <=> before = e
    BY <1>2, <1>3, <1>6, <1>9
  <2>3. now \in 0..(d - 1)
    BY <1>2, <2>1
  <2>4. now = before
    <3>1. CASE now = 0
      BY <1>4, <2>2, <3>1
    <3>2. CASE now # 0
      BY <2>2, <2>3, <3>2
    <3> QED  BY <3>1, <3>2
  <2> QED  BY <1>9, <2>4 DEF now, before
<1> QED  BY <1>7, <1>8, <1>9

\* Below a plain value that nothing has been written above, no key has a file.
LEMMA PlainHidesAll ==
  ASSUME NEW n \in Nat, NEW texts \in [1..n -> SectionTexts], NEW d \in 0..n,
         EndsPlain(texts, d), NEW k \in SectionKeys
  PROVE  SectionUpTo(texts, d).from[k] = 0
<1>1. PICK p \in 1..d : /\ texts[p].kind = "value"
                        /\ \A c \in (p + 1)..d : texts[c].kind = "absent"
  BY DEF EndsPlain
<1>2. ASSUME NEW e \in 1..d PROVE ~Supplies(texts, k, d, e)
  <2>1. CASE e < p
    BY <1>1, <2>1 DEF Supplies
  <2>2. CASE e >= p
    <3>1. texts[e] \in SectionTexts /\ texts[e].kind # "table"
      BY <1>1, <2>2
    <3> QED  BY <3>1, TextFields DEF Supplies
  <2> QED  BY <2>1, <2>2
<1> QED  BY <1>2 DEF SectionUpTo

\* How a plain value at the end comes and goes.
LEMMA LastPlain ==
  ASSUME NEW n \in Nat, NEW texts \in [1..n -> SectionTexts], NEW d \in 1..n
  PROVE  EndsPlain(texts, d) <=>
           \/ texts[d].kind = "value"
           \/ texts[d].kind = "absent" /\ EndsPlain(texts, d - 1)
<1>1. CASE texts[d].kind = "value"
  <2>1. d \in 1..d /\ \A c \in (d + 1)..d : texts[c].kind = "absent"
    OBVIOUS
  <2> QED  BY <1>1, <2>1 DEF EndsPlain
<1>2. CASE texts[d].kind # "value"
  <2>1. ASSUME NEW e \in 1..(d - 1)
        PROVE  (\A c \in (e + 1)..d : texts[c].kind = "absent") <=>
                 /\ texts[d].kind = "absent"
                 /\ \A c \in (e + 1)..(d - 1) : texts[c].kind = "absent"
    <3>1. (e + 1)..d = ((e + 1)..(d - 1)) \cup {d}
      OBVIOUS
    <3> QED  BY <3>1
  <2>2. 1..d = (1..(d - 1)) \cup {d}
    OBVIOUS
  <2> QED  BY <1>2, <2>1, <2>2 DEF EndsPlain
<1> QED  BY <1>1, <1>2

\* One file more is one more step of LoadSection's recursion.
LEMMA UpToNext ==
  ASSUME NEW n \in Nat, NEW texts \in [1..n -> SectionTexts], NEW d \in 1..n
  PROVE  SectionUpTo(texts, d) =
           IF texts[d].kind = "absent" THEN SectionUpTo(texts, d - 1)
           ELSE MergeValues(SectionUpTo(texts, d - 1), SectionOf(d, texts[d]))
<1> DEFINE now == SectionUpTo(texts, d)
           before == SectionUpTo(texts, d - 1)
           own == SectionOf(d, texts[d])
<1>1. /\ texts[d].kind \in {"absent", "value", "table"}
      /\ texts[d].kind # "table" => texts[d].keys = {}
  BY TextFields
<1>2. /\ now = [kind |-> now.kind, from |-> [k \in SectionKeys |-> now.from[k]]]
      /\ before = [kind |-> before.kind, from |-> [k \in SectionKeys |-> before.from[k]]]
  BY DEF SectionUpTo
<1>3. /\ now.kind = IF EndsPlain(texts, d) THEN "value" ELSE "table"
      /\ before.kind = IF EndsPlain(texts, d - 1) THEN "value" ELSE "table"
  BY DEF SectionUpTo
<1>4. /\ own = [kind |-> texts[d].kind, from |-> [k \in SectionKeys |-> own.from[k]]]
      /\ own.kind = texts[d].kind
      /\ \A k \in SectionKeys : own.from[k] = IF k \in texts[d].keys THEN d ELSE 0
  BY DEF SectionOf
<1>5. \A k \in SectionKeys :
        now.from[k] = IF k \in texts[d].keys THEN d
                      ELSE IF texts[d].kind = "value" THEN 0 ELSE before.from[k]
  BY LastSupplier
<1>6. before.kind = "value" => \A k \in SectionKeys : before.from[k] = 0
  <2>1. d - 1 \in 0..n
    OBVIOUS
  <2> QED  BY <1>3, <2>1, PlainHidesAll
<1>7. EndsPlain(texts, d) <=>
        \/ texts[d].kind = "value"
        \/ texts[d].kind = "absent" /\ EndsPlain(texts, d - 1)
  BY LastPlain
<1> HIDE DEF now, before, own
<1>8. CASE texts[d].kind = "absent"
  <2>1. now.kind = before.kind /\ \A k \in SectionKeys : now.from[k] = before.from[k]
    BY <1>1, <1>3, <1>5, <1>7, <1>8
  <2>2. [k \in SectionKeys |-> now.from[k]] = [k \in SectionKeys |-> before.from[k]]
    BY <2>1
  <2> QED  BY <1>2, <1>8, <2>1, <2>2 DEF now, before
<1>9. CASE texts[d].kind = "value"
  <2>1. now.kind = own.kind /\ \A k \in SectionKeys : now.from[k] = own.from[k]
    BY <1>1, <1>3, <1>4, <1>5, <1>7, <1>9
  <2>2. [k \in SectionKeys |-> now.from[k]] = [k \in SectionKeys |-> own.from[k]]
    BY <2>1
  <2>3. now = own
    BY <1>2, <1>4, <2>1, <2>2
  <2>4. MergeValues(before, own) = own
    BY <1>4, <1>9 DEF MergeValues
  <2> QED  BY <1>9, <2>3, <2>4 DEF now, before, own
<1>10. CASE texts[d].kind = "table"
  <2>1. now.kind = "table" /\ own.kind = "table"
    BY <1>3, <1>4, <1>7, <1>10
  <2>2. \A k \in SectionKeys : now.from[k] = IF own.from[k] # 0 THEN own.from[k] ELSE before.from[k]
    BY <1>4, <1>5, <1>10
  <2>3. [k \in SectionKeys |-> now.from[k]] =
          [k \in SectionKeys |-> IF own.from[k] # 0 THEN own.from[k] ELSE before.from[k]]
    BY <2>2
  <2>4. CASE EndsPlain(texts, d - 1)
    <3>1. \A k \in SectionKeys : now.from[k] = own.from[k]
      BY <1>3, <1>6, <2>2, <2>4
    <3>2. [k \in SectionKeys |-> now.from[k]] = [k \in SectionKeys |-> own.from[k]]
      BY <3>1
    <3>3. MergeValues(before, own) = own
      BY <1>3, <2>4 DEF MergeValues
    <3> QED  BY <1>2, <1>4, <1>10, <2>1, <3>2, <3>3 DEF now, before, own
  <2>5. CASE ~EndsPlain(texts, d - 1)
    <3>1. before.kind = "table"
      BY <1>3, <2>5
    <3>2. MergeValues(before, own) =
            [before EXCEPT !.from =
               [k \in SectionKeys |-> IF own.from[k] # 0 THEN own.from[k] ELSE before.from[k]]]
      BY <2>1, <3>1 DEF MergeValues
    <3>3. MergeValues(before, own) = now
      BY <1>2, <2>1, <2>3, <3>1, <3>2
    <3> QED  BY <1>10, <3>3 DEF now, before, own
  <2> QED  BY <2>4, <2>5
<1> QED  BY <1>1, <1>8, <1>9, <1>10

LEMMA LoadSectionClosed ==
  ASSUME NEW n \in Nat, NEW texts \in [1..n -> SectionTexts]
  PROVE  LoadSection(texts) = SectionUpTo(texts, n)
<1> DEFINE Next(m, d) ==
             IF d = 0 THEN EmptyTable
             ELSE IF texts[d].kind = "absent" THEN m[d - 1]
             ELSE MergeValues(m[d - 1], SectionOf(d, texts[d]))
           merged == CHOOSE m : m = [d \in 0..Len(texts) |-> Next(m, d)]
           closed == [d \in 0..n |-> SectionUpTo(texts, d)]
<1>1. Len(texts) = n
  OBVIOUS
<1>2. LoadSection(texts) = merged[Len(texts)]
  BY DEF LoadSection
<1>3. \A d \in 0..n : closed[d] = Next(closed, d)
  <2>1. closed[0] = Next(closed, 0)
    BY UpToNone
  <2>2. ASSUME NEW d \in 1..n PROVE closed[d] = Next(closed, d)
    <3>1. d - 1 \in 0..n /\ d \in 0..n /\ d # 0
      OBVIOUS
    <3> QED  BY <3>1, UpToNext
  <2>3. \A d \in 0..n : d = 0 \/ d \in 1..n
    OBVIOUS
  <2> HIDE DEF closed, Next
  <2> QED  BY <2>1, <2>2, <2>3
<1>4. closed = [d \in 0..Len(texts) |-> Next(closed, d)]
  BY <1>1, <1>3
<1>5. merged = [d \in 0..Len(texts) |-> Next(merged, d)]
  <2> HIDE DEF closed
  <2> QED  BY <1>4
<1>6. ASSUME NEW d \in 0..n PROVE merged[d] = closed[d]
  <2> HIDE DEF merged, closed
  <2> DEFINE wrong == {x \in 0..n : merged[x] # closed[x]}
  <2>1. SUFFICES ASSUME wrong # {} PROVE FALSE
    OBVIOUS
  <2>2. PICK x \in wrong : \A y \in wrong : x <= y
    <3>1. wrong \subseteq Nat
      OBVIOUS
    <3> HIDE DEF wrong
    <3> QED  BY <2>1, <3>1, LeastNatural
  <2>3. merged[x] = Next(merged, x) /\ closed[x] = Next(closed, x)
    BY <1>1, <1>3, <1>5
  <2>4. x # 0
    BY <2>3
  <2>5. x - 1 \in 0..n /\ x - 1 \notin wrong
    BY <2>2, <2>4
  <2> QED  BY <2>2, <2>3, <2>4, <2>5
<1> QED  BY <1>1, <1>2, <1>6

\* application_config_loader.rs, load_section: a key of the section comes from
\* the highest file that has it, unless a plain value stands above that file;
\* the section is plain if only files without it are above a plain value.  This
\* holds for any number of files and any texts.
THEOREM LaterFileWins ==
  ASSUME NEW n \in Nat, NEW texts \in [1..n -> SectionTexts]
  PROVE  /\ LoadSection(texts).kind = "value" <=> EndsPlain(texts, n)
         /\ \A k \in SectionKeys, d \in 1..n :
              LoadSection(texts).from[k] = d <=> Supplies(texts, k, n, d)
<1>1. LoadSection(texts).kind = "value" <=> EndsPlain(texts, n)
  BY LoadSectionClosed DEF SectionUpTo
<1> QED  BY <1>1, LoadSectionClosed, OneSupplier

\* So it holds of every section a program asks for before a load.
THEOREM AssemblySectionLaterWins == AssemblySpec => []SectionLaterWins
<1>1. SectionLaterWins
  <2> SUFFICES ASSUME NEW n \in 0..MaxSectionFiles, NEW texts \in [1..n -> SectionTexts]
               PROVE  /\ LoadSection(texts).kind = "value" <=> EndsPlain(texts, n)
                      /\ \A k \in SectionKeys, d \in 1..n :
                           LoadSection(texts).from[k] = d <=> Supplies(texts, k, n, d)
    BY DEF SectionLaterWins, EndsPlain, Supplies
  <2>1. n \in Nat
    BY LayersAssumption
  <2> QED  BY <2>1, LaterFileWins
<1> QED  BY <1>1, PTL
=============================================================================
