------------------------ MODULE HeatResourcesProofs ------------------------
(***************************************************************************)
(* Theorems about HeatResources, for any stack and any number of faults.   *)
(***************************************************************************)
EXTENDS HeatResources, FiniteSetTheorems, TLAPS

-----------------------------------------------------------------------------
(***************************************************************************)
(* The inductive invariant.                                                *)
(***************************************************************************)

Status == {"init", "creating", "created", "failed", "deleting", "deleted", "delete_failed"}

\* A route of a template.
AnyRoute ==
  [type : {"prefix", "bgpvpn"}, prefix : {None, "10.0.0.0/24"},
   bgpvpn_id : {None} \cup Id \cup Name, local_pref : {None, 100}]

NeutronOK ==
  /\ used \subseteq Id /\ DOMAIN bgpvpns \subseteq used /\ DOMAIN assocs \subseteq used
  /\ \A b \in DOMAIN bgpvpns : bgpvpns[b] \in Name

TemplateOK ==
  /\ bgpvpn_id \in [Assoc -> Vpn \cup Id \cup (IF ByName THEN Name ELSE {})]
  /\ routes \in [Assoc -> SUBSET AnyRoute]

HeatOK ==
  /\ status \in [Resource -> Status]
  /\ resource_id \in [Resource -> Id \cup {None}]
  /\ made \in [Resource -> used \cup {None}]

\* An id names an object of one kind.
KindsApart ==
  /\ \A v \in Vpn : made[v] \notin DOMAIN assocs
  /\ \A a \in Assoc : made[a] \notin DOMAIN bgpvpns

\* Heat knows what Neutron created, unless the engine stopped in between.
Stored ==
  \A r \in Resource \ stops : status[r] # "creating" => resource_id[r] = made[r]

\* An association that exists is under the BGPVPN that its template still
\* stands for.
Reachable ==
  \A a \in Assoc : made[a] \in DOMAIN assocs =>
    /\ assocs[made[a]] = Value(bgpvpn_id[a])
    /\ bgpvpn_id[a] \in Vpn => status[bgpvpn_id[a]] \notin {"init", "creating"}

IInv ==
  /\ NeutronOK /\ TemplateOK /\ HeatOK
  /\ KindsApart /\ Stored /\ Reachable /\ NothingLeftBehind

-----------------------------------------------------------------------------
(***************************************************************************)
(* Ids, and what they are found by.                                        *)
(***************************************************************************)

LEMMA FreshId ==
  ASSUME Id \ used # {}
  PROVE  NewId \in Id \ used
BY DEF NewId

LEMMA SomethingFound ==
  ASSUME NEW value, Found(value)
  PROVE  TheId(value) \in DOMAIN bgpvpns
<1>1. Matches(value) # {}
  BY FS_EmptySet DEF Found
<1>2. TheId(value) \in Matches(value)
  BY <1>1 DEF TheId
<1>. QED
  BY <1>2 DEF Matches

\* An id is only found as itself, for it is nobody's name.
LEMMA FoundAsItself ==
  ASSUME NeutronOK, NEW value \in Id \cup {None}, Found(value)
  PROVE  TheId(value) = value
<1>1. CASE value \in DOMAIN bgpvpns
  BY <1>1 DEF TheId, Matches
<1>2. CASE value \notin DOMAIN bgpvpns
  <2>1. value \notin Name
    BY IdAssumption, NoneAssumption
  <2>2. Matches(value) = {}
    BY <1>2, <2>1 DEF Matches, NeutronOK
  <2>. QED
    BY <2>2, FS_EmptySet DEF Found
<1>. QED
  BY <1>1, <1>2

-----------------------------------------------------------------------------
(***************************************************************************)
(* The steps.                                                              *)
(***************************************************************************)

LEMMA MakeBgpvpnStep ==
  ASSUME IInv, NEW r \in Vpn, NEW name \in Name,
         status[r] = "init", Make(r, NewId),
         bgpvpns' = Extended(bgpvpns, NewId, name),
         UNCHANGED <<assocs, template, resource_id, stops>>
  PROVE  IInv'
<1>. DEFINE x == NewId
<1>1. x \in Id \ used
  BY FreshId DEF Make
<1>2. /\ used' = used \cup {x} /\ made' = [made EXCEPT ![r] = x]
      /\ status[r] = "init" /\ status' = [status EXCEPT ![r] = "creating"]
      /\ DOMAIN bgpvpns' = DOMAIN bgpvpns \cup {x}
      /\ \A b \in DOMAIN bgpvpns' : bgpvpns'[b] = IF b = x THEN name ELSE bgpvpns[b]
      /\ UNCHANGED <<assocs, bgpvpn_id, routes, resource_id, stops>>
  BY DEF Make, template, Extended
<1>. HIDE DEF x
<1>3. r \in Resource
  BY DEF Resource
<1>4. NeutronOK' /\ TemplateOK' /\ HeatOK'
  BY <1>1, <1>2, <1>3 DEF IInv, NeutronOK, TemplateOK, HeatOK, Status
<1>5. KindsApart' /\ Stored' /\ Reachable'
  BY <1>1, <1>2, <1>3, ResourceAssumption, NoneAssumption
  DEF IInv, NeutronOK, TemplateOK, HeatOK, KindsApart, Stored, Reachable, Value, Resource
<1>6. NothingLeftBehind'
  BY <1>1, <1>2, <1>3, NoneAssumption DEF IInv, NeutronOK, HeatOK, NothingLeftBehind
<1>. QED
  BY <1>4, <1>5, <1>6 DEF IInv

LEMMA MakeAssocStep ==
  ASSUME IInv, ~ ByName, NEW a \in Assoc,
         status[a] = "init", Found(Value(bgpvpn_id[a])),
         bgpvpn_id[a] \in Vpn => status[bgpvpn_id[a]] = "created",
         Make(a, NewId),
         assocs' = Extended(assocs, NewId, TheId(Value(bgpvpn_id[a]))),
         UNCHANGED <<bgpvpns, template, resource_id, stops>>
  PROVE  IInv'
<1>. DEFINE x == NewId
            b == TheId(Value(bgpvpn_id[a]))
<1>1. x \in Id \ used
  BY FreshId DEF Make
<1>2. /\ used' = used \cup {x} /\ made' = [made EXCEPT ![a] = x]
      /\ status' = [status EXCEPT ![a] = "creating"]
      /\ DOMAIN assocs' = DOMAIN assocs \cup {x}
      /\ \A y \in DOMAIN assocs' : assocs'[y] = IF y = x THEN b ELSE assocs[y]
      /\ UNCHANGED <<bgpvpns, bgpvpn_id, routes, resource_id, stops>>
  BY DEF Make, template, Extended
<1>3. a \in Resource
  BY DEF Resource
<1>4. Value(bgpvpn_id[a]) \in Id \cup {None}
  BY DEF IInv, TemplateOK, HeatOK, Value, Resource
<1>5. b = Value(bgpvpn_id[a])
  BY <1>4, FoundAsItself DEF IInv
<1>. HIDE DEF x, b
<1>6. NeutronOK' /\ TemplateOK' /\ HeatOK'
  BY <1>1, <1>2, <1>3 DEF IInv, NeutronOK, TemplateOK, HeatOK, Status
<1>7. KindsApart' /\ Stored'
  BY <1>1, <1>2, <1>3, ResourceAssumption, NoneAssumption
  DEF IInv, NeutronOK, HeatOK, KindsApart, Stored, Resource
<1>8. Reachable'
  BY <1>1, <1>2, <1>3, <1>5, ResourceAssumption, NoneAssumption
  DEF IInv, NeutronOK, HeatOK, Reachable, Value, Resource
<1>9. NothingLeftBehind'
  BY <1>1, <1>2, <1>3, NoneAssumption DEF IInv, NeutronOK, HeatOK, NothingLeftBehind
<1>. QED
  BY <1>6, <1>7, <1>8, <1>9 DEF IInv

\* Objects go, and resources advance, but none to "deleted" whose object is there.
LEMMA Goes ==
  ASSUME IInv,
         DOMAIN bgpvpns' \subseteq DOMAIN bgpvpns, DOMAIN assocs' \subseteq DOMAIN assocs,
         \A b \in DOMAIN bgpvpns' : bgpvpns'[b] \in Name,
         \A y \in DOMAIN assocs' : assocs'[y] = assocs[y],
         status' \in [Resource -> Status], stops \subseteq stops',
         \A r \in Resource :
           \/ status'[r] = status[r]
           \/ /\ status'[r] \notin {"init", "creating"}
              /\ status[r] # "creating" \/ r \in stops'
              /\ status'[r] = "deleted" /\ r \notin stops' =>
                   made[r] \notin DOMAIN bgpvpns' \cup DOMAIN assocs',
         UNCHANGED <<used, bgpvpn_id, routes, resource_id, made>>
  PROVE  IInv'
<1>1. NeutronOK' /\ TemplateOK' /\ HeatOK'
  BY DEF IInv, NeutronOK, TemplateOK, HeatOK
<1>2. KindsApart' /\ Stored'
  BY DEF IInv, KindsApart, Stored
<1>3. Reachable'
  BY DEF IInv, Reachable, Value, Resource
<1>4. NothingLeftBehind'
  BY DEF IInv, NothingLeftBehind
<1>. QED
  BY <1>1, <1>2, <1>3, <1>4 DEF IInv

LEMMA FailStep ==
  ASSUME IInv, NEW r \in Resource, status[r] = "init", Fail(r),
         UNCHANGED <<template, resource_id, stops>>
  PROVE  IInv'
<1>1. status' = [status EXCEPT ![r] = "failed"] /\ status' \in [Resource -> Status]
  BY DEF Fail, IInv, HeatOK, Status
<1>2. UNCHANGED <<bgpvpns, assocs, used, bgpvpn_id, routes, resource_id, made, stops>>
  BY DEF Fail, neutron, template
<1>. QED
  BY <1>1, <1>2, Goes DEF IInv, NeutronOK, HeatOK

LEMMA CreateBgpvpnStep ==
  ASSUME IInv, NEW r \in Vpn, NEW name \in Name, CreateBgpvpn(r, name)
  PROVE  IInv'
<1>1. r \in Resource /\ status[r] = "init"
  BY DEF CreateBgpvpn, Resource
<1>. QED
  BY <1>1, FailStep, MakeBgpvpnStep DEF CreateBgpvpn

LEMMA CreateAssocStep ==
  ASSUME IInv, ~ ByName, NEW a \in Assoc, CreateAssoc(a)
  PROVE  IInv'
<1>1. a \in Resource /\ status[a] = "init"
  BY DEF CreateAssoc, Resource
<1>2. CASE Fail(a)
  BY <1>1, <1>2, FailStep DEF CreateAssoc
<1>3. CASE ~ Fail(a)
  BY <1>3, MakeAssocStep DEF CreateAssoc
<1>. QED
  BY <1>2, <1>3

LEMMA SetResourceIdStep ==
  ASSUME IInv, NEW r \in Resource, SetResourceId(r)
  PROVE  IInv'
<1>1. /\ resource_id' = [resource_id EXCEPT ![r] = made[r]]
      /\ status[r] = "creating" /\ status' = [status EXCEPT ![r] = "created"]
      /\ UNCHANGED <<bgpvpns, assocs, used, bgpvpn_id, routes, made, stops>>
  BY DEF SetResourceId, neutron, template
<1>2. NeutronOK' /\ TemplateOK' /\ HeatOK'
  BY <1>1 DEF IInv, NeutronOK, TemplateOK, HeatOK, Status
<1>3. KindsApart' /\ Stored'
  BY <1>1 DEF IInv, HeatOK, KindsApart, Stored
<1>4. Reachable'
  BY <1>1 DEF IInv, HeatOK, Reachable, Value, Resource
<1>5. NothingLeftBehind'
  BY <1>1 DEF IInv, HeatOK, NothingLeftBehind
<1>. QED
  BY <1>2, <1>3, <1>4, <1>5 DEF IInv

LEMMA EngineStopsStep ==
  ASSUME IInv, NEW r \in Resource, EngineStops(r)
  PROVE  IInv'
<1>1. /\ status[r] \in {"creating", "deleting"}
      /\ stops' = IF status[r] = "creating" THEN stops \cup {r} ELSE stops
      /\ UNCHANGED <<bgpvpns, assocs, used, bgpvpn_id, routes, resource_id, made>>
  BY DEF EngineStops, neutron, template
<1>2. \E s \in {"failed", "delete_failed"} : status' = [status EXCEPT ![r] = s]
  BY DEF EngineStops
<1>3. status' \in [Resource -> Status]
  BY <1>2 DEF IInv, HeatOK, Status
<1>. QED
  BY <1>1, <1>2, <1>3, Goes DEF IInv, NeutronOK, HeatOK

\* A deletion that meets an error fails, whatever Neutron has taken.
LEMMA RaisesStep ==
  ASSUME IInv, NEW r \in Resource, Raises(r), status[r] \notin {"init", "creating"},
         DOMAIN bgpvpns' \subseteq DOMAIN bgpvpns, DOMAIN assocs' \subseteq DOMAIN assocs,
         \A b \in DOMAIN bgpvpns' : bgpvpns'[b] = bgpvpns[b],
         \A y \in DOMAIN assocs' : assocs'[y] = assocs[y],
         UNCHANGED <<used, bgpvpn_id, routes, resource_id, made, stops>>
  PROVE  IInv'
<1>1. /\ status' = [status EXCEPT ![r] = "delete_failed"]
      /\ status' \in [Resource -> Status]
  BY DEF Raises, IInv, HeatOK, Status
<1>. QED
  BY <1>1, Goes DEF IInv, NeutronOK, HeatOK

\* The BGPVPN that Heat stored goes, with its associations; else it had gone.
LEMMA HandleDeleteBgpvpnStep ==
  ASSUME IInv, NEW r \in Vpn, HandleDeleteBgpvpn(r)
  PROVE  IInv'
<1>1. r \in Resource /\ status[r] \in {"created", "failed"}
  BY DEF Resource, HandleDeleteBgpvpn, MayDelete
<1>2. UNCHANGED <<used, bgpvpn_id, routes, resource_id, made, stops>>
  BY DEF HandleDeleteBgpvpn, template
<1>3. /\ DOMAIN bgpvpns' \subseteq DOMAIN bgpvpns
      /\ \A b \in DOMAIN bgpvpns' : bgpvpns'[b] = bgpvpns[b]
      /\ DOMAIN assocs' \subseteq DOMAIN assocs
      /\ \A y \in DOMAIN assocs' : assocs'[y] = assocs[y]
  BY DEF HandleDeleteBgpvpn, DeleteBgpvpn, WithoutBgpvpn, WithoutAssocsOf, Only
<1>4. CASE Raises(r)
  BY <1>1, <1>2, <1>3, <1>4, RaisesStep
<1>5. CASE AfterDelete(r, resource_id[r] \in DOMAIN bgpvpns) /\ DeleteBgpvpn(resource_id[r])
  <2>1. \E s \in {"deleting", "deleted"} : status' = [status EXCEPT ![r] = s]
    BY <1>5 DEF AfterDelete
  <2>2. status' \in [Resource -> Status]
    BY <2>1 DEF IInv, HeatOK, Status
  <2>3. resource_id[r] \notin DOMAIN bgpvpns'
    BY <1>5 DEF DeleteBgpvpn, WithoutBgpvpn, Only
  <2>4. r \notin stops => made[r] \notin DOMAIN bgpvpns' \cup DOMAIN assocs'
    BY <1>1, <1>3, <2>3 DEF IInv, Stored, KindsApart
  <2>. QED
    BY <1>1, <1>2, <1>3, <2>1, <2>2, <2>4, Goes DEF IInv, NeutronOK, HeatOK
<1>. QED
  BY <1>4, <1>5 DEF HandleDeleteBgpvpn

\* What the path does not reach had gone.
LEMMA GoneIfNotReached ==
  ASSUME IInv, NEW a \in Assoc \ stops, status[a] # "creating", ~ Exists(Path(a))
  PROVE  made[a] \notin DOMAIN bgpvpns \cup DOMAIN assocs
BY DEF IInv, Stored, Reachable, KindsApart, Exists, Path, Resource

LEMMA HandleDeleteAssocStep ==
  ASSUME IInv, NEW a \in Assoc, HandleDeleteAssoc(a)
  PROVE  IInv'
<1>1. a \in Resource /\ status[a] \in {"created", "failed"}
  BY DEF Resource, HandleDeleteAssoc, MayDelete
<1>2. UNCHANGED <<bgpvpns, used, bgpvpn_id, routes, resource_id, made, stops>>
  BY DEF HandleDeleteAssoc, template
<1>3. /\ DOMAIN assocs' \subseteq DOMAIN assocs
      /\ \A y \in DOMAIN assocs' : assocs'[y] = assocs[y]
  BY DEF HandleDeleteAssoc, DeleteAssoc, Only
<1>4. CASE Raises(a)
  BY <1>1, <1>2, <1>3, <1>4, RaisesStep
<1>5. CASE AfterDelete(a, Exists(Path(a)))
  <2>1. /\ status' = [status EXCEPT ![a] = IF Exists(Path(a)) THEN "deleting" ELSE "deleted"]
        /\ status' \in [Resource -> Status]
    BY <1>5 DEF AfterDelete, IInv, HeatOK, Status
  <2>2. ~ Exists(Path(a)) /\ a \notin stops => made[a] \notin DOMAIN bgpvpns \cup DOMAIN assocs
    BY <1>1, GoneIfNotReached
  <2>. QED
    BY <1>1, <1>2, <1>3, <2>1, <2>2, Goes DEF IInv, NeutronOK, HeatOK
<1>. QED
  BY <1>4, <1>5 DEF HandleDeleteAssoc

LEMMA CheckDeleteStep ==
  ASSUME IInv, NEW r \in Resource, CheckDelete(r)
  PROVE  IInv'
<1>1. status[r] = "deleting"
  BY DEF CheckDelete
<1>2. UNCHANGED <<bgpvpns, assocs, used, bgpvpn_id, routes, resource_id, made, stops>>
  BY DEF CheckDelete, neutron, template
<1>3. CASE Raises(r)
  BY <1>1, <1>2, <1>3, RaisesStep
<1>4. CASE ~ Raises(r)
  <2>1. /\ Show(r) # "there"
        /\ status' = [status EXCEPT ![r] =
             IF Show(r) = "error" THEN "delete_failed" ELSE "deleted"]
        /\ status' \in [Resource -> Status]
    BY <1>4 DEF CheckDelete, IInv, HeatOK, Status
  <2>2. ASSUME r \notin stops, Show(r) # "error"
        PROVE  made[r] \notin DOMAIN bgpvpns \cup DOMAIN assocs
    <3>1. CASE r \in Vpn
      <4>1. resource_id[r] \notin DOMAIN bgpvpns
        BY <2>1, <2>2, <3>1, ResourceAssumption DEF Show, Assoc
      <4>. QED
        BY <1>1, <2>2, <3>1, <4>1 DEF IInv, Stored, KindsApart
    <3>2. CASE r \notin Vpn
      <4>1. r \in Assoc /\ ~ Exists(Path(r))
        BY <2>1, <2>2, <3>2 DEF Show, Resource
      <4>. QED
        BY <1>1, <2>2, <4>1, GoneIfNotReached
    <3>. QED
      BY <3>1, <3>2
  <2>. QED
    BY <1>1, <1>2, <2>1, <2>2, Goes DEF IInv, NeutronOK, HeatOK
<1>. QED
  BY <1>3, <1>4

LEMMA RetryStep ==
  ASSUME IInv, NEW r \in Resource, Retry(r)
  PROVE  IInv'
<1>1. /\ status[r] = "delete_failed" /\ status' = [status EXCEPT ![r] = "failed"]
      /\ status' \in [Resource -> Status]
      /\ UNCHANGED <<bgpvpns, assocs, used, bgpvpn_id, routes, resource_id, made, stops>>
  BY DEF Retry, neutron, template, IInv, HeatOK, Status
<1>. QED
  BY <1>1, Goes DEF IInv, NeutronOK, HeatOK

LEMMA OthersStep ==
  ASSUME IInv, Others
  PROVE  IInv'
<1>1. ASSUME NEW name \in Name, OtherCreates(name)
      PROVE  IInv'
  <2>. DEFINE x == NewId
  <2>1. x \in Id \ used
    BY <1>1, FreshId DEF OtherCreates
  <2>2. /\ used' = used \cup {x}
        /\ DOMAIN bgpvpns' = DOMAIN bgpvpns \cup {x}
        /\ \A b \in DOMAIN bgpvpns' : bgpvpns'[b] = IF b = x THEN name ELSE bgpvpns[b]
        /\ UNCHANGED <<assocs, bgpvpn_id, routes, status, resource_id, made, stops>>
    BY <1>1 DEF OtherCreates, template, Extended
  <2>. HIDE DEF x
  <2>3. NeutronOK' /\ TemplateOK' /\ HeatOK'
    BY <2>1, <2>2 DEF IInv, NeutronOK, TemplateOK, HeatOK
  <2>4. x \notin {made[r] : r \in Resource}
    BY <2>1, NoneAssumption DEF IInv, HeatOK
  <2>5. KindsApart' /\ Stored' /\ Reachable' /\ NothingLeftBehind'
    BY <2>1, <2>2, <2>4
    DEF IInv, KindsApart, Stored, Reachable, NothingLeftBehind, Value, Resource
  <2>. QED
    BY <2>3, <2>5 DEF IInv
<1>2. ASSUME NEW b \in Id, NEW name \in Name, OtherRenames(b, name)
      PROVE  IInv'
  <2>1. /\ DOMAIN bgpvpns' = DOMAIN bgpvpns
        /\ \A c \in DOMAIN bgpvpns' : bgpvpns'[c] \in Name
        /\ UNCHANGED <<assocs, used, bgpvpn_id, routes, status, resource_id, made, stops>>
    BY <1>2 DEF OtherRenames, template, IInv, NeutronOK
  <2>. QED
    BY <2>1, Goes DEF IInv, HeatOK
<1>3. ASSUME NEW x \in Id, OtherDeletes(x)
      PROVE  IInv'
  <2>1. /\ DOMAIN bgpvpns' \subseteq DOMAIN bgpvpns /\ DOMAIN assocs' \subseteq DOMAIN assocs
        /\ \A b \in DOMAIN bgpvpns' : bgpvpns'[b] = bgpvpns[b]
        /\ \A y \in DOMAIN assocs' : assocs'[y] = assocs[y]
        /\ UNCHANGED <<used, bgpvpn_id, routes, status, resource_id, made, stops>>
    BY <1>3 DEF OtherDeletes, WithoutBgpvpn, WithoutAssocsOf, Only, template
  <2>. QED
    BY <2>1, Goes DEF IInv, NeutronOK, HeatOK
<1>. QED
  BY <1>1, <1>2, <1>3 DEF Others

-----------------------------------------------------------------------------
(***************************************************************************)
(* The theorems.                                                           *)
(***************************************************************************)

\* Heat's ids and Neutron's objects fit together, in stacks whose templates give
\* BGPVPNs by id or by reference.
THEOREM InvariantCorrect ==
  ASSUME ~ ByName
  PROVE  Spec => []IInv
<1>1. ASSUME Init PROVE IInv
  <2>1. PICK existing \in {{}, {CHOOSE x \in Id : TRUE}}, name \in Name :
          bgpvpns = [b \in existing |-> name] /\ used = existing
    BY <1>1 DEF Init
  <2>2. used \subseteq Id
    BY <2>1, IdAssumption
  <2>3. NeutronOK /\ TemplateOK /\ HeatOK
    BY <1>1, <2>1, <2>2
    DEF Init, NeutronOK, TemplateOK, HeatOK, Existing, AnyRoute, RouteProperties, Status
  <2>. QED
    BY <1>1, <2>1, <2>3, NoneAssumption
    DEF Init, IInv, NeutronOK, KindsApart, Stored, Reachable, NothingLeftBehind, Resource
<1>2. ASSUME IInv, [Next]_vars PROVE IInv'
  <2>1. CASE UNCHANGED vars \/ DeleteStack
    <3>1. UNCHANGED <<bgpvpns, assocs, used, bgpvpn_id, routes, status, resource_id, made, stops>>
      BY <2>1 DEF vars, neutron, template, DeleteStack
    <3>. QED
      BY <1>2, <3>1, Goes DEF IInv, NeutronOK, HeatOK
  <2>2. CASE HandleDelete
    BY <1>2, <2>2, HandleDeleteBgpvpnStep, HandleDeleteAssocStep DEF HandleDelete
  <2>3. ASSUME NEW r \in Resource, Step(r) PROVE IInv'
    BY <1>2, <2>3, SetResourceIdStep, EngineStopsStep, CheckDeleteStep, RetryStep DEF Step
  <2>. QED
    BY <1>2, <2>1, <2>2, <2>3, CreateBgpvpnStep, CreateAssocStep, OthersStep DEF Next
<1>. QED
  BY <1>1, <1>2, PTL DEF Spec

\* What Heat created for a resource is gone once Heat calls it deleted, whatever
\* other clients do, unless the engine stopped before it had stored the id.
THEOREM NothingLeftBehindCorrect ==
  ASSUME ~ ByName
  PROVE  Spec => []NothingLeftBehind
<1>1. IInv => NothingLeftBehind
  BY DEF IInv
<1>. QED
  BY <1>1, InvariantCorrect, PTL

-----------------------------------------------------------------------------
(***************************************************************************)
(* Routes.                                                                 *)
(***************************************************************************)

\* Cleaned, a route that was given a BGPVPN that is found is acceptable, and so
\* is one that was given a prefix.
LEMMA CleanedAcceptable ==
  ASSUME NeutronOK, NEW route \in AnyRoute,
         route.type = "bgpvpn" => Found(route.bgpvpn_id),
         route.type = "prefix" => route.prefix # None
  PROVE  Acceptable(Cleaned(route))
<1>. DEFINE unset == IF route.local_pref = None THEN {"local_pref"} ELSE {}
<1>1. /\ DOMAIN route = {"type", "prefix", "bgpvpn_id", "local_pref"}
      /\ route.type \in {"prefix", "bgpvpn"} /\ route.type # None
      /\ unset = {} => route.local_pref # None
      /\ unset \subseteq {"local_pref"}
  BY NoneAssumption DEF AnyRoute
<1>2. CASE route.type = "prefix"
  <2>. DEFINE sent == Without(route, unset \cup {"bgpvpn_id"})
  <2>1. /\ DOMAIN sent = {"type", "prefix", "local_pref"} \ unset
        /\ \A k \in DOMAIN sent : sent[k] = route[k]
    BY <1>1 DEF Without
  <2>2. sent.type = "prefix" /\ \A k \in DOMAIN sent : sent[k] # None
    BY <1>1, <1>2, <2>1
  <2>3. DOMAIN sent \cap {"prefix", "bgpvpn_id"} = {"prefix"}
    BY <1>1, <2>1
  <2>4. Cleaned(route) = sent
    BY <1>2 DEF Cleaned
  <2>. HIDE DEF sent
  <2>. QED
    BY <2>2, <2>3, <2>4 DEF Acceptable
<1>3. CASE route.type = "bgpvpn"
  <2>. DEFINE id == TheId(route.bgpvpn_id)
              kept == Without(route, unset \cup {"prefix"})
              sent == [kept EXCEPT !.bgpvpn_id = id]
  <2>1. id \in DOMAIN bgpvpns /\ id # None
    BY <1>3, SomethingFound, NoneAssumption DEF NeutronOK
  <2>2. /\ DOMAIN sent = {"type", "bgpvpn_id", "local_pref"} \ unset
        /\ \A k \in DOMAIN sent : sent[k] = IF k = "bgpvpn_id" THEN id ELSE route[k]
    BY <1>1 DEF Without
  <2>3. Cleaned(route) = sent
    BY <1>3 DEF Cleaned
  <2>. HIDE DEF sent, id
  <2>4. /\ sent.type = "bgpvpn" /\ \A k \in DOMAIN sent : sent[k] # None
        /\ sent.bgpvpn_id = id
    BY <1>1, <1>3, <2>1, <2>2
  <2>5. DOMAIN sent \cap {"prefix", "bgpvpn_id"} = {"bgpvpn_id"}
    BY <1>1, <2>2
  <2>. QED
    BY <2>1, <2>3, <2>4, <2>5 DEF Acceptable
<1>. QED
  BY <1>1, <1>2, <1>3

\* Neutron refuses routes only for what their template leaves out.
THEOREM RoutesAreSentCleanCorrect ==
  ASSUME ~ ByName
  PROVE  Spec => []RoutesAreSentClean
<1>1. Init => RoutesAreSentClean
  BY DEF Init, RoutesAreSentClean
<1>2. ASSUME IInv, RoutesAreSentClean, [Next]_vars
      PROVE  RoutesAreSentClean'
  <2>1. routes' = routes
    BY <1>2 DEF Next, CreateBgpvpn, CreateAssoc, DeleteStack, HandleDelete,
                HandleDeleteBgpvpn, HandleDeleteAssoc, Step, SetResourceId, EngineStops,
                CheckDelete, Retry, Others, OtherCreates, OtherRenames, OtherDeletes,
                template, vars
  <2>2. CASE refused' = refused
    BY <1>2, <2>1, <2>2 DEF RoutesAreSentClean
  <2>3. ASSUME NEW a \in Assoc, CreateAssoc(a) PROVE RoutesAreSentClean'
    <3>1. CASE \E x \in routes[a] : ~ Acceptable(Cleaned(x))
                                      /\ (x.type = "bgpvpn" => Found(x.bgpvpn_id))
      <4>1. PICK x \in routes[a] : ~ Acceptable(Cleaned(x))
                                     /\ (x.type = "bgpvpn" => Found(x.bgpvpn_id))
        BY <3>1
      <4>2. x \in AnyRoute
        BY <1>2 DEF IInv, TemplateOK
      <4>3. x.type = "prefix" /\ x.prefix = None
        BY <1>2, <4>1, <4>2, CleanedAcceptable DEF IInv
      <4>4. refused' \subseteq refused \cup {a}
        BY <2>3 DEF CreateAssoc
      <4>. QED
        BY <1>2, <2>1, <4>3, <4>4 DEF RoutesAreSentClean
    <3>2. CASE ~ \E x \in routes[a] : ~ Acceptable(Cleaned(x))
                                        /\ (x.type = "bgpvpn" => Found(x.bgpvpn_id))
      <4>1. refused' = refused
        BY <2>3, <3>2 DEF CreateAssoc
      <4>. QED
        BY <2>2, <4>1
    <3>. QED
      BY <3>1, <3>2
  <2>4. ASSUME ~ \E a \in Assoc : CreateAssoc(a)
        PROVE  refused' = refused
    BY <1>2, <2>4 DEF Next, CreateBgpvpn, DeleteStack, HandleDelete,
                HandleDeleteBgpvpn, HandleDeleteAssoc, Step, SetResourceId, EngineStops,
                CheckDelete, Retry, Others, OtherCreates, OtherRenames, OtherDeletes, vars
  <2>. QED
    BY <2>2, <2>3, <2>4
<1>. QED
  BY <1>1, <1>2, InvariantCorrect, PTL DEF Spec

=============================================================================
