--------------------------- MODULE HeatResources ---------------------------
(***************************************************************************)
(* The Heat resources for BGPVPNs and their associations                   *)
(* (networking_bgpvpn_heat/bgpvpnservice.py): how a stack creates them     *)
(* through the Neutron API and deletes them again, while other clients use *)
(* the same API and the Heat engine may stop.                              *)
(*                                                                         *)
(* Neutron is what these calls show of it: an association is reached only  *)
(* under the id of its BGPVPN, and goes with it.  Heat itself is external: *)
(* it creates a resource after those it refers to, deletes it before them, *)
(* each in a worker of its own, and after a deletion that returned True    *)
(* calls _show_resource until that is not found.                           *)
(***************************************************************************)
EXTENDS Naturals, FiniteSets

CONSTANTS
  Vpn,          \* resources OS::Neutron::BGPVPN of the stack
  NetAssoc,     \* resources OS::Neutron::BGPVPN-NET-ASSOCIATION
  RouterAssoc,  \* resources OS::Neutron::BGPVPN-ROUTER-ASSOCIATION
  PortAssoc,    \* resources OS::Neutron::BGPVPN-PORT-ASSOCIATION
  Id,           \* the ids Neutron gives
  Name,         \* the names of BGPVPNs
  ByName,       \* whether templates give BGPVPNs by name
  MaxFaults,    \* bound: how often the engine stops or a deletion meets an error
  None

Assoc == NetAssoc \cup RouterAssoc \cup PortAssoc
Resource == Vpn \cup Assoc

ASSUME ResourceAssumption == Vpn \cap Assoc = {}
ASSUME IdAssumption == Id # {} /\ Id \cap Name = {} /\ ByName \in BOOLEAN
ASSUME NoneAssumption ==
  None \notin Id \cup Name \cup {"prefix", "bgpvpn", "10.0.0.0/24"} /\ None # 100
ASSUME FaultsAssumption == MaxFaults \in Nat

VARIABLES
  bgpvpns,      \* Neutron: the BGPVPNs, with their names
  assocs,       \* Neutron: the associations, with the BGPVPN of each
  used,         \* Neutron: the ids given so far
  bgpvpn_id,    \* template: the bgpvpn_id of each association resource
  routes,       \* template: the routes of each port association resource
  status,       \* Heat: the status of each resource
  resource_id,  \* Heat: the id stored for each resource
  asked,        \* Heat: the deletion of the stack was asked for
  made,         \* history: what Neutron created for each resource
  refused,      \* history: the resources whose routes Neutron refused
  stops,        \* history: the resources whose creation the engine left
  faults        \* how many faults there have been

neutron == <<bgpvpns, assocs, used>>
template == <<bgpvpn_id, routes>>
vars == <<neutron, template, status, resource_id, asked, made, refused, stops, faults>>

-----------------------------------------------------------------------------
(***************************************************************************)
(* Templates.                                                              *)
(***************************************************************************)

\* A BGPVPN that exists, by its id or, as templates may have it, by its name.
Existing == used \cup (IF ByName THEN Name ELSE {})

\* Heat gives a route every key; one that the template leaves out is None.
RouteProperties ==
  [type : {"prefix", "bgpvpn"}, prefix : {None, "10.0.0.0/24"},
   bgpvpn_id : {None} \cup Existing, local_pref : {None, 100}]

\* What get_resource and the parameters of the template stand for.
Value(reference) == IF reference \in Vpn THEN resource_id[reference] ELSE reference

\* find_resourceid_by_name_or_id: fails unless one BGPVPN matches.
Matches(value) ==
  IF value \in DOMAIN bgpvpns THEN {value} ELSE {b \in DOMAIN bgpvpns : bgpvpns[b] = value}

Found(value) == Cardinality(Matches(value)) = 1
TheId(value) == CHOOSE b \in Matches(value) : TRUE

Without(route, keys) == [k \in DOMAIN route \ keys |-> route[k]]

\* Mutant: an unset local_pref is sent as it is.
CleanedOfOther(route) ==
  IF route.type = "prefix" THEN Without(route, {"bgpvpn_id"})
  ELSE [Without(route, {"prefix"}) EXCEPT !.bgpvpn_id = TheId(route.bgpvpn_id)]

\* The clean-up of a route before it is sent.
Cleaned(route) ==
  LET unset == IF route.local_pref = None THEN {"local_pref"} ELSE {}
  IN IF route.type = "prefix" THEN Without(route, unset \cup {"bgpvpn_id"})
     ELSE [Without(route, unset \cup {"prefix"}) EXCEPT !.bgpvpn_id = TheId(route.bgpvpn_id)]

\* What Neutron accepts as a route.
Acceptable(route) ==
  /\ \A k \in DOMAIN route : route[k] # None
  /\ IF route.type = "prefix" THEN DOMAIN route \cap {"prefix", "bgpvpn_id"} = {"prefix"}
     ELSE DOMAIN route \cap {"prefix", "bgpvpn_id"} = {"bgpvpn_id"}
            /\ route.bgpvpn_id \in DOMAIN bgpvpns

-----------------------------------------------------------------------------
(***************************************************************************)
(* Creation.  The engine stores the id only after Neutron has answered.    *)
(***************************************************************************)

Fail(r) == status' = [status EXCEPT ![r] = "failed"] /\ UNCHANGED <<neutron, made>>

Fault == faults < MaxFaults /\ faults' = faults + 1

\* The ids are arbitrary: it does not matter which one is next.
NewId == CHOOSE x \in Id \ used : TRUE

Extended(f, x, value) == [y \in DOMAIN f \cup {x} |-> IF y = x THEN value ELSE f[y]]

Make(r, x) ==
  /\ Id \ used # {}
  /\ used' = used \cup {x}
  /\ made' = [made EXCEPT ![r] = x]
  /\ status' = [status EXCEPT ![r] = "creating"]

\* Neutron may refuse what it is sent for its own reasons.
CreateBgpvpn(r, name) ==
  /\ status[r] = "init" /\ ~ asked
  /\ \/ Fail(r)
     \/ Make(r, NewId) /\ bgpvpns' = Extended(bgpvpns, NewId, name)
  /\ UNCHANGED <<assocs, template, resource_id, asked, refused, stops, faults>>

\* The look-ups and the call are one step: a BGPVPN that goes between them has
\* Neutron refuse the call.
CreateAssoc(a) ==
  /\ status[a] = "init" /\ ~ asked
  /\ bgpvpn_id[a] \in Vpn => status[bgpvpn_id[a]] = "created"
  /\ LET reads == \A x \in routes[a] : x.type = "bgpvpn" => Found(x.bgpvpn_id)
         body == {Cleaned(x) : x \in routes[a]}
     IN \/ /\ ~ reads \/ ~ Found(Value(bgpvpn_id[a]))
           /\ Fail(a) /\ UNCHANGED refused
        \/ /\ reads /\ Found(Value(bgpvpn_id[a]))
           /\ Fail(a)
           /\ refused' = IF \A x \in body : Acceptable(x) THEN refused ELSE refused \cup {a}
        \/ /\ reads /\ Found(Value(bgpvpn_id[a])) /\ \A x \in body : Acceptable(x)
           /\ Make(a, NewId)
           /\ assocs' = Extended(assocs, NewId, TheId(Value(bgpvpn_id[a])))
           /\ UNCHANGED <<bgpvpns, refused>>
  /\ UNCHANGED <<template, resource_id, asked, stops, faults>>

\* resource_id_set.
SetResourceId(r) ==
  /\ status[r] = "creating"
  /\ resource_id' = [resource_id EXCEPT ![r] = made[r]]
  /\ status' = [status EXCEPT ![r] = "created"]
  /\ UNCHANGED <<neutron, template, asked, made, refused, stops, faults>>

\* The worker stops before it stores the id, or while it waits for a deletion: the
\* resource has failed when the engine is back.
EngineStops(r) ==
  /\ Fault
  /\ \/ /\ status[r] = "creating"
        /\ status' = [status EXCEPT ![r] = IF asked THEN "delete_failed" ELSE "failed"]
        /\ stops' = stops \cup {r}
     \/ /\ status[r] = "deleting"
        /\ status' = [status EXCEPT ![r] = "delete_failed"]
        /\ UNCHANGED stops
  /\ UNCHANGED <<neutron, template, resource_id, asked, made, refused>>

-----------------------------------------------------------------------------
(***************************************************************************)
(* Deletion.                                                               *)
(***************************************************************************)

DeleteStack ==
  /\ ~ asked
  /\ asked' = TRUE
  /\ UNCHANGED <<neutron, template, status, resource_id, made, refused, stops, faults>>

Only(f, S) == [x \in S |-> f[x]]
WithoutAssocsOf(b) == Only(assocs, {x \in DOMAIN assocs : assocs[x] # b})
WithoutBgpvpn(b) == Only(bgpvpns, DOMAIN bgpvpns \ {b})

\* Mutant: the path as show_port_association has it.
PathSwapped(a) == <<resource_id[a], Value(bgpvpn_id[a])>>

\* The property and the id that the deletion of an association goes by.
Path(a) == <<Value(bgpvpn_id[a]), resource_id[a]>>

Exists(path) == path[2] \in DOMAIN assocs /\ assocs[path[2]] = path[1]

\* Heat deletes what has been created or has failed, after what refers to it.
MayDelete(r) ==
  /\ asked /\ status[r] \in {"created", "failed"}
  /\ r \in Vpn => \A a \in Assoc : bgpvpn_id[a] = r => status[a] \in {"init", "deleted"}

\* Mutant: not found is an error like any other.
NotFoundRaised(r, found) ==
  /\ status' = [status EXCEPT ![r] = IF found THEN "deleting" ELSE "delete_failed"]
  /\ UNCHANGED faults

\* Not found is ignored: the resource is gone at once.  Else wait for it to go.
AfterDelete(r, found) ==
  /\ status' = [status EXCEPT ![r] = IF found THEN "deleting" ELSE "deleted"]
  /\ UNCHANGED faults

\* Any other error is raised again, and ends the deletion.
Raises(r) == Fault /\ status' = [status EXCEPT ![r] = "delete_failed"]

\* What the calls do in Neutron where it finds what they name.
DeleteBgpvpn(b) == bgpvpns' = WithoutBgpvpn(b) /\ assocs' = WithoutAssocsOf(b)

DeleteAssoc(path) ==
  assocs' = Only(assocs, IF Exists(path) THEN DOMAIN assocs \ {path[2]} ELSE DOMAIN assocs)

\* Neutron may have done what it is asked to although the call meets an error.
HandleDeleteBgpvpn(r) ==
  /\ MayDelete(r)
  /\ \/ AfterDelete(r, resource_id[r] \in DOMAIN bgpvpns) /\ DeleteBgpvpn(resource_id[r])
     \/ Raises(r) /\ (DeleteBgpvpn(resource_id[r]) \/ UNCHANGED <<bgpvpns, assocs>>)
  /\ UNCHANGED <<used, template, resource_id, asked, made, refused, stops>>

HandleDeleteAssoc(a) ==
  /\ MayDelete(a)
  /\ \/ AfterDelete(a, Exists(Path(a))) /\ DeleteAssoc(Path(a))
     \/ Raises(a) /\ (DeleteAssoc(Path(a)) \/ UNCHANGED assocs)
  /\ UNCHANGED <<bgpvpns, used, template, resource_id, asked, made, refused, stops>>

\* _show_resource: the resource is there, or not found.  The client has no show_port_association, which is called for port associations.
Show(r) ==
  IF r \in PortAssoc THEN "error"
  ELSE IF r \in Vpn THEN IF resource_id[r] \in DOMAIN bgpvpns THEN "there" ELSE "not found"
  ELSE IF Exists(Path(r)) THEN "there" ELSE "not found"

CheckDelete(r) ==
  /\ status[r] = "deleting"
  /\ \/ /\ Show(r) # "there"
        /\ status' = [status EXCEPT ![r] =
             IF Show(r) = "error" THEN "delete_failed" ELSE "deleted"]
        /\ UNCHANGED faults
     \/ Raises(r)
  /\ UNCHANGED <<neutron, template, resource_id, asked, made, refused, stops>>

\* The user asks for the deletion of the stack again.
Retry(r) ==
  /\ status[r] = "delete_failed"
  /\ status' = [status EXCEPT ![r] = "failed"]
  /\ UNCHANGED <<neutron, template, resource_id, asked, made, refused, stops, faults>>

-----------------------------------------------------------------------------
(***************************************************************************)
(* Other clients of Neutron.                                               *)
(***************************************************************************)

OtherCreates(name) ==
  /\ Id \ used # {}
  /\ used' = used \cup {NewId}
  /\ bgpvpns' = Extended(bgpvpns, NewId, name)
  /\ UNCHANGED <<assocs, template, status, resource_id, asked, made, refused, stops, faults>>

OtherRenames(b, name) ==
  /\ b \in DOMAIN bgpvpns
  /\ bgpvpns' = [bgpvpns EXCEPT ![b] = name]
  /\ UNCHANGED <<assocs, used, template, status, resource_id, asked, made, refused, stops, faults>>

OtherDeletes(x) ==
  /\ x \in DOMAIN bgpvpns \cup DOMAIN assocs
  /\ IF x \in DOMAIN bgpvpns
     THEN bgpvpns' = WithoutBgpvpn(x) /\ assocs' = WithoutAssocsOf(x)
     ELSE assocs' = Only(assocs, DOMAIN assocs \ {x}) /\ UNCHANGED bgpvpns
  /\ UNCHANGED <<used, template, status, resource_id, asked, made, refused, stops, faults>>

Init ==
  /\ \E existing \in {{}, {CHOOSE x \in Id : TRUE}}, name \in Name :
       bgpvpns = [b \in existing |-> name] /\ used = existing
  /\ assocs = <<>>
  /\ bgpvpn_id \in [Assoc -> Vpn \cup Existing]
  /\ \E route \in [PortAssoc -> {{}} \cup {{x} : x \in RouteProperties}] : routes =
       [a \in Assoc |-> IF a \in PortAssoc THEN route[a] ELSE {}]
  /\ status = [r \in Resource |-> "init"]
  /\ resource_id = [r \in Resource |-> None] /\ made = [r \in Resource |-> None]
  /\ asked = FALSE /\ refused = {} /\ stops = {} /\ faults = 0

Step(r) == SetResourceId(r) \/ EngineStops(r) \/ CheckDelete(r) \/ Retry(r)

HandleDelete == (\E r \in Vpn : HandleDeleteBgpvpn(r)) \/ (\E a \in Assoc : HandleDeleteAssoc(a))

Others ==
  \/ \E name \in Name : OtherCreates(name)
  \/ \E b \in Id, name \in Name : OtherRenames(b, name)
  \/ \E x \in Id : OtherDeletes(x)

Next ==
  \/ \E r \in Vpn, name \in Name : CreateBgpvpn(r, name)
  \/ \E a \in Assoc : CreateAssoc(a)
  \/ DeleteStack \/ HandleDelete
  \/ \E r \in Resource : Step(r)
  \/ Others

Spec == Init /\ [][Next]_vars

\* The engine goes on with what it has begun; nothing makes the user ask again.
Fairness ==
  /\ WF_vars(HandleDelete)
  /\ \A r \in Resource : WF_vars(SetResourceId(r)) /\ WF_vars(CheckDelete(r))

FairSpec == Spec /\ Fairness

-----------------------------------------------------------------------------
(***************************************************************************)
(* Properties.                                                             *)
(***************************************************************************)

\* What Heat created for a resource is gone once the resource is deleted, unless
\* the engine stopped before it had stored the id.
NothingLeftBehind ==
  \A r \in Resource \ stops :
    status[r] = "deleted" => made[r] \notin DOMAIN bgpvpns \cup DOMAIN assocs

\* Neutron refuses the routes of a template only for what the template itself
\* leaves out or for a BGPVPN that is gone: the clean-up sends nothing that a
\* route of its type must not have.
RoutesAreSentClean ==
  \A a \in refused : \E x \in routes[a] : x.type = "prefix" /\ x.prefix = None

\* A user who asks again each time a deletion has failed has the stack deleted in
\* the end, whatever failed on the way: what an earlier deletion, another client or
\* the BGPVPN's own deletion has already taken does not stand in the way.
DeletionEnds ==
  WF_vars(\E r \in Resource : Retry(r)) =>
    (asked ~> \A r \in Resource : status[r] \in {"init", "deleted"})

\* A deletion that Neutron has carried out does not fail.
DeletionsSucceed == \A r \in Resource : status[r] # "delete_failed"
=============================================================================
