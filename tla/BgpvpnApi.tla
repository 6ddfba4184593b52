----------------------------- MODULE BgpvpnApi -----------------------------
(***************************************************************************)
(* What a caller of the API may do, sees and finds: the default policies   *)
(* (networking_bgpvpn/policies), the listing of BGPVPNs by the resources   *)
(* they are associated with, and the attributes on their way from a        *)
(* request into the tables and back into an answer (db/bgpvpn_db.py and    *)
(* services/common/utils.py).                                              *)
(*                                                                         *)
(* One request is one step here: BGPVPNPlugin has the interleavings.  The  *)
(* policy engine is Neutron's: a request is refused when the rule of its   *)
(* action or of an attribute in its body denies it, and an answer leaves   *)
(* out the attributes whose rule denies it.                                *)
(***************************************************************************)
EXTENDS Naturals, Sequences, FiniteSets

CONSTANTS
  Project,      \* the projects, which are also the tenants that ask
  BgpvpnId,
  Network, Router, Port,
  Attr,         \* the attributes of BGPVPNs that the instance has
  Rt,           \* route targets and distinguishers
  NamedValue,   \* values of the other attributes
  ByPort,       \* whether BGPVPNs are listed by port
  MaxRequests,  \* bound: the number of requests
  MaxList,      \* bound: the length of the lists that are set
  Admin, NoRow, None

ListAttr == {"route_targets", "import_targets", "export_targets", "route_distinguishers"}

ASSUME AttrAssumption == Attr \subseteq ListAttr \cup {"name", "vni", "local_pref"}
ASSUME BoundAssumption == MaxRequests \in Nat /\ MaxList \in Nat

Context == Project \cup {Admin}

VARIABLES
  bgpvpns,       \* table bgpvpns: the project and the columns of Attr
  netAssocs,     \* tables of associations: a BGPVPN and a network,
  portAssocs,    \* ... or a port,
  routerAssocs,  \* ... or a router, with advertise_extra_routes
  answer,        \* the request answered last, and its answer
  requests       \* how many requests there were

tables == <<bgpvpns, netAssocs, portAssocs, routerAssocs>>
vars == <<tables, answer, requests>>

-----------------------------------------------------------------------------
(***************************************************************************)
(* Policies.                                                               *)
(***************************************************************************)

\* The actions on BGPVPNs for administrators only; the others are for
\* administrators and owners.
AdminActions == {"create_bgpvpn", "delete_bgpvpn"}

\* Mutant: no rule for the import targets.
AdminUpdatesOfOther ==
  {"project_id", "route_targets", "export_targets", "route_distinguishers", "vni"}

AdminUpdates ==
  {"project_id", "route_targets", "import_targets", "export_targets",
   "route_distinguishers", "vni"}

\* Mutant: no rule for the export targets.
AdminReadsOfOther ==
  {"project_id", "route_targets", "import_targets", "route_distinguishers", "vni"}

AdminReads ==
  {"project_id", "route_targets", "import_targets", "export_targets",
   "route_distinguishers", "vni"}

\* Associations of networks, routers and ports have the same rules: their
\* project is for administrators to read, all the rest for their owners too.
AssocAdminReads == {"project_id"}

Owns(ctx, project) == ctx \in {Admin, project}

Permits(ctx, action, project) ==
  IF action \in AdminActions THEN ctx = Admin ELSE Owns(ctx, project)

PermitsUpdate(ctx, body, project) ==
  Permits(ctx, "update_bgpvpn", project) /\ (ctx = Admin \/ DOMAIN body \cap AdminUpdates = {})

Restrict(f, S) == [x \in S |-> f[x]]

\* The row with the columns that are set.
Updated(row, columns) ==
  [k \in DOMAIN row \cup DOMAIN columns |-> IF k \in DOMAIN columns THEN columns[k] ELSE row[k]]

\* The part of a resource that the caller is shown.
View(ctx, dict, hidden) == IF ctx = Admin THEN dict ELSE Restrict(dict, DOMAIN dict \ hidden)

-----------------------------------------------------------------------------
(***************************************************************************)
(* Attributes.  A text is a sequence of route targets and commas.          *)
(***************************************************************************)

\* rtrd_list2str: ','.join.
List2Str(list) ==
  [i \in 1..(IF list = <<>> THEN 0 ELSE 2 * Len(list) - 1) |->
     IF i % 2 = 1 THEN list[(i + 1) \div 2] ELSE ","]

\* What is between the commas.
Words(text) == [i \in 1..((Len(text) + 1) \div 2) |-> text[2 * i - 1]]

\* Mutant: an empty text is split like any other.
SplitAlways(text) == IF text = <<>> THEN <<"">> ELSE Words(text)

\* rtrd_str2list: no list for an empty text, else split(',').
Str2List(text) == IF text = <<>> THEN <<>> ELSE Words(text)

\* The columns that a body sets.
Columns(body) == [k \in DOMAIN body |-> IF k \in ListAttr THEN List2Str(body[k]) ELSE body[k]]

Of(assocs, b) == {a.resource : a \in {x \in assocs : x.bgpvpn = b}}

\* _make_bgpvpn_dict.
Dict(b, row) ==
  [k \in Attr \cup {"id", "project_id", "networks", "routers", "ports"} |->
     CASE k = "id" -> b
       [] k = "networks" -> Of(netAssocs, b)
       [] k = "routers" -> Of(routerAssocs, b)
       [] k = "ports" -> Of(portAssocs, b)
       [] k \in ListAttr -> Str2List(row[k])
       [] OTHER -> row[k]]

Lists == UNION {[1..n -> Rt] : n \in 0..MaxList}

Bodies(keys) ==
  {body \in [keys -> Lists \cup NamedValue] :
     \A k \in keys : body[k] \in IF k \in ListAttr THEN Lists ELSE NamedValue}

-----------------------------------------------------------------------------
(***************************************************************************)
(* Requests.                                                               *)
(***************************************************************************)

Live(b) == bgpvpns[b] # NoRow

Answers(reply) ==
  /\ requests < MaxRequests
  /\ requests' = requests + 1
  /\ answer' = reply

Refuses(ctx) == Answers([to |-> ctx, what |-> "refused"]) /\ UNCHANGED tables

CreateBgpvpn(ctx, b, project, body) ==
  /\ bgpvpns[b] = NoRow
  /\ IF Permits(ctx, "create_bgpvpn", project)
     THEN LET row == Updated([project_id |-> project], Columns(body))
          IN /\ bgpvpns' = [bgpvpns EXCEPT ![b] = row]
             /\ Answers([to |-> ctx, what |-> "bgpvpn", body |-> body,
                         shown |-> View(ctx, Dict(b, row), AdminReads)])
             /\ UNCHANGED <<netAssocs, portAssocs, routerAssocs>>
     ELSE Refuses(ctx)

\* A BGPVPN that the caller may not get is not found.
UpdateBgpvpn(ctx, b, body) ==
  /\ Live(b)
  /\ IF PermitsUpdate(ctx, body, bgpvpns[b].project_id)
     THEN LET row == Updated(bgpvpns[b], Columns(body))
          IN /\ bgpvpns' = [bgpvpns EXCEPT ![b] = row]
             /\ Answers([to |-> ctx, what |-> "bgpvpn", body |-> body,
                         shown |-> View(ctx, Dict(b, row), AdminReads)])
             /\ UNCHANGED <<netAssocs, portAssocs, routerAssocs>>
     ELSE Refuses(ctx)

DeleteBgpvpn(ctx, b) ==
  /\ Live(b)
  /\ IF Permits(ctx, "delete_bgpvpn", bgpvpns[b].project_id)
     THEN /\ bgpvpns' = [bgpvpns EXCEPT ![b] = NoRow]
          /\ netAssocs' = {a \in netAssocs : a.bgpvpn # b}
          /\ portAssocs' = {a \in portAssocs : a.bgpvpn # b}
          /\ routerAssocs' = {a \in routerAssocs : a.bgpvpn # b}
          /\ Answers([to |-> ctx, what |-> "deleted"])
     ELSE Refuses(ctx)

\* Mutant: all the networks have to be associated.
HookOfAll(filter) ==
  {b \in {x \in BgpvpnId : Live(x)} :
     filter.networks \subseteq Of(netAssocs, b)
       /\ (filter.routers # {} => filter.routers \cap Of(routerAssocs, b) # {})}

\* _list_bgpvpns_result_filter_hook.  Each filter joins a table and selects the
\* rows with one of the resources.  The filter for ports joins the router
\* associations and leaves the port associations unrelated to the BGPVPN.
FilterHook(filter) ==
  {b \in {x \in BgpvpnId : Live(x)} :
     /\ filter.networks # {} => filter.networks \cap Of(netAssocs, b) # {}
     /\ filter.routers # {} => filter.routers \cap Of(routerAssocs, b) # {}
     /\ filter.ports # {} =>
          Of(routerAssocs, b) # {} /\ \E a \in portAssocs : a.resource \in filter.ports}

\* The rows of other projects are left out by the query.
GetBgpvpns(ctx, filter) ==
  /\ LET found == {b \in FilterHook(filter) : Permits(ctx, "get_bgpvpn", bgpvpns[b].project_id)}
     IN Answers([to |-> ctx, what |-> "list", filter |-> filter, found |-> found,
          shown |-> {View(ctx, Dict(b, bgpvpns[b]), AdminReads) : b \in found}])
  /\ UNCHANGED tables

\* The tenant owns what it associates.
MayAssociate(ctx, b) == Live(b) /\ Owns(ctx, bgpvpns[b].project_id)

AssocDict(a, project) == Updated([project_id |-> project], a)

CreateNetAssoc(ctx, b, n) ==
  /\ MayAssociate(ctx, b) /\ n \notin Of(netAssocs, b)
  /\ LET a == [bgpvpn |-> b, resource |-> n]
     IN netAssocs' = netAssocs \cup {a}
          /\ Answers([to |-> ctx, what |-> "assoc",
               shown |-> View(ctx, AssocDict(a, bgpvpns[b].project_id), AssocAdminReads)])
  /\ UNCHANGED <<bgpvpns, portAssocs, routerAssocs>>

CreatePortAssoc(ctx, b, p) ==
  /\ MayAssociate(ctx, b) /\ p \notin Of(portAssocs, b)
  /\ LET a == [bgpvpn |-> b, resource |-> p]
     IN portAssocs' = portAssocs \cup {a}
          /\ Answers([to |-> ctx, what |-> "assoc",
               shown |-> View(ctx, AssocDict(a, bgpvpns[b].project_id), AssocAdminReads)])
  /\ UNCHANGED <<bgpvpns, netAssocs, routerAssocs>>

\* advertise_extra_routes of the body is not stored: the column has its default.
CreateRouterAssoc(ctx, b, r, extra) ==
  /\ MayAssociate(ctx, b) /\ r \notin Of(routerAssocs, b)
  /\ LET a == [bgpvpn |-> b, resource |-> r, extra |-> TRUE]
     IN routerAssocs' = routerAssocs \cup {a}
          /\ Answers([to |-> ctx, what |-> "router_assoc", asked |-> extra,
               shown |-> View(ctx, AssocDict(a, bgpvpns[b].project_id), AssocAdminReads)])
  /\ UNCHANGED <<bgpvpns, netAssocs, portAssocs>>

UpdateRouterAssoc(ctx, a, extra) ==
  /\ a \in routerAssocs /\ MayAssociate(ctx, a.bgpvpn)
  /\ LET new == [a EXCEPT !.extra = extra]
     IN routerAssocs' = (routerAssocs \ {a}) \cup {new}
          /\ Answers([to |-> ctx, what |-> "router_assoc", asked |-> extra,
               shown |-> View(ctx, AssocDict(new, bgpvpns[a.bgpvpn].project_id), AssocAdminReads)])
  /\ UNCHANGED <<bgpvpns, netAssocs, portAssocs>>

DeleteNetAssoc(ctx, a) ==
  /\ a \in netAssocs /\ MayAssociate(ctx, a.bgpvpn)
  /\ netAssocs' = netAssocs \ {a}
  /\ Answers([to |-> ctx, what |-> "deleted"])
  /\ UNCHANGED <<bgpvpns, portAssocs, routerAssocs>>

DeletePortAssoc(ctx, a) ==
  /\ a \in portAssocs /\ MayAssociate(ctx, a.bgpvpn)
  /\ portAssocs' = portAssocs \ {a}
  /\ Answers([to |-> ctx, what |-> "deleted"])
  /\ UNCHANGED <<bgpvpns, netAssocs, routerAssocs>>

DeleteRouterAssoc(ctx, a) ==
  /\ a \in routerAssocs /\ MayAssociate(ctx, a.bgpvpn)
  /\ routerAssocs' = routerAssocs \ {a}
  /\ Answers([to |-> ctx, what |-> "deleted"])
  /\ UNCHANGED <<bgpvpns, netAssocs, portAssocs>>

-----------------------------------------------------------------------------
Init ==
  /\ bgpvpns = [b \in BgpvpnId |-> NoRow]
  /\ netAssocs = {} /\ portAssocs = {} /\ routerAssocs = {}
  /\ answer = [to |-> None, what |-> "nothing"]
  /\ requests = 0

\* Two filters on the same table are left out.
Filter ==
  {f \in [networks : SUBSET Network, routers : SUBSET Router,
          ports : IF ByPort THEN SUBSET Port ELSE {{}}] : f.routers = {} \/ f.ports = {}}

BgpvpnNext(ctx) ==
  \/ \E b \in BgpvpnId, project \in Project, body \in Bodies(Attr) : CreateBgpvpn(ctx, b, project, body)
  \/ \E b \in BgpvpnId, k \in Attr : \E body \in Bodies({k}) : UpdateBgpvpn(ctx, b, body)
  \/ \E b \in BgpvpnId : DeleteBgpvpn(ctx, b)
  \/ \E filter \in Filter : GetBgpvpns(ctx, filter)

AssocNext(ctx) ==
  \/ \E b \in BgpvpnId, n \in Network : CreateNetAssoc(ctx, b, n)
  \/ \E b \in BgpvpnId, p \in Port : CreatePortAssoc(ctx, b, p)
  \/ \E b \in BgpvpnId, r \in Router, extra \in BOOLEAN : CreateRouterAssoc(ctx, b, r, extra)
  \/ \E a \in routerAssocs, extra \in BOOLEAN : UpdateRouterAssoc(ctx, a, extra)
  \/ \E a \in netAssocs : DeleteNetAssoc(ctx, a)
  \/ \E a \in portAssocs : DeletePortAssoc(ctx, a)
  \/ \E a \in routerAssocs : DeleteRouterAssoc(ctx, a)

Next == \E ctx \in Context : BgpvpnNext(ctx) \/ AssocNext(ctx)

Spec == Init /\ [][Next]_vars

-----------------------------------------------------------------------------
(***************************************************************************)
(* Properties.                                                             *)
(***************************************************************************)

\* What identifies a VPN in the network of the provider.
VpnParameter == ListAttr \cup {"vni"}

\* VPN parameters "cannot be chosen by tenants, but only by the admin"
\* (doc/source/user/overview.rst).
OnlyTheAdminChooses ==
  [][\A b \in BgpvpnId, k \in VpnParameter \cap Attr :
       bgpvpns'[b] # NoRow /\ (~ Live(b) \/ bgpvpns'[b][k] # bgpvpns[b][k]) => answer'.to = Admin]_vars

Shown == CASE answer.what = "list" -> answer.shown
           [] answer.what = "bgpvpn" -> {answer.shown}
           [] OTHER -> {}

\* Tenants are shown their own BGPVPNs, and no parameter of the VPN, whatever
\* the request is that is answered.
TenantsAreNotTold ==
  answer.to # Admin =>
    \A dict \in Shown :
      /\ DOMAIN dict \cap VpnParameter = {}
      /\ Live(dict.id) => bgpvpns[dict.id].project_id = answer.to

\* What is set is what is shown afterwards: empty lists, lists of one and of
\* several, in their order.
StoredAsGiven ==
  answer.what = "bgpvpn" =>
    \A k \in DOMAIN answer.body \cap DOMAIN answer.shown : answer.shown[k] = answer.body[k]

MeetsFilter(b, filter) ==
  /\ filter.networks # {} => filter.networks \cap Of(netAssocs, b) # {}
  /\ filter.routers # {} => filter.routers \cap Of(routerAssocs, b) # {}
  /\ filter.ports # {} => filter.ports \cap Of(portAssocs, b) # {}

\* A listing by associated resources finds exactly the BGPVPNs of the caller
\* that are associated with one of them.
FoundByResource ==
  answer.what = "list" =>
    answer.found = {b \in BgpvpnId : Live(b) /\ Owns(answer.to, bgpvpns[b].project_id)
                                       /\ MeetsFilter(b, answer.filter)}

\* A router association advertises extra routes as its request says.
ExtraRoutesAsAsked ==
  answer.what = "router_assoc" => answer.shown.extra = answer.asked
=============================================================================
