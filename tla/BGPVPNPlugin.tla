---------------------------- MODULE BGPVPNPlugin ----------------------------
(***************************************************************************)
(* The BGPVPN service plugin (services/plugin.py) on its database          *)
(* (db/bgpvpn_db.py), through a driver that keeps its data in that database*)
(* (BGPVPNDriverRC of service_drivers/driver_api.py).                      *)
(*                                                                         *)
(* API workers serve requests concurrently.  A request first reads, in     *)
(* transactions of their own, what it needs to decide whether it is        *)
(* allowed, and then writes in one last transaction; nothing it read is    *)
(* locked or read again, so everything may have changed in between.  A     *)
(* worker holds in req[w] what its request has established so far.         *)
(*                                                                         *)
(* The transactions of the database are atomic here.  A request that is    *)
(* refused changes nothing: the actions state when it goes on, and Refuse  *)
(* ends it.                                                                *)
(*                                                                         *)
(* A definition marked as a mutant is a fault the definition after it might*)
(* have had; nothing uses it, the runs check that they would find it.      *)
(***************************************************************************)
EXTENDS Naturals, FiniteSets

CONSTANTS
  Worker,        \* the API workers of neutron-server
  Project,       \* the projects (tenants)
  Admin,         \* the context of an administrator, who sees every project
  BgpvpnId,      \* the UUIDs BGPVPNs may get
  Network,       \* the Neutron networks
  Router,        \* the Neutron routers
  Port,          \* the Neutron ports of instances
  Owner,         \* the project of each network, router and port
  NetworkOf,     \* the network of each port
  Prefix,        \* the prefixes a port association's routes may carry
  Name,          \* the names BGPVPNs may have
  RT,            \* the route target lists BGPVPNs may have
  Advertise,     \* the values of the advertise_* flags of associations
  Default,       \* the one a new router association gets
  MaxInterfaces, \* how many router interfaces exist at a time
  NoRow,         \* no BGPVPN has this UUID (any more, or yet)
  Idle,          \* a worker without a request
  Absent         \* an attribute the body of an update does not carry

Resource == Network \cup Router \cup Port

Context == Project \cup {Admin}

VpnType == {"l2", "l3"}

\* A row of the table bgpvpns.
Bgpvpn == [project: Project, type: VpnType, name: Name, rt: RT]

\* A route of a port association: a prefix, or a BGPVPN whose routes to leak.
Route == Prefix \cup BgpvpnId

ASSUME AdminAssumption == Admin \notin Project
ASSUME OwnerAssumption == Owner \in [Resource -> Project]
ASSUME NetworkOfAssumption == NetworkOf \in [Port -> Network]
ASSUME DefaultAssumption == Default \in Advertise
ASSUME MaxInterfacesAssumption == MaxInterfaces \in Nat
ASSUME RouteAssumption == Prefix \cap BgpvpnId = {}
ASSUME NoRowAssumption == NoRow \notin Bgpvpn
ASSUME AbsentAssumption ==
  /\ \A routes \in SUBSET Route : Absent # routes
  /\ Absent \notin Advertise /\ Absent \notin Name /\ Absent \notin RT

VARIABLES
  bgpvpns,       \* table bgpvpns: the row of each UUID, or NoRow
  uuids,         \* the UUIDs generated so far: none is ever used again
  netAssocs,     \* table bgpvpn_network_associations
  routerAssocs,  \* table bgpvpn_router_associations
  portAssocs,    \* table bgpvpn_port_associations, each row with its routes
  resources,     \* the networks, routers and ports that exist
  interfaces,    \* router interfaces: <<router, network>>
  req            \* the request each worker serves

vars == <<bgpvpns, uuids, netAssocs, routerAssocs, portAssocs, resources,
          interfaces, req>>

assocVars == <<netAssocs, routerAssocs, portAssocs>>
neutronVars == <<resources, interfaces>>

-----------------------------------------------------------------------------
(***************************************************************************)
(* The rows of the association tables and the requests in flight.          *)
(***************************************************************************)

NetAssoc == [bgpvpn: BgpvpnId, resource: Network, project: Project]

RouterAssoc ==
  [bgpvpn: BgpvpnId, resource: Router, project: Project, extra: Advertise]

PortAssoc ==
  [bgpvpn: BgpvpnId, resource: Port, project: Project, fixed: Advertise,
   routes: SUBSET Route]

\* A create request of each association table.  It has validated the resource
\* ("resource"), then the BGPVPN ("bgpvpn"), then, for a port association, the
\* routes ("routes").
NetRequest ==
  [op: {"net"}, validated: {"resource", "bgpvpn"}, ctx: Context,
   project: Project, bgpvpn: BgpvpnId, resource: Network]

RouterRequest ==
  [op: {"router"}, validated: {"resource", "bgpvpn"}, ctx: Context,
   project: Project, bgpvpn: BgpvpnId, resource: Router]

PortRequest ==
  [op: {"port"}, validated: {"resource", "bgpvpn", "routes"}, ctx: Context,
   project: Project, bgpvpn: BgpvpnId, resource: Port, fixed: Advertise,
   routes: SUBSET Route]

\* An update of a port association whose routes are validated.
PortUpdate ==
  [op: {"port_update"}, ctx: Context, bgpvpn: BgpvpnId, resource: Port,
   fixed: {Absent} \cup Advertise, routes: {Absent} \cup SUBSET Route]

\* An update of a BGPVPN that has read the row as it was.
BgpvpnUpdate ==
  [op: {"bgpvpn_update"}, ctx: Context, bgpvpn: BgpvpnId, old: Bgpvpn,
   name: Name \cup {Absent}, rt: RT \cup {Absent}]

\* A router interface that passed the plugin's BEFORE_CREATE callback.
InterfaceRequest ==
  [op: {"interface"}, ctx: Context, router: Router, network: Network]

Request ==
  NetRequest \cup RouterRequest \cup PortRequest \cup PortUpdate
    \cup BgpvpnUpdate \cup InterfaceRequest

ASSUME IdleAssumption == Idle \notin Request

-----------------------------------------------------------------------------
(***************************************************************************)
(* What a request reads.                                                   *)
(***************************************************************************)

Live(b) == bgpvpns[b] # NoRow

\* Mutant: queries run in an elevated context.
CanSeeAll(ctx, project) == TRUE

\* Queries of a tenant return the rows of its own project only.
CanSee(ctx, project) == ctx \in {Admin, project}

\* The UUIDs of the BGPVPNs a query in context ctx returns.
GetBgpvpns(ctx) == {b \in BgpvpnId : Live(b) /\ CanSee(ctx, bgpvpns[b].project)}

\* The BGPVPNs a network, or a router, is associated with.
BgpvpnsOf(assocs, r) == {a.bgpvpn : a \in {x \in assocs : x.resource = r}}

RoutersOn(n) == {r \in Router : <<r, n>> \in interfaces}
NetworksOn(r) == {n \in Network : <<r, n>> \in interfaces}

\* Does a network association pass?  Of the network's router ports the plugin
\* looks at the first, in whatever order the database returns them, and the
\* BGPVPNs it looks for are those of the network's project.
NetworkHasNoRouterAssoc(ctx, n) ==
  \/ RoutersOn(n) = {}
  \/ \E r \in RoutersOn(n) :
       \A b \in BgpvpnsOf(routerAssocs, r) \cap GetBgpvpns(ctx) :
         bgpvpns[b].project # Owner[n]

\* Mutant: looks for the router among the networks of the BGPVPNs.
RouterHasNoNetAssocsOfItself(ctx, r) ==
  \/ NetworksOn(r) = {}
  \/ \A b \in BgpvpnsOf(netAssocs, r) \cap GetBgpvpns(ctx) :
       bgpvpns[b].project # Owner[r]

\* Does a router association pass?  The loop over the router's ports rebinds
\* the list of BGPVPNs to the identifiers of those it found for the first port:
\* unless it found one, it has nothing left to look up for the other ports.
RouterHasNoNetAssocs(ctx, r) ==
  \/ NetworksOn(r) = {}
  \/ \E n \in NetworksOn(r) :
       \A b \in BgpvpnsOf(netAssocs, n) \cap GetBgpvpns(ctx) :
         bgpvpns[b].project # Owner[r]

\* Does the BEFORE_CREATE callback of a router interface let it through?
InterfaceAllowed(ctx, r, n) ==
  \/ BgpvpnsOf(routerAssocs, r) \cap GetBgpvpns(ctx) = {}
  \/ \A b \in BgpvpnsOf(netAssocs, n) \cap GetBgpvpns(ctx) :
       bgpvpns[b].type # "l3"

\* Mutants: the type, or the project, of the BGPVPNs to leak from is not checked.
RoutesAllowedOfAnyType(ctx, routes, b, project) ==
  \A x \in routes \cap BgpvpnId :
    {x, b} \subseteq GetBgpvpns(ctx) /\ bgpvpns[x].project = project

RoutesAllowedOfAnyProject(ctx, routes, b, project) ==
  \A x \in routes \cap BgpvpnId :
    {x, b} \subseteq GetBgpvpns(ctx) /\ bgpvpns[x].type = bgpvpns[b].type

\* Do the routes to leak pass, for an association of project and BGPVPN b?
RoutesAllowed(ctx, routes, b, project) ==
  \A x \in routes \cap BgpvpnId :
    /\ {x, b} \subseteq GetBgpvpns(ctx)
    /\ bgpvpns[x].type = bgpvpns[b].type
    /\ bgpvpns[x].project = project

-----------------------------------------------------------------------------
(***************************************************************************)
(* The life of a request.                                                  *)
(***************************************************************************)

Begin(w, q) ==
  /\ req[w] = Idle
  /\ req' = [req EXCEPT ![w] = q]

Serves(w, op) == req[w] # Idle /\ req[w].op = op

Validated(w, op, what) == Serves(w, op) /\ req[w].validated = what

Advance(w, what) == req' = [req EXCEPT ![w].validated = what]

Finish(w) == req' = [req EXCEPT ![w] = Idle]

\* A request ends without effect: a check failed, a hook of the driver raised
\* before the commit, or the database aborted the transaction.
Refuse(w) ==
  /\ req[w] # Idle
  /\ Finish(w)
  /\ UNCHANGED <<bgpvpns, uuids, assocVars, neutronVars>>

\* Mutants: the project of the resource, or the type of the BGPVPN, is not
\* checked.
BgpvpnAcceptsAnyOwner(q) ==
  /\ q.bgpvpn \in GetBgpvpns(q.ctx)
  /\ q.project = bgpvpns[q.bgpvpn].project
  /\ q.op = "router" => bgpvpns[q.bgpvpn].type = "l3"

BgpvpnAcceptsAnyType(q) ==
  /\ q.bgpvpn \in GetBgpvpns(q.ctx)
  /\ Owner[q.resource] = bgpvpns[q.bgpvpn].project
  /\ q.project = bgpvpns[q.bgpvpn].project

\* The checks on the BGPVPN that follow those on the resource: the resource and
\* the association belong to the project of the BGPVPN.
BgpvpnAccepts(q) ==
  /\ q.bgpvpn \in GetBgpvpns(q.ctx)
  /\ Owner[q.resource] = bgpvpns[q.bgpvpn].project
  /\ q.project = bgpvpns[q.bgpvpn].project
  /\ q.op = "router" => bgpvpns[q.bgpvpn].type = "l3"

\* Mutants: a table without foreign keys, or without its unique constraint.
CanInsertDangling(assocs, q) ==
  \A a \in assocs : <<a.bgpvpn, a.resource>> # <<q.bgpvpn, q.resource>>

CanInsertTwice(assocs, q) == Live(q.bgpvpn) /\ q.resource \in resources

\* The foreign keys and the unique constraint of an association table let the
\* association of request q in.
CanInsert(assocs, q) ==
  /\ Live(q.bgpvpn)
  /\ q.resource \in resources
  /\ \A a \in assocs : <<a.bgpvpn, a.resource>> # <<q.bgpvpn, q.resource>>

\* Mutant: a routes table without a foreign key.
CanRouteDangling(routes) == routes \cap BgpvpnId \subseteq uuids

\* The foreign key of the routes table.
CanRoute(routes) == \A x \in routes \cap BgpvpnId : Live(x)

\* Mutant: the BGPVPN is found, but not compared with the resource.
ValidateBgpvpnFound(w) ==
  /\ \E op \in {"net", "router", "port"} : Validated(w, op, "resource")
  /\ req[w].bgpvpn \in GetBgpvpns(req[w].ctx)
  /\ Advance(w, "bgpvpn")
  /\ UNCHANGED <<bgpvpns, uuids, assocVars, neutronVars>>

ValidateBgpvpn(w) ==
  /\ \E op \in {"net", "router", "port"} : Validated(w, op, "resource")
  /\ BgpvpnAccepts(req[w])
  /\ Advance(w, "bgpvpn")
  /\ UNCHANGED <<bgpvpns, uuids, assocVars, neutronVars>>

-----------------------------------------------------------------------------
(***************************************************************************)
(* BGPVPNs.                                                                *)
(***************************************************************************)

CreateBgpvpn(b, row) ==
  /\ b \notin uuids
  /\ uuids' = uuids \cup {b}
  /\ bgpvpns' = [bgpvpns EXCEPT ![b] = row]
  /\ UNCHANGED <<assocVars, neutronVars, req>>

\* Only an administrator may change route targets.
BeginBgpvpnUpdate(w, ctx, b, name, rt) ==
  /\ b \in GetBgpvpns(ctx)
  /\ rt # Absent => ctx = Admin
  /\ Begin(w, [op |-> "bgpvpn_update", ctx |-> ctx, bgpvpn |-> b,
               old |-> bgpvpns[b], name |-> name, rt |-> rt])
  /\ UNCHANGED <<bgpvpns, uuids, assocVars, neutronVars>>

\* Mutant: writes back the row it read before its transaction.
UpdatedOldBgpvpn(row, q) ==
  [q.old EXCEPT !.name = IF q.name = Absent THEN @ ELSE q.name,
                !.rt = IF q.rt = Absent THEN @ ELSE q.rt]

\* What an update's body makes of the row it finds in its transaction.
UpdatedBgpvpn(row, q) ==
  [row EXCEPT !.name = IF q.name = Absent THEN @ ELSE q.name,
              !.rt = IF q.rt = Absent THEN @ ELSE q.rt]

CommitBgpvpnUpdate(w) ==
  /\ Serves(w, "bgpvpn_update")
  /\ Live(req[w].bgpvpn)
  /\ bgpvpns' = [bgpvpns EXCEPT ![req[w].bgpvpn] = UpdatedBgpvpn(@, req[w])]
  /\ Finish(w)
  /\ UNCHANGED <<uuids, assocVars, neutronVars>>

\* What the cascades leave of a table when BGPVPN b goes.
WithoutBgpvpn(assocs, b) == {a \in assocs : a.bgpvpn # b}

\* Mutant: the routes of the BGPVPN do not go with it.
WithRoutesTo(assocs, b) == assocs

WithoutRoutesTo(assocs, b) == {[a EXCEPT !.routes = @ \ {b}] : a \in assocs}

DeleteBgpvpn(b) ==
  /\ Live(b)
  /\ bgpvpns' = [bgpvpns EXCEPT ![b] = NoRow]
  /\ netAssocs' = WithoutBgpvpn(netAssocs, b)
  /\ routerAssocs' = WithoutBgpvpn(routerAssocs, b)
  /\ portAssocs' = WithoutRoutesTo(WithoutBgpvpn(portAssocs, b), b)
  /\ UNCHANGED <<uuids, neutronVars, req>>

-----------------------------------------------------------------------------
(***************************************************************************)
(* Network associations.                                                   *)
(***************************************************************************)

BeginNetAssoc(w, ctx, project, b, n) ==
  /\ n \in resources /\ CanSee(ctx, Owner[n]) /\ CanSee(ctx, project)
  /\ b \in uuids
  /\ NetworkHasNoRouterAssoc(ctx, n)
  /\ Begin(w, [op |-> "net", validated |-> "resource", ctx |-> ctx,
               project |-> project, bgpvpn |-> b, resource |-> n])
  /\ UNCHANGED <<bgpvpns, uuids, assocVars, neutronVars>>

CommitNetAssoc(w) ==
  /\ Validated(w, "net", "bgpvpn")
  /\ CanInsert(netAssocs, req[w])
  /\ netAssocs' = netAssocs \cup
       {[bgpvpn |-> req[w].bgpvpn, resource |-> req[w].resource,
         project |-> req[w].project]}
  /\ Finish(w)
  /\ UNCHANGED <<bgpvpns, uuids, routerAssocs, portAssocs, neutronVars>>

\* Mutant: deletes by network, of whatever BGPVPN.
DeleteNetAssocs(a) ==
  /\ netAssocs' = {x \in netAssocs : x.resource # a.resource}
  /\ UNCHANGED <<bgpvpns, uuids, routerAssocs, portAssocs, neutronVars, req>>

DeleteNetAssoc(a) ==
  /\ netAssocs' = netAssocs \ {a}
  /\ UNCHANGED <<bgpvpns, uuids, routerAssocs, portAssocs, neutronVars, req>>

-----------------------------------------------------------------------------
(***************************************************************************)
(* Router associations.                                                    *)
(***************************************************************************)

BeginRouterAssoc(w, ctx, project, b, r) ==
  /\ r \in resources /\ CanSee(ctx, Owner[r]) /\ CanSee(ctx, project)
  /\ b \in uuids
  /\ RouterHasNoNetAssocs(ctx, r)
  /\ Begin(w, [op |-> "router", validated |-> "resource", ctx |-> ctx,
               project |-> project, bgpvpn |-> b, resource |-> r])
  /\ UNCHANGED <<bgpvpns, uuids, assocVars, neutronVars>>

\* A new association advertises extra routes, whatever its body said.
CommitRouterAssoc(w) ==
  /\ Validated(w, "router", "bgpvpn")
  /\ CanInsert(routerAssocs, req[w])
  /\ routerAssocs' = routerAssocs \cup
       {[bgpvpn |-> req[w].bgpvpn, resource |-> req[w].resource,
         project |-> req[w].project, extra |-> Default]}
  /\ Finish(w)
  /\ UNCHANGED <<bgpvpns, uuids, netAssocs, portAssocs, neutronVars>>

\* Mutant: an attribute the body does not carry is set to nothing.
UpdateRouterAssocToNull(a, extra) ==
  /\ \E x \in {extra, Absent} :
       routerAssocs' = (routerAssocs \ {a}) \cup {[a EXCEPT !.extra = x]}
  /\ UNCHANGED <<bgpvpns, uuids, netAssocs, portAssocs, neutronVars, req>>

UpdateRouterAssoc(a, extra) ==
  /\ routerAssocs' = (routerAssocs \ {a}) \cup {[a EXCEPT !.extra = extra]}
  /\ UNCHANGED <<bgpvpns, uuids, netAssocs, portAssocs, neutronVars, req>>

DeleteRouterAssoc(a) ==
  /\ routerAssocs' = routerAssocs \ {a}
  /\ UNCHANGED <<bgpvpns, uuids, netAssocs, portAssocs, neutronVars, req>>

-----------------------------------------------------------------------------
(***************************************************************************)
(* Port associations.                                                      *)
(***************************************************************************)

BeginPortAssoc(w, ctx, project, b, p, fixed, routes) ==
  /\ p \in resources /\ CanSee(ctx, Owner[p]) /\ CanSee(ctx, project)
  /\ b \in uuids /\ routes \cap BgpvpnId \subseteq uuids
  /\ Begin(w, [op |-> "port", validated |-> "resource", ctx |-> ctx,
               project |-> project, bgpvpn |-> b, resource |-> p,
               fixed |-> fixed, routes |-> routes])
  /\ UNCHANGED <<bgpvpns, uuids, assocVars, neutronVars>>

ValidateRoutes(w) ==
  /\ Validated(w, "port", "bgpvpn")
  /\ RoutesAllowed(req[w].ctx, req[w].routes, req[w].bgpvpn, req[w].project)
  /\ Advance(w, "routes")
  /\ UNCHANGED <<bgpvpns, uuids, assocVars, neutronVars>>

CommitPortAssoc(w) ==
  /\ Validated(w, "port", "routes")
  /\ CanInsert(portAssocs, req[w])
  /\ CanRoute(req[w].routes)
  /\ portAssocs' = portAssocs \cup
       {[bgpvpn |-> req[w].bgpvpn, resource |-> req[w].resource,
         project |-> req[w].project, fixed |-> req[w].fixed,
         routes |-> req[w].routes]}
  /\ Finish(w)
  /\ UNCHANGED <<bgpvpns, uuids, netAssocs, routerAssocs, neutronVars>>

\* Mutant: the update finds associations of any project.
BeginPortUpdateOfAny(w, ctx, a, fixed, routes) ==
  /\ routes # Absent => RoutesAllowed(ctx, routes, a.bgpvpn, a.project)
  /\ Begin(w, [op |-> "port_update", ctx |-> ctx, bgpvpn |-> a.bgpvpn,
               resource |-> a.resource, fixed |-> fixed, routes |-> routes])
  /\ UNCHANGED <<bgpvpns, uuids, assocVars, neutronVars>>

BeginPortUpdate(w, ctx, a, fixed, routes) ==
  /\ CanSee(ctx, a.project)
  /\ routes # Absent => RoutesAllowed(ctx, routes, a.bgpvpn, a.project)
  /\ Begin(w, [op |-> "port_update", ctx |-> ctx, bgpvpn |-> a.bgpvpn,
               resource |-> a.resource, fixed |-> fixed, routes |-> routes])
  /\ UNCHANGED <<bgpvpns, uuids, assocVars, neutronVars>>

\* The routes a body replaces all others with: none when it carries no routes.
NewRoutes(q) == IF q.routes = Absent THEN {} ELSE q.routes

UpdatedPortAssoc(a, q) ==
  [a EXCEPT !.fixed = IF q.fixed = Absent THEN @ ELSE q.fixed,
            !.routes = NewRoutes(q)]

CommitPortUpdate(w) ==
  /\ Serves(w, "port_update")
  /\ CanRoute(NewRoutes(req[w]))
  /\ \E a \in portAssocs :
       /\ <<a.bgpvpn, a.resource>> = <<req[w].bgpvpn, req[w].resource>>
       /\ portAssocs' = (portAssocs \ {a}) \cup {UpdatedPortAssoc(a, req[w])}
  /\ Finish(w)
  /\ UNCHANGED <<bgpvpns, uuids, netAssocs, routerAssocs, neutronVars>>

DeletePortAssoc(a) ==
  /\ portAssocs' = portAssocs \ {a}
  /\ UNCHANGED <<bgpvpns, uuids, netAssocs, routerAssocs, neutronVars, req>>

-----------------------------------------------------------------------------
(***************************************************************************)
(* Neutron: router interfaces come and go, networks, routers and ports are *)
(* deleted when nothing uses them any more.                                *)
(***************************************************************************)

BeginInterface(w, ctx, r, n) ==
  /\ {r, n} \subseteq resources
  /\ CanSee(ctx, Owner[r]) /\ CanSee(ctx, Owner[n])
  /\ InterfaceAllowed(ctx, r, n)
  /\ Begin(w, [op |-> "interface", ctx |-> ctx, router |-> r, network |-> n])
  /\ UNCHANGED <<bgpvpns, uuids, assocVars, neutronVars>>

CommitInterface(w) ==
  /\ Serves(w, "interface")
  /\ {req[w].router, req[w].network} \subseteq resources
  /\ interfaces' = interfaces \cup {<<req[w].router, req[w].network>>}
  /\ Cardinality(interfaces') <= MaxInterfaces
  /\ Finish(w)
  /\ UNCHANGED <<bgpvpns, uuids, assocVars, resources>>

RemoveInterface(i) ==
  /\ interfaces' = interfaces \ {i}
  /\ UNCHANGED <<bgpvpns, uuids, assocVars, resources, req>>

InUse(x) ==
  \/ \E i \in interfaces : x \in {i[1], i[2]}
  \/ \E p \in Port \cap resources : NetworkOf[p] = x

WithoutResource(assocs, x) == {a \in assocs : a.resource # x}

DeleteResource(x) ==
  /\ ~ InUse(x)
  /\ resources' = resources \ {x}
  /\ netAssocs' = WithoutResource(netAssocs, x)
  /\ routerAssocs' = WithoutResource(routerAssocs, x)
  /\ portAssocs' = WithoutResource(portAssocs, x)
  /\ UNCHANGED <<bgpvpns, uuids, interfaces, req>>

-----------------------------------------------------------------------------

Init ==
  /\ bgpvpns = [b \in BgpvpnId |-> NoRow]
  /\ uuids = {}
  /\ netAssocs = {} /\ routerAssocs = {} /\ portAssocs = {}
  /\ resources = Resource
  /\ interfaces = {}
  /\ req = [w \in Worker |-> Idle]

BgpvpnNext ==
  \/ \E b \in BgpvpnId, row \in Bgpvpn : CreateBgpvpn(b, row)
  \/ \E w \in Worker, ctx \in Context, b \in BgpvpnId,
        name \in Name \cup {Absent}, rt \in RT \cup {Absent} :
       BeginBgpvpnUpdate(w, ctx, b, name, rt)
  \/ \E w \in Worker : CommitBgpvpnUpdate(w)
  \/ \E b \in BgpvpnId : DeleteBgpvpn(b)

NetAssocNext ==
  \/ \E w \in Worker, ctx \in Context, project \in Project, b \in BgpvpnId,
        n \in Network : BeginNetAssoc(w, ctx, project, b, n)
  \/ \E w \in Worker : CommitNetAssoc(w)
  \/ \E a \in netAssocs : DeleteNetAssoc(a)

RouterAssocNext ==
  \/ \E w \in Worker, ctx \in Context, project \in Project, b \in BgpvpnId,
        r \in Router : BeginRouterAssoc(w, ctx, project, b, r)
  \/ \E w \in Worker : CommitRouterAssoc(w)
  \/ \E a \in routerAssocs, extra \in Advertise : UpdateRouterAssoc(a, extra)
  \/ \E a \in routerAssocs : DeleteRouterAssoc(a)

PortAssocNext ==
  \/ \E w \in Worker, ctx \in Context, project \in Project, b \in BgpvpnId,
        p \in Port, fixed \in Advertise, routes \in SUBSET Route :
       BeginPortAssoc(w, ctx, project, b, p, fixed, routes)
  \/ \E w \in Worker : ValidateRoutes(w) \/ CommitPortAssoc(w)
  \/ \E w \in Worker, ctx \in Context, a \in portAssocs,
        fixed \in Advertise \cup {Absent},
        routes \in {Absent} \cup SUBSET Route :
       BeginPortUpdate(w, ctx, a, fixed, routes)
  \/ \E w \in Worker : CommitPortUpdate(w)
  \/ \E a \in portAssocs : DeletePortAssoc(a)

NeutronNext ==
  \/ \E w \in Worker, ctx \in Context, r \in Router, n \in Network :
       BeginInterface(w, ctx, r, n)
  \/ \E w \in Worker : CommitInterface(w)
  \/ \E i \in interfaces : RemoveInterface(i)
  \/ \E x \in resources : DeleteResource(x)

Next ==
  \/ \E w \in Worker : ValidateBgpvpn(w) \/ Refuse(w)
  \/ BgpvpnNext
  \/ NetAssocNext
  \/ RouterAssocNext
  \/ PortAssocNext
  \/ NeutronNext

Spec == Init /\ [][Next]_vars

-----------------------------------------------------------------------------
(***************************************************************************)
(* Properties.                                                             *)
(***************************************************************************)

\* Every table holds rows of its own shape, and every worker serves at most one
\* request, of one of the kinds above.
TypeOK ==
  /\ bgpvpns \in [BgpvpnId -> {NoRow} \cup Bgpvpn]
  /\ uuids \subseteq BgpvpnId
  /\ netAssocs \subseteq NetAssoc
  /\ routerAssocs \subseteq RouterAssoc
  /\ portAssocs \subseteq PortAssoc
  /\ resources \subseteq Resource
  /\ interfaces \subseteq Router \X Network
  /\ req \in [Worker -> {Idle} \cup Request]

Assocs == netAssocs \cup routerAssocs \cup portAssocs

\* No association outlives its BGPVPN or its network, router or port, and no
\* route outlives the BGPVPN it leaks from, although both may be deleted while
\* a request that has already checked them is on its way to its commit.
ReferentialIntegrity ==
  /\ \A a \in Assocs : Live(a.bgpvpn) /\ a.resource \in resources
  /\ \A a \in portAssocs : CanRoute(a.routes)

\* A BGPVPN is associated at most once with a network, router or port, even when
\* two requests for the same pair both passed every check.
OneAssocPerPair ==
  \A t \in {netAssocs, routerAssocs, portAssocs} : \A a1, a2 \in t :
    <<a1.bgpvpn, a1.resource>> = <<a2.bgpvpn, a2.resource>> => a1 = a2

\* The association, its BGPVPN and its network, router or port are of one
\* project, although the plugin compares the three before its transaction.
SameProject ==
  \A a \in Assocs :
    a.project = bgpvpns[a.bgpvpn].project /\ a.project = Owner[a.resource]

\* Routers are only associated with BGPVPNs of type l3.
RouterAssocsAreL3 ==
  \A a \in routerAssocs : bgpvpns[a.bgpvpn].type = "l3"

\* A port association leaks routes only from BGPVPNs of its own project and of
\* the type of its own BGPVPN, whoever wrote the routes and whenever they were
\* checked.
RoutesStayInProject ==
  \A a \in portAssocs : \A x \in a.routes \cap BgpvpnId :
    /\ bgpvpns[x].project = a.project
    /\ bgpvpns[x].type = bgpvpns[a.bgpvpn].type

\* A row that changes and stays changes by an update of it, and only in what the
\* body of that update carries.
KeepUpdates ==
  \A b \in BgpvpnId : Live(b) /\ bgpvpns'[b] \notin {NoRow, bgpvpns[b]} =>
    \E w \in Worker :
      /\ Serves(w, "bgpvpn_update") /\ req'[w] = Idle
      /\ req[w].bgpvpn = b
      /\ bgpvpns'[b].name \in {bgpvpns[b].name, req[w].name}
      /\ bgpvpns'[b].rt \in {bgpvpns[b].rt, req[w].rt}
      /\ bgpvpns'[b].project = bgpvpns[b].project
      /\ bgpvpns'[b].type = bgpvpns[b].type

\* An update of a BGPVPN changes nothing but what its body carries: what another
\* update committed after this one read the row is not undone by it, and nothing
\* but an update changes a row that stays (bgpvpn_db.py:344-361 writes the body
\* into the row as it is then).
NoLostUpdate == [][KeepUpdates]_vars

\* The rows that differ between a table and its next value.
Changed(t, u) == (t \ u) \cup (u \ t)

\* The rows this step changes are those of the project of worker w's request.
OwnRowsOnly(w) ==
  /\ \A t \in {Changed(netAssocs, netAssocs'),
               Changed(routerAssocs, routerAssocs'),
               Changed(portAssocs, portAssocs')} :
       \A a \in t : a.project = req[w].ctx
  /\ \A b \in BgpvpnId : bgpvpns'[b] # bgpvpns[b] =>
       bgpvpns[b].project = req[w].ctx

\* The request of worker w ends in this step.
Ends(w) == req[w] # Idle /\ req'[w] = Idle

\* The step that ends the request of a tenant changes only rows of that tenant.
TouchOwnRows ==
  \A w \in Worker : Ends(w) /\ req[w].ctx # Admin => OwnRowsOnly(w)

\* What a tenant's request commits touches only associations and BGPVPNs of that
\* tenant, whatever happened to them since they were checked.
TenantIsolation == [][TouchOwnRows]_vars

\* Routes that were found to be of this project and of the type of BGPVPN b.
RoutesAgree(routes, b, project) ==
  \A x \in routes \cap BgpvpnId :
    /\ x \in uuids
    /\ Live(x) => bgpvpns[x].project = project
    /\ Live(x) /\ Live(b) => bgpvpns[x].type = bgpvpns[b].type

\* What a create request has established.
CreateEstablished(q) ==
  /\ q.bgpvpn \in uuids
  /\ CanSee(q.ctx, q.project)
  /\ q.validated # "resource" /\ Live(q.bgpvpn) => BgpvpnAccepts(q)
  /\ q.op = "port" /\ q.validated = "routes" =>
       RoutesAgree(q.routes, q.bgpvpn, q.project)

\* What an update of a port association has established.
PortUpdateEstablished(q) ==
  /\ q.bgpvpn \in uuids
  /\ CanSee(q.ctx, Owner[q.resource])
  /\ q.routes # Absent => RoutesAgree(q.routes, q.bgpvpn, Owner[q.resource])

\* What the request of worker w has established.
Established(w) ==
  /\ \A op \in {"net", "router", "port"} :
       Serves(w, op) => CreateEstablished(req[w])
  /\ Serves(w, "port_update") => PortUpdateEstablished(req[w])
  /\ Serves(w, "bgpvpn_update") =>
       /\ req[w].bgpvpn \in uuids
       /\ Live(req[w].bgpvpn) => req[w].bgpvpn \in GetBgpvpns(req[w].ctx)

\* What a request has validated is still true when it commits, of everything
\* that still exists then.  This is why the plugin needs no lock for it.
ValidationHolds == \A w \in Worker : Established(w)

\* The abstract specification the plugin implements.
Store == INSTANCE AssocStore

StoreSpec == Store!StoreSpec

\* A router and a network attached to it are never both bound to L3 BGPVPNs.
\* The plugin's three checks promise it.
NoDoubleL3Binding ==
  \A i \in interfaces :
    \/ BgpvpnsOf(routerAssocs, i[1]) = {}
    \/ \A b \in BgpvpnsOf(netAssocs, i[2]) : bgpvpns[b].type # "l3"

\* An update of a port association whose body carries no routes leaves the
\* routes as they are.
UpdateKeepsRoutes ==
  [][\A w \in Worker :
       Serves(w, "port_update") /\ req'[w] = Idle /\ req[w].routes = Absent =>
         {<<a.bgpvpn, a.resource, a.routes>> : a \in portAssocs'}
           = {<<a.bgpvpn, a.resource, a.routes>> : a \in portAssocs}]_vars

=============================================================================
