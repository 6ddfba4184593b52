------------------------------ MODULE AssocStore ------------------------------
(***************************************************************************)
(* What the BGPVPN service promises about its tables, as a store without   *)
(* concurrency: every operation decides and writes in one step.  An        *)
(* association joins a BGPVPN with a network, a router or a port of the    *)
(* same project, a router only with a BGPVPN of type l3, and a port        *)
(* association leaks routes of BGPVPNs of its own project and type.        *)
(*                                                                         *)
(* BGPVPNPlugin, whose requests decide in one transaction and write in     *)
(* another, implements this specification.                                 *)
(***************************************************************************)

CONSTANTS
  BgpvpnId,   \* the UUIDs BGPVPNs may get
  Bgpvpn,     \* the rows they may have, with their project and type
  Network,
  Router,
  Port,
  Owner,      \* the project of each network, router and port
  Prefix,     \* the prefixes of routes
  Advertise,  \* the values of the advertise_* flags
  Default,    \* the one a new router association gets
  NoRow       \* the BGPVPN does not exist

VARIABLES bgpvpns, uuids, netAssocs, routerAssocs, portAssocs, resources

storeVars ==
  <<bgpvpns, uuids, netAssocs, routerAssocs, portAssocs, resources>>

Exists(b) == bgpvpns[b] # NoRow

\* BGPVPN b and resource x exist, are of one project and not yet associated.
MayAssociate(assocs, b, x) ==
  /\ Exists(b) /\ x \in resources
  /\ Owner[x] = bgpvpns[b].project
  /\ \A a \in assocs : <<a.bgpvpn, a.resource>> # <<b, x>>

\* An association with BGPVPN b may leak these routes.
MayLeak(routes, b) ==
  \A x \in routes \cap BgpvpnId :
    /\ Exists(x)
    /\ bgpvpns[x].project = bgpvpns[b].project
    /\ bgpvpns[x].type = bgpvpns[b].type

-----------------------------------------------------------------------------

StoreInit ==
  /\ bgpvpns = [b \in BgpvpnId |-> NoRow]
  /\ uuids = {}
  /\ netAssocs = {} /\ routerAssocs = {} /\ portAssocs = {}
  /\ resources = Network \cup Router \cup Port

Create(b, row) ==
  /\ b \notin uuids
  /\ uuids' = uuids \cup {b}
  /\ bgpvpns' = [bgpvpns EXCEPT ![b] = row]
  /\ UNCHANGED <<netAssocs, routerAssocs, portAssocs, resources>>

\* The project and the type of a BGPVPN never change.
Update(b, row) ==
  /\ Exists(b)
  /\ row.project = bgpvpns[b].project /\ row.type = bgpvpns[b].type
  /\ bgpvpns' = [bgpvpns EXCEPT ![b] = row]
  /\ UNCHANGED <<uuids, netAssocs, routerAssocs, portAssocs, resources>>

\* All associations of a BGPVPN, and all routes leaked from it, go with it.
Delete(b) ==
  /\ Exists(b)
  /\ bgpvpns' = [bgpvpns EXCEPT ![b] = NoRow]
  /\ netAssocs' = {a \in netAssocs : a.bgpvpn # b}
  /\ routerAssocs' = {a \in routerAssocs : a.bgpvpn # b}
  /\ portAssocs' = {[a EXCEPT !.routes = @ \ {b}] :
                      a \in {x \in portAssocs : x.bgpvpn # b}}
  /\ UNCHANGED <<uuids, resources>>

AddNet(b, n) ==
  /\ MayAssociate(netAssocs, b, n)
  /\ netAssocs' = netAssocs \cup
       {[bgpvpn |-> b, resource |-> n, project |-> Owner[n]]}
  /\ UNCHANGED <<bgpvpns, uuids, routerAssocs, portAssocs, resources>>

RemoveNet(a) ==
  /\ netAssocs' = netAssocs \ {a}
  /\ UNCHANGED <<bgpvpns, uuids, routerAssocs, portAssocs, resources>>

AddRouter(b, r) ==
  /\ MayAssociate(routerAssocs, b, r)
  /\ bgpvpns[b].type = "l3"
  /\ routerAssocs' = routerAssocs \cup
       {[bgpvpn |-> b, resource |-> r, project |-> Owner[r],
         extra |-> Default]}
  /\ UNCHANGED <<bgpvpns, uuids, netAssocs, portAssocs, resources>>

ChangeRouter(a, extra) ==
  /\ routerAssocs' = (routerAssocs \ {a}) \cup {[a EXCEPT !.extra = extra]}
  /\ UNCHANGED <<bgpvpns, uuids, netAssocs, portAssocs, resources>>

RemoveRouter(a) ==
  /\ routerAssocs' = routerAssocs \ {a}
  /\ UNCHANGED <<bgpvpns, uuids, netAssocs, portAssocs, resources>>

AddPort(b, p, fixed, routes) ==
  /\ MayAssociate(portAssocs, b, p)
  /\ MayLeak(routes, b)
  /\ portAssocs' = portAssocs \cup
       {[bgpvpn |-> b, resource |-> p, project |-> Owner[p],
         fixed |-> fixed, routes |-> routes]}
  /\ UNCHANGED <<bgpvpns, uuids, netAssocs, routerAssocs, resources>>

ChangePort(a, fixed, routes) ==
  /\ MayLeak(routes, a.bgpvpn)
  /\ portAssocs' = (portAssocs \ {a}) \cup
       {[a EXCEPT !.fixed = fixed, !.routes = routes]}
  /\ UNCHANGED <<bgpvpns, uuids, netAssocs, routerAssocs, resources>>

RemovePort(a) ==
  /\ portAssocs' = portAssocs \ {a}
  /\ UNCHANGED <<bgpvpns, uuids, netAssocs, routerAssocs, resources>>

\* All associations of a network, router or port go with it.
Vanish(x) ==
  /\ resources' = resources \ {x}
  /\ netAssocs' = {a \in netAssocs : a.resource # x}
  /\ routerAssocs' = {a \in routerAssocs : a.resource # x}
  /\ portAssocs' = {a \in portAssocs : a.resource # x}
  /\ UNCHANGED <<bgpvpns, uuids>>

StoreNext ==
  \/ \E b \in BgpvpnId, row \in Bgpvpn : Create(b, row) \/ Update(b, row)
  \/ \E b \in BgpvpnId : Delete(b)
  \/ \E b \in BgpvpnId, n \in Network : AddNet(b, n)
  \/ \E a \in netAssocs : RemoveNet(a)
  \/ \E b \in BgpvpnId, r \in Router : AddRouter(b, r)
  \/ \E a \in routerAssocs, extra \in Advertise : ChangeRouter(a, extra)
  \/ \E a \in routerAssocs : RemoveRouter(a)
  \/ \E b \in BgpvpnId, p \in Port, fixed \in Advertise,
        routes \in SUBSET (Prefix \cup BgpvpnId) : AddPort(b, p, fixed, routes)
  \/ \E a \in portAssocs, fixed \in Advertise,
        routes \in SUBSET (Prefix \cup BgpvpnId) : ChangePort(a, fixed, routes)
  \/ \E a \in portAssocs : RemovePort(a)
  \/ \E x \in resources : Vanish(x)

StoreSpec == StoreInit /\ [][StoreNext]_storeVars

=============================================================================
