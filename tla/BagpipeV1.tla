----------------------------- MODULE BagpipeV1 -----------------------------
(***************************************************************************)
(* The bagpipe driver, version 1 (bagpipe/bagpipe.py): the RPCs on         *)
(* networks and ports that it sends besides the notices of version 2,      *)
(* which BagpipeV2 models.                                                 *)
(*                                                                         *)
(* Agents are told of a BGPVPN on a network by update_bgpvpn and           *)
(* delete_bgpvpn, when the association is made, changed or removed, and of *)
(* what a port needs by attach_port_on_bgpvpn when it becomes ACTIVE.  A   *)
(* port's view is right only if the two fit together.                      *)
(*                                                                         *)
(* Abstractions: an RPC is read, formatted and received in one step, but   *)
(* for attach, which is received later than read; agents are taken to keep *)
(* apart the BGPVPNs of a port; a rename is an update to the same route    *)
(* targets; the notices of version 2 that come first are taken to succeed. *)
(* The networks and routers are all of one project, as the BGPVPNs are.    *)
(*                                                                         *)
(* A request for an association or an interface is checked by the plugin   *)
(* in a step of its own (plugin.py:80-162) and written later: others may   *)
(* come in between, and a check looks at one interface only.  So a network *)
(* may end up bound twice, by itself and through a router (twice).         *)
(***************************************************************************)
EXTENDS Naturals, FiniteSets

CONSTANTS
  Worker, Bgpvpn, Network, Router, Port, RT,
  L3,             \* the BGPVPNs of type l3
  NetworkOf,      \* the network of each port
  NetworkOwned,   \* the ports whose device_owner starts with network:
  External,       \* the networks that are external
  Addresses,      \* how many IPv4 addresses each port has
  MaxRequests,    \* bound: how many requests and port events happen
  MaxOnNetwork,   \* bound: how many routers have an interface on a network
  None, Idle

ASSUME SubsetAssumption ==
  L3 \subseteq Bgpvpn /\ NetworkOwned \subseteq Port /\ External \subseteq Network
ASSUME PortAssumption ==
  NetworkOf \in [Port -> Network] /\ Addresses \in [Port -> Nat]
ASSUME BoundAssumption == MaxRequests \in Nat /\ MaxOnNetwork \in Nat

VARIABLES
  vpns,     \* the route targets of each BGPVPN, or None
  nets,     \* network associations of each BGPVPN
  routers,  \* router associations of each BGPVPN
  plugged,  \* router interfaces: <<router, network>>
  status,   \* of each port: "gone", "off" (admin_state_up false), "DOWN", "ACTIVE"
  asked,    \* the association or interface each worker has checked, not written
  job,      \* the RPCs each worker still has to send
  seen,     \* what the agent of each port holds for it
  served,   \* how many requests and events there were
  twice,    \* networks that were, at some time, bound themselves and by a router
  raced,    \* BGPVPNs on which requests and events overlapped
  failed    \* BGPVPNs and ports whose RPCs were cut short by an exception

assocVars == <<vpns, nets, routers, asked, twice>>
vars == <<assocVars, plugged, status, job, seen, served, raced, failed>>

\* What the agent of a port holds for it: the route targets of BGPVPNs, and
\* whether there is a gateway.
Info == [vpn: [Bgpvpn -> RT \cup {None}], gateway: BOOLEAN]

\* RPCs about a BGPVPN on a network, with route targets that were read before, or
\* None if they are read when the RPC is sent.
RpcKinds == {"update", "refresh", "delete"}
Rpc == [kind: RpcKinds, bgpvpn: Bgpvpn, network: Network, rt: RT \cup {None}]

\* What is left to do for an event of a port.
PortTask ==
  [kind: {"attach", "detach"}, port: Port] \cup [kind: {"send"}, port: Port, info: Info]

\* The BGPVPNs a request is about, and what is left to send.
Job ==
  [on: SUBSET Bgpvpn, left: SUBSET Rpc] \cup [on: {Bgpvpn}, left: {{s} : s \in PortTask}]

\* What a worker may have checked.
Checked ==
  ({"network"} \X Bgpvpn \X Network) \cup ({"router"} \X Bgpvpn \X Router)
    \cup ({"interface"} \X Router \X Network)

ASSUME NoneAssumption == None \notin RT \cup Info
ASSUME IdleAssumption == Idle \notin Job \cup Checked

-----------------------------------------------------------------------------
(***************************************************************************)
(* What the hooks read.                                                    *)
(***************************************************************************)

GatewaysOf(n) == {r \in Router : <<r, n>> \in plugged}

\* get_gateway_mac: one_or_none raises if there are two router ports.
OneGateway(n) == Cardinality(GatewaysOf(n)) <= 1

\* get_network_ports: ports that are administratively up, of any owner.
HasPorts(n) ==
  \/ \E p \in Port : NetworkOf[p] = n /\ status[p] \in {"DOWN", "ACTIVE"}
  \/ GatewaysOf(n) # {}

NetworksForRouter(r) == {n \in Network : <<r, n>> \in plugged}

\* Mutant: networks of the associated routers are forgotten.
AssociatedNetworksOnly(b) == nets[b]

NetworksForBgpvpn(b) == nets[b] \cup UNION {NetworksForRouter(r) : r \in routers[b]}

\* BGPVPNs of the network or else, if there are none, of the routers on it.
BgpvpnsForNetwork(n, interfaces) ==
  LET associated == {b \in Bgpvpn : n \in nets[b]}
  IN IF associated # {} THEN associated
     ELSE {b \in Bgpvpn : \E r \in routers[b] : <<r, n>> \in interfaces}

\* Mutant: ports of the network (DHCP, router) are treated like any other.
IgnoreExternalPort(p) == NetworkOf[p] \in External

IgnorePort(p) == p \in NetworkOwned \/ NetworkOf[p] \in External

\* ATTRIBUTES_TO_IGNORE is set('name'), the letters of the word.
IgnoredAttributes == {"n", "a", "m", "e"}

WorthSending(moved) ==
  (moved \cup IgnoredAttributes) \ (moved \cap IgnoredAttributes) # {}

-----------------------------------------------------------------------------
(***************************************************************************)
(* The RPCs a request or an event leads to.                                *)
(***************************************************************************)

RpcOf(kind, b, n, rt) == [kind |-> kind, bgpvpn |-> b, network |-> n, rt |-> rt]

Rpcs(kind, pairs, rt) == {RpcOf(kind, i[1], i[2], rt[i[1]]) : i \in pairs}

Reread == [b \in Bgpvpn |-> None]

\* What an event of port p leads to.
PortStep(kind, p) == {[kind |-> kind, port |-> p]}

Sending(bs, left) == IF left = {} THEN Idle ELSE [on |-> bs, left |-> left]

\* Worker w takes a request, or serves an event, about the BGPVPNs bs.
Serve(w, bs) ==
  /\ job[w] = Idle /\ served < MaxRequests
  /\ served' = served + 1
  /\ raced' = raced \cup
       (bs \cap UNION {job[v].on : v \in {v \in Worker : job[v] # Idle}})
  /\ UNCHANGED <<seen, failed>>

Then(w, bs, left) == job' = [job EXCEPT ![w] = Sending(bs, left)]

-----------------------------------------------------------------------------
(***************************************************************************)
(* Requests on BGPVPNs and associations: their transactions.               *)
(***************************************************************************)

CreateBgpvpn(w, b, rt) ==
  /\ vpns[b] = None /\ asked[w] = Idle
  /\ Serve(w, {b})
  /\ vpns' = [vpns EXCEPT ![b] = rt]
  /\ UNCHANGED <<nets, routers, asked, twice, plugged, status, job>>

UpdateBgpvpn(w, b, rt) ==
  /\ vpns[b] \in RT /\ asked[w] = Idle
  /\ Serve(w, {b})
  /\ vpns' = [vpns EXCEPT ![b] = rt]
  /\ IF WorthSending(IF rt = vpns[b] THEN {"name"} ELSE {"route_targets"})
     THEN Then(w, {b}, Rpcs("update", {b} \X NetworksForBgpvpn(b), vpns'))
     ELSE UNCHANGED job
  /\ UNCHANGED <<nets, routers, asked, twice, plugged, status>>

\* Mutant: the associations stay.
DeleteBgpvpnOnly(w, b) ==
  /\ vpns[b] \in RT /\ asked[w] = Idle
  /\ Serve(w, {b})
  /\ vpns' = [vpns EXCEPT ![b] = "deleted"]
  /\ Then(w, {b}, Rpcs("delete", {b} \X NetworksForBgpvpn(b), vpns))
  /\ UNCHANGED <<nets, routers, asked, twice, plugged, status>>

DeleteBgpvpn(w, b) ==
  /\ vpns[b] \in RT /\ asked[w] = Idle
  /\ Serve(w, {b})
  /\ vpns' = [vpns EXCEPT ![b] = "deleted"]
  /\ nets' = [nets EXCEPT ![b] = {}]
  /\ routers' = [routers EXCEPT ![b] = {}]
  /\ Then(w, {b}, Rpcs("delete", {b} \X NetworksForBgpvpn(b), vpns))
  /\ UNCHANGED <<asked, twice, plugged, status>>

\* Networks that are bound themselves, and by a router on them.
AssociatedNetworks(associations) == UNION {associations[b] : b \in Bgpvpn}
BoundTwice(associations, routed, interfaces) ==
  {n \in AssociatedNetworks(associations) :
     \E b \in Bgpvpn : \E r \in routed[b] : <<r, n>> \in interfaces}

\* The request passes the plugin's checks.
Ask(w, request) ==
  /\ asked[w] = Idle /\ job[w] = Idle /\ served < MaxRequests
  /\ asked' = [asked EXCEPT ![w] = request]
  /\ UNCHANGED <<vpns, nets, routers, twice, plugged, status, job, seen, served, raced, failed>>

\* It is written now, whatever happened since.
Write(w, request) ==
  /\ asked[w] = request
  /\ asked' = [asked EXCEPT ![w] = Idle]
  /\ twice' = twice \cup BoundTwice(nets', routers', plugged')

\* It is not: the database refuses it, another service does.
Refuse(w) ==
  /\ asked[w] # Idle
  /\ asked' = [asked EXCEPT ![w] = Idle]
  /\ UNCHANGED <<vpns, nets, routers, twice, plugged, status, job, seen, served, raced, failed>>

RoutedBy(r) == {b \in Bgpvpn : r \in routers[b]}
AssociatedWith(n) == {b \in Bgpvpn : n \in nets[b]}

\* The router of the first interface on the network, any one of them, may have no
\* BGPVPN.
ValidateNetwork(w, b, n) ==
  /\ vpns[b] \in RT
  /\ GatewaysOf(n) = {} \/ \E r \in GatewaysOf(n) : RoutedBy(r) = {}
  /\ Ask(w, <<"network", b, n>>)

\* The network of the first interface of the router, any one of them, may have no
\* BGPVPN: the loop over the interfaces loses the BGPVPNs in its first turn.
ValidateRouter(w, b, r) ==
  /\ vpns[b] \in RT /\ b \in L3
  /\ NetworksForRouter(r) = {} \/ \E n \in NetworksForRouter(r) : AssociatedWith(n) = {}
  /\ Ask(w, <<"router", b, r>>)

ValidateInterface(w, r, n) ==
  /\ <<r, n>> \notin plugged /\ n \notin External
  /\ RoutedBy(r) = {} \/ AssociatedWith(n) \cap L3 = {}
  /\ Ask(w, <<"interface", r, n>>)

\* The foreign key and the unique constraint are what is left of the checks.
CreateNetAssoc(w, b, n) ==
  /\ vpns[b] \in RT /\ n \notin nets[b] \cup External
  /\ Serve(w, {b})
  /\ nets' = [nets EXCEPT ![b] = @ \cup {n}]
  /\ Then(w, {b}, Rpcs("update", {<<b, n>>}, Reread))
  /\ UNCHANGED <<vpns, routers, plugged, status>>
  /\ Write(w, <<"network", b, n>>)

DeleteNetAssoc(w, b, n) ==
  /\ vpns[b] \in RT /\ n \in nets[b] /\ asked[w] = Idle
  /\ Serve(w, {b})
  /\ nets' = [nets EXCEPT ![b] = @ \ {n}]
  /\ Then(w, {b}, Rpcs("delete", {<<b, n>>}, Reread))
  /\ UNCHANGED <<vpns, routers, asked, twice, plugged, status>>

CreateRouterAssoc(w, b, r) ==
  /\ vpns[b] \in RT /\ b \in L3 /\ r \notin routers[b]
  /\ Serve(w, {b})
  /\ routers' = [routers EXCEPT ![b] = @ \cup {r}]
  /\ Then(w, {b}, Rpcs("update", {b} \X NetworksForRouter(r), Reread))
  /\ UNCHANGED <<vpns, nets, plugged, status>>
  /\ Write(w, <<"router", b, r>>)

DeleteRouterAssoc(w, b, r) ==
  /\ vpns[b] \in RT /\ r \in routers[b] /\ asked[w] = Idle
  /\ Serve(w, {b})
  /\ routers' = [routers EXCEPT ![b] = @ \ {r}]
  /\ Then(w, {b}, Rpcs("delete", {b} \X NetworksForRouter(r), Reread))
  /\ UNCHANGED <<vpns, nets, asked, twice, plugged, status>>

-----------------------------------------------------------------------------
(***************************************************************************)
(* Router interfaces and ports: events of Neutron.                         *)
(***************************************************************************)

\* The BGPVPNs of the network, and then those of the router once more.
InterfaceRpcs(kind, r, n, interfaces) ==
  LET bound == \E b \in Bgpvpn : n \in nets[b] \/ r \in routers[b]
  IN Rpcs("refresh", (IF bound THEN BgpvpnsForNetwork(n, interfaces) ELSE {}) \X {n}, vpns)
       \cup Rpcs(kind, {b \in Bgpvpn : r \in routers[b]} \X {n}, Reread)

AddInterface(w, r, n) ==
  /\ <<r, n>> \notin plugged /\ n \notin External
  /\ Cardinality(GatewaysOf(n)) < MaxOnNetwork
  /\ Serve(w, Bgpvpn)
  /\ plugged' = plugged \cup {<<r, n>>}
  /\ Then(w, Bgpvpn, InterfaceRpcs("update", r, n, plugged'))
  /\ UNCHANGED <<vpns, nets, routers, status>>
  /\ Write(w, <<"interface", r, n>>)

\* After the deletion: the interface is not found any more.
RemoveInterface(w, r, n) ==
  /\ <<r, n>> \in plugged /\ asked[w] = Idle
  /\ Serve(w, Bgpvpn)
  /\ plugged' = plugged \ {<<r, n>>}
  /\ Then(w, Bgpvpn, InterfaceRpcs("delete", r, n, plugged'))
  /\ UNCHANGED <<assocVars, status>>

\* admin_state_up changes while the port is DOWN: an update without RPC.
ToggleAdmin(p) ==
  /\ status[p] \in {"off", "DOWN"}
  /\ served < MaxRequests /\ served' = served + 1
  /\ status' = [status EXCEPT ![p] = IF @ = "off" THEN "DOWN" ELSE "off"]
  /\ UNCHANGED <<assocVars, plugged, job, seen, raced, failed>>

PortEvent(w, p, kind) ==
  /\ asked[w] = Idle
  /\ Serve(w, Bgpvpn)
  /\ Then(w, Bgpvpn, IF IgnorePort(p) THEN {} ELSE PortStep(kind, p))
  /\ UNCHANGED <<assocVars, plugged>>

PortUp(w, p) ==
  /\ status[p] = "DOWN"
  /\ status' = [status EXCEPT ![p] = "ACTIVE"]
  /\ PortEvent(w, p, "attach")

PortDown(w, p) ==
  /\ status[p] = "ACTIVE"
  /\ status' = [status EXCEPT ![p] = "DOWN"]
  /\ PortEvent(w, p, "detach")

DeletePort(w, p) ==
  /\ status[p] # "gone"
  /\ status' = [status EXCEPT ![p] = "gone"]
  /\ PortEvent(w, p, "detach")

-----------------------------------------------------------------------------
(***************************************************************************)
(* Sending.                                                                *)
(***************************************************************************)

\* What may be sent next: a refresh before the rest.
MayDo(w, s, kinds) ==
  /\ job[w] # Idle /\ s \in job[w].left /\ s.kind \in kinds
  /\ s.kind # "refresh" => \A t \in job[w].left : t.kind # "refresh"

\* s is done, or leads to more.
Onwards(w, s, more) ==
  job' = [job EXCEPT ![w] = Sending(@.on, (@.left \ {s}) \cup more)]

\* An exception ends the request: nothing that is left is sent.
Raise(w, about) ==
  /\ failed' = failed \cup about
  /\ job' = [job EXCEPT ![w] = Idle]
  /\ UNCHANGED <<assocVars, plugged, status, seen, served, raced>>

RtOf(s) == IF s.rt = None THEN vpns[s.bgpvpn] ELSE s.rt

\* The agents of the ports of n take up one RPC about b.
Told(kind, b, n, rt) ==
  [p \in Port |->
     IF seen[p] = None \/ NetworkOf[p] # n THEN seen[p]
     ELSE IF kind # "delete"
     THEN [vpn |-> [seen[p].vpn EXCEPT ![b] = rt], gateway |-> GatewaysOf(n) # {}]
     ELSE [seen[p] EXCEPT !.vpn[b] = None]]

\* Networks without ports are skipped, but for a refresh.
Skips(s) == s.kind # "refresh" /\ ~ HasPorts(s.network)

\* The BGPVPN may be gone when it is read again, and a second gateway raises.
Raises(s) == ~ Skips(s) /\ ~ (RtOf(s) \in RT /\ OneGateway(s.network))

SendRpc(w, s) ==
  /\ MayDo(w, s, RpcKinds)
  /\ ~ Raises(s)
  /\ seen' = IF Skips(s) THEN seen ELSE Told(s.kind, s.bgpvpn, s.network, RtOf(s))
  /\ Onwards(w, s, {})
  /\ UNCHANGED <<assocVars, plugged, status, served, raced, failed>>

RaiseOnRpc(w, s) ==
  /\ MayDo(w, s, RpcKinds)
  /\ Raises(s)
  /\ Raise(w, job[w].on)

\* Everything a port needs: the BGPVPNs of its network and the gateway.
PortInfo(p) ==
  LET n == NetworkOf[p]
  IN [vpn |-> [b \in Bgpvpn |-> IF b \in BgpvpnsForNetwork(n, plugged) THEN vpns[b] ELSE None],
      gateway |-> GatewaysOf(n) # {}]

\* A port without an IPv4 address gets no attach.
ReadForAttach(w, s) ==
  /\ MayDo(w, s, {"attach"})
  /\ Addresses[s.port] = 0 \/ (Addresses[s.port] = 1 /\ OneGateway(NetworkOf[s.port]))
  /\ Onwards(w, s, IF Addresses[s.port] = 0 THEN {}
                   ELSE {[kind |-> "send", port |-> s.port, info |-> PortInfo(s.port)]})
  /\ UNCHANGED <<assocVars, plugged, status, seen, served, raced, failed>>

\* Two addresses, or two gateways: one() and one_or_none() raise.
RaiseOnAttach(w, s) ==
  /\ MayDo(w, s, {"attach"})
  /\ Addresses[s.port] > 1 \/ (Addresses[s.port] = 1 /\ ~ OneGateway(NetworkOf[s.port]))
  /\ Raise(w, {s.port})

Attach(w, s) ==
  /\ MayDo(w, s, {"send"})
  /\ seen' = [seen EXCEPT ![s.port] = s.info]
  /\ Onwards(w, s, {})
  /\ UNCHANGED <<assocVars, plugged, status, served, raced, failed>>

Detach(w, s) ==
  /\ MayDo(w, s, {"detach"})
  /\ seen' = [seen EXCEPT ![s.port] = None]
  /\ Onwards(w, s, {})
  /\ UNCHANGED <<assocVars, plugged, status, served, raced, failed>>

-----------------------------------------------------------------------------
\* Ports that agents are never to be told of.
Excluded(p) == p \in NetworkOwned \/ NetworkOf[p] \in External

\* What an agent was told of a port before there were any associations.
NoVpn == [vpn |-> [b \in Bgpvpn |-> None], gateway |-> FALSE]

\* A server starts: there are BGPVPNs, but no associations yet, and all ports are
\* DOWN or ACTIVE.
Init ==
  /\ vpns \in [Bgpvpn -> RT \cup {None}]
  /\ nets = [b \in Bgpvpn |-> {}] /\ routers = [b \in Bgpvpn |-> {}]
  /\ plugged = {} /\ twice = {}
  /\ \E s \in {"DOWN", "ACTIVE"} : status = [p \in Port |-> s]
  /\ asked = [w \in Worker |-> Idle] /\ job = [w \in Worker |-> Idle]
  /\ seen = [p \in Port |->
               IF status[p] = "ACTIVE" /\ ~ Excluded(p) /\ Addresses[p] = 1
               THEN NoVpn ELSE None]
  /\ served = 0
  /\ raced = {} /\ failed = {}

Begin(w) ==
  \/ \E b \in Bgpvpn :
       \/ \E rt \in RT : CreateBgpvpn(w, b, rt) \/ UpdateBgpvpn(w, b, rt)
       \/ DeleteBgpvpn(w, b)
       \/ \E n \in Network : CreateNetAssoc(w, b, n) \/ DeleteNetAssoc(w, b, n)
       \/ \E r \in Router : CreateRouterAssoc(w, b, r) \/ DeleteRouterAssoc(w, b, r)
  \/ \E r \in Router, n \in Network : AddInterface(w, r, n) \/ RemoveInterface(w, r, n)
  \/ \E p \in Port : PortUp(w, p) \/ PortDown(w, p) \/ DeletePort(w, p)

Validate(w) ==
  \/ \E b \in Bgpvpn :
       \/ \E n \in Network : ValidateNetwork(w, b, n)
       \/ \E r \in Router : ValidateRouter(w, b, r)
  \/ \E r \in Router, n \in Network : ValidateInterface(w, r, n)

Proceed(w) ==
  /\ job[w] # Idle
  /\ \E s \in job[w].left :
       \/ SendRpc(w, s) \/ RaiseOnRpc(w, s)
       \/ ReadForAttach(w, s) \/ RaiseOnAttach(w, s) \/ Attach(w, s) \/ Detach(w, s)

Next ==
  \/ \E w \in Worker : Validate(w) \/ Refuse(w) \/ Begin(w) \/ Proceed(w)
  \/ \E p \in Port : ToggleAdmin(p)

Spec == Init /\ [][Next]_vars

-----------------------------------------------------------------------------
(***************************************************************************)
(* Properties.                                                             *)
(***************************************************************************)

\* Every variable holds what it may, and associations belong to BGPVPNs that
\* exist.
TypeOK ==
  /\ vpns \in [Bgpvpn -> RT \cup {None, "deleted"}]
  /\ nets \in [Bgpvpn -> SUBSET (Network \ External)]
  /\ routers \in [Bgpvpn -> SUBSET Router]
  /\ \A b \in Bgpvpn : vpns[b] \notin RT => nets[b] = {} /\ routers[b] = {}
  /\ \A b \in Bgpvpn \ L3 : routers[b] = {}
  /\ status \in [Port -> {"off", "DOWN", "ACTIVE", "gone"}]
  /\ plugged \subseteq Router \X Network /\ twice \subseteq Network
  /\ asked \in [Worker -> Checked \cup {Idle}]
  /\ job \in [Worker -> Job \cup {Idle}]
  /\ seen \in [Port -> Info \cup {None}]
  /\ failed \subseteq Bgpvpn \cup Port /\ raced \subseteq Bgpvpn

Bound(b, n) == n \in nets[b] \/ \E r \in routers[b] : <<r, n>> \in plugged

Busy == UNION {job[w].on : w \in {v \in Worker : job[v] # Idle}}

Served(p) ==
  /\ status[p] = "ACTIVE"
  /\ ~ Excluded(p) /\ Addresses[p] = 1 /\ p \notin failed

\* It is what port p needs of b: nothing if that is not bound to its network.
\* Where a network was bound twice, what it needs may be missing.
Fits(info, p, b) ==
  LET n == NetworkOf[p]
  IN \/ /\ info.vpn[b] = IF Bound(b, n) THEN vpns[b] ELSE None
        /\ Bound(b, n) => (info.gateway <=> GatewaysOf(n) # {})
     \/ n \in twice /\ info.vpn[b] = None

\* The agent of p holds it.
HasVpn(p, b) == seen[p] # None /\ Fits(seen[p], p, b)

\* Once nobody works on b any more, the agent of an ACTIVE port holds nothing of b
\* unless its network or a router on it is associated with b; and if one is, it
\* holds b with its present route targets and its gateway, whether the port came
\* up before or after the associations and interfaces.  Only on a network that was
\* bound twice, which the plugin's checks let happen, may b be missing: the hooks
\* of a router delete what the network's own association still needs, and a port
\* that comes up is told of the latter only (bagpipe.py:265-274, 458-501).
\* Excepted are BGPVPNs on which requests overlapped, or whose hooks an exception
\* cut short.
PortsHaveTheirVpns ==
  \A p \in Port, b \in Bgpvpn :
    Served(p) /\ b \notin Busy \cup raced \cup failed => HasVpn(p, b)

\* Agents hold nothing of a port that is down or gone, once its event is served,
\* and never anything of the ports the documentation excludes ("No connectivity
\* will be setup with BGP VPNs for DHCP ports or Router interface ports, or other
\* network specific ports"; bagpipe.py:381-447).
OtherPortsHaveNothing ==
  \A p \in Port :
    \/ Excluded(p)
    \/ status[p] # "ACTIVE" /\ Busy \cup raced = {}
    => seen[p] = None
=============================================================================
