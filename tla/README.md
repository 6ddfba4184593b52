# Verification of networking-bgpvpn

TLA+ specifications of the BGPVPN service of OpenStack Neutron
(`networking-bgpvpn`), TLC configurations that check them on small instances,
and TLAPS proofs that hold for every instance.

A BGPVPN stands for a VPN of the operator's backbone. An administrator creates
it with its route targets; tenants associate it with their networks, routers and
ports; a driver tells the agents on the compute nodes. The service runs inside
neutron-server, in many API workers on one database.

## The system

| component | state | operations | interacts with |
|---|---|---|---|
| service plugin, `services/plugin.py` | none of its own | create, update, delete of BGPVPNs and of network, router and port associations; the BEFORE_CREATE callback of router interfaces | Neutron core and L3 plugins (reads networks, routers, ports), the driver |
| driver base classes, `service_drivers/driver_api.py` | none of its own | one transaction per operation, with hooks before and after its commit | the database layer; drivers override the hooks |
| database layer, `db/bgpvpn_db.py` | tables of BGPVPNs, three kinds of associations, routes | inserts, updates, deletes; foreign keys, unique constraints, cascades | Neutron's tables of networks, routers, ports |
| bagpipe driver v2, `bagpipe/bagpipe_v2.py` | none; pushes objects to agents | the hooks; callbacks of router interfaces | agents, by push RPC |
| bagpipe driver v1, `bagpipe/bagpipe.py` | none; RPCs of its own besides the pushes | the hooks; callbacks of ports and router interfaces | agents, by RPC |
| helpers, `services/common/utils.py` | none | route target lists to and from strings, differences of BGPVPNs, filters | plugin, database layer, drivers |
| API extensions and policies | none | who may do, set and see what | Neutron's API layer |
| Heat resources, `bgpvpnservice.py` | the id of one Neutron object each | create, delete, wait for the deletion | the REST API |
| dashboard | forms that are open in browsers | forms and workflows of API calls | the REST API |
| migrations | the schema, the revisions applied | the revisions of the expand and contract branches | the database, and servers that use it meanwhile |

What is hard in it, component by component, and what makes each correct:

- *Plugin and database.* A request validates in several transactions and writes
  in another, without locks; nothing is validated again. Correct: whatever else
  happens in between, associations stay within a project, routers are bound to
  L3 BGPVPNs only, routes are leaked within a project and a type, nothing
  dangles, no pair is associated twice, a router and a network attached to it are
  not both bound to L3 BGPVPNs, concurrent updates do not undo each other.
- *Drivers.* Hooks run before and after a commit and read the database again;
  pushes of concurrent requests, of rollbacks and of cascades must leave the
  agents with what the database says. Ports come up before or after the
  associations and router interfaces they depend on, and must get the same.
- *Heat.* What a resource created must be gone with it, though the engine may
  stop and other clients use the API; the deletion of a stack must end.
- *Dashboard.* A form is a copy of what there was when it was opened.
- *Migrations.* The two branches advance in any order that their dependencies
  leave, statements commit one by one, servers of older releases insert rows
  meanwhile, and an interrupted revision starts over.
- *Policies and helpers.* Who may read and set an attribute is a rule per
  attribute; lists pass through a text and must come back as they were.

`PROJECT.json` lists the gravest hazards with their lines and the properties that
watch them; the sections below name the others where they bite.

## Modules

| module | what it is |
|---|---|
| `BGPVPNPlugin` | plugin, driver base classes and database as API workers run them; Neutron's networks, routers, ports and router interfaces as their environment |
| `AssocStore` | the abstract specification: the same tables changed by operations that decide and write in one step |
| `BGPVPNPluginProofs` | theorems about `BGPVPNPlugin`, among them that it implements `AssocStore` |
| `BagpipeV2` | the driver of version 2: hooks, transactions, pushes on their way, agents |
| `EventualView` | the abstract specification of `BagpipeV2`: a view that follows a truth |
| `BagpipeV2Proofs` | theorems about `BagpipeV2`: types and what agents may hold |
| `BagpipeV2AgreeProofs` | theorems about `BagpipeV2`: agents and database agree; it implements `EventualView` |
| `BagpipeV1` | what the driver of version 1 sends besides: RPCs on networks and ports |
| `BagpipeV1Proofs` | theorems about `BagpipeV1`: types, and what the agents of ports hold |
| `BgpvpnApi` | policies, attributes on their way in and out of the tables, listings |
| `BgpvpnApiProofs` | theorems about `BgpvpnApi`: what tenants choose, see and find, and what is stored |
| `Migrations` | every revision, statement by statement |
| `MigrationsProofs` | theorems about `Migrations`: the schema, the servers beside it, the attributes of the rows, what can fail |
| `HeatResources` | the four Heat resources, with Heat and Neutron as their environment |
| `HeatResourcesProofs` | theorems about `HeatResources` |
| `Dashboard` | the forms and workflows of the two panels |
| `DashboardProofs` | theorems about `Dashboard`: route targets survive the forms |
| `MC...` | one for each of them: the values of an instance, symmetry, the cases of a run |

`AssocStore` and `EventualView` are instantiated by the modules that implement
them. `BGPVPNPlugin` has the interleavings of requests with empty hooks;
`BagpipeV2` has the hooks, and abstracts the plugin's validation to what they
tell apart; `BagpipeV1` stands beside `BagpipeV2`, whose notices precede its own;
`HeatResources` and `Dashboard` see the service through its API only.

## The plugin and the database: `BGPVPNPlugin`, `AssocStore`

### State

| variable | code |
|---|---|
| `bgpvpns`, `uuids` | table `bgpvpns`: the row of each UUID; the UUIDs `generate_uuid()` has returned |
| `netAssocs`, `routerAssocs`, `portAssocs` | the association tables; the rows of `bgpvpn_port_association_routes` are the field `routes` of their association |
| `resources`, `interfaces` | Neutron's networks, routers, ports, and its router interfaces |
| `req` | the request that each API worker is serving: the body, the context, and how far validation went |

### Actions

A request is a `Begin` action, validation steps, and a `Commit` action that is
the one transaction that writes; `Refuse` ends it at any point.

| action | code |
|---|---|
| `BeginNetAssoc`, `ValidateBgpvpn`, `CommitNetAssoc` | `create_bgpvpn_network_association`: the network and its routers, the BGPVPN and the projects, `create_net_assoc` |
| `BeginRouterAssoc`, `ValidateBgpvpn`, `CommitRouterAssoc` | `create_bgpvpn_router_association` |
| `BeginPortAssoc`, `ValidateBgpvpn`, `ValidateRoutes`, `CommitPortAssoc` | `create_bgpvpn_port_association` |
| `BeginPortUpdate`, `CommitPortUpdate` | `update_bgpvpn_port_association` |
| `BeginBgpvpnUpdate`, `CommitBgpvpnUpdate` | `update_bgpvpn`, which reads the old row outside its transaction |
| `BeginInterface`, `CommitInterface` | the BEFORE_CREATE callback; Neutron then creates the interface |
| `CreateBgpvpn`, `DeleteBgpvpn`, `DeleteNetAssoc`, `UpdateRouterAssoc`, `DeleteRouterAssoc`, `DeletePortAssoc` | operations whose only reads that matter are in their transaction |
| `DeleteResource`, `RemoveInterface` | Neutron deletes; the cascades of the association tables follow |
| `Refuse` | a check failed, a precommit hook raised, or the database aborted |

The names of helpers follow what they decide: `NetworkHasNoRouterAssoc` is
`_validate_network_has_router_assoc`, `RouterHasNoNetAssocs` is
`_validate_router_has_net_assocs`, `RoutesAllowed` is
`_validate_port_association_routes_bgpvpn`, `InterfaceAllowed` the callback.
They keep what the code does: the first router port only, the loop that forgets
its list, the BGPVPNs of the resource's project only.

### What is abstracted

- A transaction is atomic. The reads within one validation step are one step:
  `Begin...` merges `get_network`, `get_ports` and `get_bgpvpns`;
  `ValidateRoutes` the loop over the routes.
- Names, route targets and flags are opaque values. Route targets stand for all
  attributes that only an administrator updates, names for the others. The
  local preference of a route, VNIs and route distinguishers are left out.
- An association is identified by its pair instead of a UUID of its own: an
  update of a port association may therefore apply to one that was deleted and
  created again for the same pair, which the code would refuse. The properties
  hold all the same.
- Tenants see their own resources and BGPVPNs; shared networks reach the plugin
  only in an administrator's context.
- There is at most one interface of a router on a network.
- `update_bgpvpn_network_association` does nothing in the code and has no action.
- The hooks of the driver do nothing, as in `BGPVPNDriver` and `BGPVPNDriverRC`;
  one that raises before the commit is `Refuse`.

### Properties and runs

`tlc -config MCBGPVPNPlugin_<run>.cfg MCBGPVPNPlugin`

| run | instance | checks |
|---|---|---|
| `assoc` | 2 workers, 2 projects, 2 BGPVPNs, 2 networks, 1 router, 1 interface | `TypeOK`, `ReferentialIntegrity`, `OneAssocPerPair`, `SameProject`, `RouterAssocsAreL3`, `ValidationHolds`, `TenantIsolation`, `StoreSpec` |
| `by_kind` | 2 workers, 2 projects, 2 BGPVPNs, 2 networks, 1 router, 1 port, 2 names, 2 route target lists | `NoDoubleL3Binding`, `ReferentialIntegrity`, `OneAssocPerPair`, `RoutesStayInProject`, `ValidationHolds`, `NoLostUpdate`, `TenantIsolation`, `StoreSpec` |
| `two_interfaces` | 1 worker, 2 networks, 1 router, 2 interfaces | `NoDoubleL3Binding` is violated |
| `race` | 2 workers, 1 network, 1 router, 1 interface | `NoDoubleL3Binding` is violated |
| `keep_routes` | 1 worker, 1 port, 1 prefix | `UpdateKeepsRoutes` is violated |

The bounds are the smallest in which the cases happen: two requests for one pair,
a request and the deletion of what it validated, two projects to confuse, two
BGPVPNs of different type so that one leaks to the other and one can replace a
deleted one. Since UUIDs are never used again, two BGPVPNs are also two
generations of one.

`assoc` is the full interleaving for networks and routers; it leaves out updates
of BGPVPNs (constraint `NoBgpvpnUpdate`), which change a name or route targets
that none of its properties reads. The other kinds of request share no table
with each other but that of the BGPVPNs, and taking them together multiplies
their states without adding a case. `by_kind` keeps each history to one of three
cases (constraint `OneKind`):

- `Networks`: network and router associations, interfaces and deletions, one
  request at a time and one project. This is where `NoDoubleL3Binding` holds.
- `Ports`: associations of a port, with routes leaked from another BGPVPN that
  may be deleted and created again for another project or type; or two requests
  at a time with one BGPVPN.
- `Updates`: two updates of a BGPVPN at a time, and its deletion.

Workers and UUIDs are symmetric; none of these properties is a liveness
property. The supply of UUIDs is finite, so the instances may come to rest and
deadlock is not checked. `MaxInterfaces` bounds the interfaces.

What the violated runs show:

- `two_interfaces`: the router has interfaces on two networks, the second one
  associated with an L3 BGPVPN. `_validate_router_has_net_assocs` overwrites
  `bgpvpns` by the matches of the first port, none, and has nothing left to
  compare the second with. The router is associated too.
- `race`: the router's association and the network's are validated, each while
  the other is not written yet; then both are.
- `keep_routes`: an update that only sets `advertise_fixed_ips` leaves the
  association without routes.

No fairness is assumed and no liveness is claimed for this component: a request
may stop at any step, as a worker that is killed does.

Each property of a passing run has a mutant: a faulty variant of one definition,
marked as such in the module, under which TLC finds the property violated.

### Proofs

`tlapm BGPVPNPluginProofs.tla`

`TypeCorrect` is inductive by itself, one lemma per group of actions.

A row exists only under a UUID that was given out (`LiveKnown`), so that creation
never meets an old UUID, and the project and the type of a row are written by
creation only (`IdentityStep`). These are lemmas: they hold by the guard of
`CreateBgpvpn`, that is because `generate_uuid` never repeats.

`InvariantCorrect`: `IInv` is `TypeOK`, `LiveKnown`, `AssocsCorrect` (the four
properties of the tables and uniqueness) and `ValidationHolds`. The tables alone
are not inductive: a commit writes what an earlier step checked, and one has to
know that it is still so. `ValidationHolds` says it, for whatever still exists,
and it is stable because the identity of BGPVPNs is for ever (`KeepIdentity`;
`CreateStable`, `PortUpdateStable`, `BystanderStable`). Existence is the part
that can be lost, and foreign keys check it again in the commit (`CanInsert`,
`CanRoute`). An update of a port association in turn relies on the row it starts
from (`PortUpdateValidated`), so that both halves need each other.

From it follow `ReferentialIntegrityCorrect`, `OneAssocPerPairCorrect`,
`SameProjectCorrect`, `RouterAssocsAreL3Correct`, `RoutesStayInProjectCorrect`
and `ValidationHoldsCorrect`.

The assumptions are the named ones of `BGPVPNPlugin`: the administrator is not a
project, every resource has an owner, and the values that stand for nothing
(`NoRow`, `Idle`, `Absent`) differ from those that stand for something.

`NoLostUpdateCorrect` and `TenantIsolationCorrect` are about the step that ends
a request. `EndsByCommit` shows that only its own commit, or its refusal, ends a
request; what `ValidationHolds` says of it then gives the project of every row it
writes.

`StoreCorrect` is the refinement of `AssocStore`, whose variables are those of
the plugin without `interfaces` and `req`. Every commit is the operation of the
store of the same name (`StoreUpdate`, `StoreAddNet`, `StoreAddRouter`,
`StoreAddPort`, `StoreChangePort`): the guards of the store, which compare with
the tables as they are, follow from `IInv`, that is from what the request
compared with the tables as they were. The other steps of a request are stutters
(`StoreStep`).

Every property of the passing runs of this module is proved but
`NoDoubleL3Binding`, which holds of the case `Networks` and not in general, as
`two_interfaces` and `race` show.

## The driver of version 2: `BagpipeV2`, `EventualView`

| variable | code |
|---|---|
| `vpns`, `assocs`, `unused` | the tables, with an association's UUID of its own |
| `plugged`, `gone` | Neutron's router interfaces; the networks, routers and ports that were deleted |
| `job` | what is left of the request each worker serves: the hook that is next, and what it has read |
| `wire`, `known` | the notices of each worker on their way; what the agents hold of each association |
| `served`, `committed`, `raced` | history: how many requests; the route targets a BGPVPN ever had; the BGPVPNs on which requests overlapped or a fault struck |

A request is taken by `CreateBgpvpn`, `CreateAssoc`, `UpdatePortAssoc`,
`UpdateRouterAssoc` (precommit hook and transaction in one step), or by a
`Begin...` action where something happens before the commit: `BeginUpdate` reads
the old row outside the transaction, `BeginDeleteBgpvpn` and `BeginDeleteAssoc`
push DELETED inside it, `BeginRemoveInterface` withdraws gateways before Neutron
removes the interface. `Commit...` is the transaction. `Build` is the postcommit
hook, which reads the database again (and finds nothing to tell if the association
is gone), `Push` sends what it has built, `Deliver` is the message bus and the agent. The
notices of one worker stay in order; those of two are not ordered. The faults are
`Rollback` (of a transaction whose precommit hook has run, or the veto of another
callback after the gateways were withdrawn), `Crash` (of a worker, at any step) and
`Swallow`: the callback of an interface drops the exception of a push
(bagpipe_v2.py:259-262), and the interface goes all the same. `DeleteResource` is a
deletion by Neutron, of which the driver is not told.

Abstracted: the objects of one push are read in one step; a network has one
subnet, whose gateway is there or not; values are opaque. The guards of
`CreateAssoc` are what the database checks when it commits, the foreign keys and the
unique constraint, and the type of the BGPVPN, which never changes; the plugin's
checks before that, which are modelled in `BGPVPNPlugin` and for their effects on
agents in `BagpipeV1`, may refuse more.

| run | instance | checks |
|---|---|---|
| `arrival` | 1 worker, no fault, 1 BGPVPN, 2 associations, 1 network, 2 routers with an interface each, 5 requests; `FairSpec` | `KeepsPromise`, `ChangesArrive` |
| `overlap` | 2 workers, every fault, 2 BGPVPNs, 2 associations, 2 networks (1 external), 1 router, 1 port, 4 requests | `TypeOK`, `AgentsAgree`, `NothingInvented`, `NoExternalNetwork`, `NoRouteDistinguishers`, `KeepsPromise` |

`KeepsPromise` is `View!Spec`, the refinement of `EventualView`: the database is
the truth, what the agents hold the view. An association is `open` while a request
or a notice is about it, and when it is `Lost`; truth and view of an association
move only while it is open, and the view fits the truth when it is not. Truth and
view are whole objects (`Shown`): the BGPVPN, the resource, the route targets, the
flag, the networks and their gateways. Of port associations only the flag is
compared, since agents are not told what becomes of their BGPVPN. What fits is
`AsStored`, which names two ways in which agents keep something else than the
database, both of them the code's:

- After the removal of a router's interface, agents keep the network in the list of
  the router's association, but not its gateway. The objects are built while the
  interface is there, and only the gateway is emptied by hand
  (bagpipe_v2.py:218-224). So agents may hold more networks of a router than the
  database, while its gateways are exactly those of the database.
- The removal of one of two router interfaces of a network hides the gateway from
  the network's own association although the other router is still there. So agents
  may hold fewer gateways of a network than the database, while its networks are
  exactly those.

`Lost` are the associations of BGPVPNs on which requests overlapped or which a fault
struck (`raced`), those whose resource Neutron deleted, and port associations whose
BGPVPN was deleted: nothing in the code tells agents afterwards. The hazards that
arise there (notices that pass each other, a rollback after DELETED, an association
that is gone when the hook reads it again, a veto, a crash) are in the model, and are
why the exception is needed; they are listed without a property. Of those BGPVPNs
only `NothingInvented`, `NoExternalNetwork` and `NoRouteDistinguishers` are claimed.
`AgentsAgree` says the same of each BGPVPN at rest as a plain invariant.

`ChangesArrive` is what a refinement cannot say, that agents are told at all: new
route targets, a network on which a router gets an interface, and the end of an
association each reach the agents unless they change again first. A driver that
pushes nothing violates it. `FairSpec` assumes weak fairness of each worker's steps and of
the delivery of its notices: a worker runs the request it took to its end, the bus
delivers. Nobody has to make a request, and faults, where an instance has them, are
covered by `Lost`.

Five requests are enough for an association that is made, changed, removed and
made again under another UUID, for two routers on one network of which one goes
again, and four for two requests on each of two BGPVPNs; two associations for one
that is told of along with another.

What a request is `on` decides when two overlap. The callbacks of an interface are
on every BGPVPN until the interface is gone, also while the notice of the removal
is being pushed (`Pushing`): an association that is created meanwhile is built
with a gateway that the removal then takes away, and nothing tells the agents.

Two further instances, which are not among the listed runs, show where the driver
does not do what is said of it; run by hand, TLC finds each property violated:

- `MCBagpipeV2_external_port`, `NoPortOnExternalNetwork`: only network
  associations are refused on external networks (bagpipe_v2.py:132-134), and the
  port association of such a network is pushed (line 152). The documentation says
  "the driver will not bind a port on an external network"
  (doc/source/user/drivers/bagpipe/index.rst:43).
- `MCBagpipeV2_port_targets`, `PortsFollowRouteTargets`: an update of route
  targets is pushed with network and router associations only
  (bagpipe_v2.py:120-130), and associated ports keep the old ones.

### Proofs

`tlapm BagpipeV2Proofs.tla`, `tlapm BagpipeV2AgreeProofs.tla`

`InvariantCorrect` holds for any number of workers, every fault and any number of
requests. None of the properties is inductive: what agents hold comes from a
notice, a notice from a hook, and a hook from rows that may have changed since.
`IInv` therefore says what each of them may carry. An object is good
(`GoodObjects`) if its route targets are in `committed` and it is not about an
external network; `GoodNotices` and `GoodJob` ask the same of what is on its way
and of what a hook has built. Since `committed` only grows, what is good stays
good while the tables change, which is why an object that is read before a
rollback or delivered late does no harm to these properties.
`NoRouteDistinguishers` is inductive with the rest: a body that passes the
precommit check sets no route distinguishers, whichever row it was checked
against. From it follow `TypeCorrect`, `NothingInventedCorrect`,
`NoExternalNetworkCorrect` and `NoRouteDistinguishersCorrect`.

`AgentsAgreeCorrect` says that agents and database agree, for any number of
workers, BGPVPNs, associations and requests and with every fault, on each BGPVPN
that is not in `raced` and on which nothing is under way. It looks only at
moments of rest (and, with the code, not at resources that Neutron deleted, of
which agents are told nothing), so the invariant has to say what the work under way will come to.
`Agreement` has five parts:

- `Identity`: a UUID names one association for ever. A row, what agents hold and
  every notice that mentions the UUID have the same BGPVPN and resource; what is in
  `unused` is mentioned nowhere.
- `JobsOn`: a worker's request is `on` the BGPVPNs it works on: those of the
  association or BGPVPN it names and of every object that it is about to push.
- `OneWorker`: outside `raced`, one worker at most has a request or a notice on
  its way that is on a BGPVPN. `Serve` puts the BGPVPN into `raced` otherwise.
- `OldIsCurrent`: outside `raced`, the old row with which an update is compared
  (bagpipe_v2.py:111-118) is still the row. It was read outside the transaction.
- `Settling`: outside `raced`, for each association of a resource that exists, what
  the agents will hold of it once everything has arrived (`Futures`: the last notice
  about it that each worker has pushed or is about to push, `Coming`) is right
  (`Settled`), or the one worker on its BGPVPN has still to put that right
  (`Awaits`): a hook that has not built its objects, a transaction that has not
  committed.

Each action has a lemma for `Settling`: on the association's BGPVPN it adds to the
end of what is coming, or takes the first of it; on others it changes neither the
association nor the worker that is on it. The part that is hardest to see is the
interface: its removal changes the objects of associations whose BGPVPNs nobody
has named, and the notice that was built beforehand has to be right afterwards.
That is why `NoticeWithoutGateway` empties the gateway by hand, and the proof of
`CommitRemoveInterface` is where it is needed.

The assumptions are the named ones of `BagpipeV2`: each port is on a network;
networks, routers and ports differ, and so do no request and a request, no row
and a row; the bounds are numbers.

`KeepsPromiseCorrect` says that the driver implements `EventualView`, for any
number of workers, BGPVPNs, associations, networks, routers, interfaces and
requests, with overlaps and every fault, from the named assumptions alone.
`AgentsAgreeCorrect` is not enough for it: it speaks of a BGPVPN on which nothing is
under way, where the promise speaks of an association that nothing is about, while
others of its BGPVPN are being changed or an interface is under way. It needs,
of an association that is not open: that nothing about it is coming and nobody will
tell agents of it (`ClosedIsQuiet`), so that what agents hold is what they will hold,
and fits (`ClosedFits`, from `Settling`); that no step changes what they hold
(`SightKept`: a delivery does, of what is in the notice); and that no step changes
what the database holds, if the association is not open after it either
(`TruthKept`). The last follows from the first two: what agents hold stays, and fits
both before and after, so the database can have changed only in what a fit leaves
undetermined. That is the gateway of a network, which changes only while the
network's associations are open (`GatewayKept`).
`ChangesArrive` is liveness and stays with TLC, as does the strength of `AsStored`:
without either of its two exceptions TLC finds `KeepsPromise` violated in the
instance of `arrival`.

## The driver of version 1: `BagpipeV1`

`vpns`, `nets`, `routers`, `plugged` are the tables and interfaces, `status` the
ports of Neutron, `seen` what the agent of each port holds for it, `job` the RPCs
that each worker still has to send. A request (`UpdateBgpvpn`, `DeleteBgpvpn`,
`CreateNetAssoc`, ..., `AddInterface`, `RemoveInterface`) or a port event
(`PortUp`, `PortDown`, `DeletePort`) commits and leaves what its hook has to send:
a set of RPCs, or the one step of a port's event. `SendRpc` is one RPC, for one
BGPVPN on one network. The loops of the code run over query results without an
order, so any RPC of the set may be the next; only the callbacks of an interface
have two loops one after the other (bagpipe.py:478-486 and 495-501), of which the
first is the RPCs of kind `refresh`, sent before the rest (`MayDo`).
`ReadForAttach` and `Attach` separate what `attach_port_on_bgpvpn` carries from its
arrival. `RaiseOnRpc` and `RaiseOnAttach` are the exceptions of `one()`,
`one_or_none()` and a BGPVPN that is gone: the rest of the hook is not run.
`raced` and `failed` are history: what requests overlapped on, and what an
exception cut short.

The plugin checks a request for an association or an interface before it is written,
in transactions of their own. `ValidateNetwork`, `ValidateRouter` and
`ValidateInterface` are these checks with what they miss: of several interfaces they
look at one (plugin.py:120, 152-154), and `asked` keeps the request until
`CreateNetAssoc`, `CreateRouterAssoc` or `AddInterface` writes it, whatever was
written since, or `Refuse` drops it. What is left to refuse a write are the foreign
key and the unique constraint. So networks come to be bound by themselves and by a
router, as `two_interfaces` and `race` show of the plugin alone; `twice` remembers
which. Each check is one step here (`BGPVPNPlugin` has them apart), the interface it
looks at is any of them, and all networks, routers and BGPVPNs are of one project.

| run | instance | checks |
|---|---|---|
| `overlap` | 2 workers, 2 BGPVPNs of type l3, 2 networks (1 external), 2 routers, 3 ports (an ordinary one, one of Neutron's own, one on the external network), 4 requests or events | `TypeOK`, `PortsHaveTheirVpns`, `OtherPortsHaveNothing` |

Four steps, from a server that starts with BGPVPNs and with ports that are down or
active, let a port come up before, between or after an association, an interface
and their removal, put a second router on the network, or bind a network twice and
remove one of the two. What a router with interfaces on several networks adds is
left to the theorems below, which hold for any number of networks.
`PortsHaveTheirVpns` relates the two ways in which an agent learns of a BGPVPN. It
excepts what overlapped or was cut short, for which nothing in the code sends the
missing RPC later; the hazards of this kind are listed without a property. On a
network that was bound twice a BGPVPN may be missing, in two ways that the code has:

- The removal of a router's interface, or of its association, tells agents to delete
  the router's BGPVPN from the network although that is associated with it itself
  (bagpipe.py:458-463, 498-501).
- A port that comes up is told of the BGPVPNs of the routers only if the network has
  none of its own (bagpipe.py:265-274), where the comment of lines 473-475 says that
  both count.

What the property still says of these networks is that no BGPVPN is there that
neither binds, and that one which is there has the present route targets and the
gateway. No liveness is claimed.

### Proofs

`tlapm BagpipeV1Proofs.tla`

The theorems hold for any number of workers, BGPVPNs, networks, routers, ports,
addresses, requests and router interfaces, and BGPVPNs of both types. The
assumptions are the named ones of `BagpipeV1`: types of the constants, and that
`None` and `Idle` differ from what they stand beside.

`TypeCorrect` needs two facts more than `TypeOK` (`TInv`): an RPC is about a BGPVPN
that its request is on, and a network has finitely many gateways, without which
`OneGateway`, which counts them, says nothing.

`OtherPortsHaveNothingCorrect` is proved from `PortsInv`. An attach is received
later than it was read, so one has to know of every attach and send that is left
that the port is still ACTIVE, and of every port that is not that its agent holds
nothing or that a detach is left (`DownHaveNothing`, where nothing overlapped);
of ignored ports, that nothing is ever left for them (`IgnoredHaveNothing`). The
hypothesis that there is a BGPVPN at all belongs to the model: port events are `on`
all BGPVPNs, so that without any there is no record that two overlapped.

`PortsHaveTheirVpnsCorrect` needs no exclusion of double bindings, which the
plugin's checks do not give: networks that are bound twice are in `twice`
(`TwiceKnown`), and `BgpvpnsForNetwork` gives what `Bound` says on the others. The
property speaks of moments of rest; `IInv` says
what holds on the way there, for each BGPVPN that is in neither `raced` nor `failed`
(`Settling`):

- `TasksAreRight`: what is left to send is what is needed now. An RPC that deletes
  is about a network that is not bound any more, one that updates about a network
  that is bound, with the route targets of now or none yet; what was read for an
  attach still fits. The RPCs were chosen, and the attach was read, before other
  requests ran: those would be in `raced`.
- `PortsSettle`: of each port that is served, the agent holds what it needs, or an
  RPC on its network or an attach is left that will tell it.
- `SecondRouterRaises`: where two routers of one BGPVPN have an interface on one
  network, an RPC about both is left. It will raise, since there are two gateways,
  and put the BGPVPN into `failed`. Without this part a router's association could
  be removed while the other router still binds the network.

## Policies and attributes: `BgpvpnApi`

One request is one step. `bgpvpns`, `netAssocs`, `portAssocs` and `routerAssocs`
are the tables, `answer` the request answered last with what the caller is shown.
The rules of `policies/*.py` are sets of actions and attributes; `List2Str` and
`Str2List` are the conversions, on the text as a sequence of words and commas, of
lists of up to `MaxList` route targets;
`FilterHook` is `_list_bgpvpns_result_filter_hook` with its joins.

| run | instance | checks |
|---|---|---|
| `policy` | 2 tenants and an administrator, 2 BGPVPNs, 2 networks, 1 router, 1 port, 3 attributes, 4 requests | `TenantsAreNotTold`, `StoredAsGiven`, `FoundByResource`, `OnlyTheAdminChooses` |

Four requests are enough for two BGPVPNs, an association and a listing. The run
lists by networks and by routers. Two further instances, which are not among the
listed runs, are violated when TLC runs them:

- `MCBgpvpnApi_ports`, `FoundByResource`: the filter for ports joins the table of
  router associations (bgpvpn_db.py:208), so that a BGPVPN without a router is
  not found by its port, and one with a router is found by the ports of others.
- `MCBgpvpnApi_extra_routes`, `ExtraRoutesAsAsked`: `create_router_assoc` does
  not store `advertise_extra_routes` (bgpvpn_db.py:460), though a creation takes
  a "Dictionary of ROUTER ASSOCIATION parameters" (doc/source/user/usage.rst:105).

### Proofs

`tlapm BgpvpnApiProofs.tla`

For any number of projects, BGPVPNs, resources and requests, any length of lists,
and any of the attributes that the service has (`AttrAssumption`):

- `InvariantCorrect`: every row has its project and the columns of the instance.
  Rows change by `Updated` only, of which one has to know that it adds no column
  and leaves the project.
- `OnlyTheAdminChoosesCorrect`, with it: a step leaves the rows as they are, removes
  one, is the administrator's, or keeps the project and every column of
  `AdminUpdates` (`Changes`); and the parameters of a VPN are all among those
  (`ParametersAreForAdmins`).
- `TenantsAreNotToldCorrect`, with it too: a tenant's update shows the row it leaves,
  whose project is the tenant's since it was before; a listing shows what its query
  selected.
- `FoundByResourceCorrect`, for listings by networks and routers (`~ ByPort`). By
  ports it is false, as `MCBgpvpnApi_ports` shows.
- `StoredAsGivenCorrect`: `ListsComeBack` says that a list is read back from its
  text, whatever its length; `ShownAsSet` carries it through the row and the answer.

## Migrations: `Migrations`

The revisions are constants of the module: `DownRevision` and `DependsOn` give their
order, `Statements(r)` the sequence of what `upgrade` does, each statement a record of
what is done, to which table, with which new columns or index. `Upgrade` starts a
revision, each action of `RunStatement` runs one statement, `Stamp` records the
revision.

| variable | code |
|---|---|
| `stamped` | `alembic_version_bgpvpn`, with all that the heads imply |
| `doing` | the revision under way and the statements it has left |
| `columns`, `indexes` | the schema: of a column its name and what an insert has to know of it; indexes and unique constraints by their names, which are taken once |
| `rows`, `attr`, `standard` | the rows of each table, their `standard_attr_id`, and the table `standardattributes`: the type of each |
| `server` | the columns that a running server knows of each table, or `None` |
| `rejected`, `stuck`, `interrupted`, `crashes` | history: an insert was refused, a statement failed, which revisions were cut short and how often that happened |

`Crash` interrupts a revision, which is not stamped and starts over. `StartServer`
starts a server on the schema of any release, and expand revisions of later ones may
run beside it; `InsertRow` is what it inserts. Revisions of the contract branch run
while no server does, as the Neutron documentation has it. A server is not started
while an interrupted revision waits to run again. `23ce05e0a19f` looks up which tables
have a `tenant_id`, and which indexes: `Renaming` does so when the revision starts, so
that one that runs again after an interruption finds less to do.

| run | instance | checks |
|---|---|---|
| `live` | 2 rows, in 3 of the tables, 2 interruptions | `SchemaMatchesModels`, `ServersAreServed`, `RowsHaveTheirAttribute`, `FailsOnlyAfterInterruption` |

Two interruptions are enough to interrupt a revision twice or one in each branch;
two rows to give one attribute to both. The schema is small and complete. What
the model also does, and the properties except: an interrupted
`23ce05e0a19f` may leave an index under its old name (`SchemaMatchesModels` allows
it), and an interrupted `9d7f1ae5fa56` cannot be run again, since its constraint
exists. `FailsOnlyAfterInterruption` speaks of histories in which no revision is left
interrupted: any that is excuses any failure.

`MCMigrations_docstrings`, `AppliedInDocumentedOrder`, an instance beside the listed
runs, is violated: the docstrings of
`4610803bdf0d` and `666c706fea3b` name other parents than their `down_revision`.

### Proofs

`tlapm MigrationsProofs.tla`

All four invariants of the run, `SchemaMatchesModels`, `ServersAreServed`,
`RowsHaveTheirAttribute` and `FailsOnlyAfterInterruption`, for any number of rows, of
interruptions and of tables that servers insert into. The assumptions are the named
ones of `Migrations`: servers insert into tables that get standard attributes,
`MaxCrashes` is a number, and `None` is neither an id of a standard attribute nor a
revision under way.

None of the four is inductive: each speaks of the end of a branch, and what it says
there depends on every statement before. `Inv`, which `InvariantCorrect` proves, has
these parts besides types:

- `InOrder`: what precedes a revision, and what it depends on, is stamped before it
  starts; a contract revision runs while no server does.
- `Traced`: each column and index comes from one revision (`Origin`, `IndexOrigin`),
  which was stamped, was interrupted, or is under way. That is why a revision that
  runs for the first time finds nothing of what it creates.
- `Fresh`: so it does, at each of its statements; what it makes NOT NULL was filled, or
  a statement before fills it (`Ordered`); and a statement fails only where an
  interrupted revision is not stamped.
- `Works`: each statement of any other revision has left its effect behind (`Worked`) or is
  still left to run, through renamings and interruptions; a column that a later
  revision renamed or made NOT NULL counts as present.
- `Bounded`: a table has no other columns and indexes than those of its revisions.
- `Renames`, which has the renaming instead of `Works`, since what that does depends on
  what it finds: a column under its old name is still to be renamed, and none is left
  once the revision is stamped; the same of the indexes, unless it was interrupted.
- `Served`: a server knows the columns of its tables, and what it does not know may be
  left out of an insert, or is in a table that it does not know.
- `Typed` and `AllFilled`: an attribute of a row is one that the migration or the
  server made for its table and for no other row; a table is filled once its filling
  has run, since no server runs until the branch is stamped, and servers of a later
  release insert with an attribute.

`SchemaMatchesModels` then follows from `Works` (all that the models declare is
there) and `Bounded` (nothing else is). `RowsHaveTheirAttribute` is `AllFilled` with
`Typed`. Every part was checked by TLC on the instance of `live` before it was proved.

## Heat: `HeatResources`

`bgpvpns`, `assocs`, `used` are Neutron's; `bgpvpn_id` and `routes` the template,
any that the schema accepts; `status`, `resource_id` and `asked` Heat's; `made`,
`refused` and `stops` history. `CreateBgpvpn` and `CreateAssoc` are
`handle_create` up to Neutron's answer, `SetResourceId` stores the id,
`EngineStops` comes between; `HandleDeleteBgpvpn` and `HandleDeleteAssoc` are
`handle_delete`, `CheckDelete` the calls of `_show_resource` by which Heat waits.
A call has three outcomes: done, not found, which `ignore_not_found` takes for done,
and any other error, which it raises again (`Raises`); Neutron may have done what was
asked for all the same. Such a deletion has failed, as has one whose worker stops, and
stays so until the user asks again (`Retry`). `faults` counts errors and stops, up to
`MaxFaults`. Neutron may refuse any creation. Other clients create, rename and
delete. The look-up of a BGPVPN and the creation of the association are one step: if
the BGPVPN goes between them Neutron refuses the creation, which is an outcome of the
step as it is, and ids are never used again.

| run | instance | checks |
|---|---|---|
| `deletion` | a BGPVPN, a network and a port association, 3 ids, 2 faults; `FairSpec` | `NothingLeftBehind`, `RoutesAreSentClean`, `DeletionEnds` |

`DeletionEnds`: a user who asks again each time a deletion has failed has the stack
deleted in the end. That the user does is a premise of the property, not of
`FairSpec`, which assumes only that the engine goes on with what it has begun: weak
fairness of the deletion of a stack that was asked for, of storing an id, of checking
a deletion. The first deletion of a port association always fails (see below); what
is claimed of it is that the second one goes through, since not found counts as
done. Three ids suffice for the objects of the stack, or for one of another client in
their place; two faults for an error of the call and another of the waiting, or for a
lost id and a failed deletion. The router association has the same code as the
network association. `NothingLeftBehind` excepts a resource whose id was lost
(bgpvpnservice.py:137), of which Heat knows nothing it could delete.

Two further instances, not among the listed runs, are violated when TLC runs them:

- `MCHeatResources_by_name`, `NothingLeftBehind`: `handle_create` resolves a name
  to an id (bgpvpnservice.py:225), `handle_delete` passes the name (line 239);
  Neutron knows no such BGPVPN, which is ignored, and the association stays. The
  schema says "name or ID of the BGPVPN." (line 190).
- `MCHeatResources_port`, `DeletionsSucceed`: after the deletion of a port
  association `_show_resource` calls a method that the client does not have
  (line 512), and the deletion fails although Neutron has carried it out.

### Proofs

`tlapm HeatResourcesProofs.tla`

The theorems are about templates that give BGPVPNs by id or by reference
(`~ ByName`), since with names `NothingLeftBehind` is false. They hold for any
number of resources, ids, errors and stops. `NothingLeftBehind` is not inductive, since a
deletion goes by what Heat stored and by what the template stands for now. `IInv`
adds that Heat has the id of what it created unless the engine stopped before it was stored (`Stored`),
that an association which exists is under the BGPVPN that its template stands for
(`Reachable`, which depends on a BGPVPN being stored before an association refers
to it), and that an id never names objects of two kinds (`KindsApart`), so that the
deletion of one does not make another look deleted. `CleanedAcceptable` is what
`RoutesAreSentCleanCorrect` rests on: the clean-up makes a route acceptable
whatever was left unset in it but a prefix.

The assumptions are the named ones of `HeatResources`: a resource is a BGPVPN or
an association, ids are not names, and `None` is neither nor anything a route
carries. `DeletionEnds` is liveness and stays with TLC.

## Dashboard: `Dashboard`

`bgpvpns`, `assocs`, `used` are Neutron's, `form` what each user has open, `answer`
what the user was told; `chosen`, `overtaken` and `asked` are history. A form is
opened with a copy of what there is and submitted later; Neutron may refuse any
call; `ClientSets` is another client.

| run | instance | checks |
|---|---|---|
| `forms` | an administrator, a user, another client, 1 BGPVPN, 1 association, 1 router | `ChosenTargetsStay` |

Lists of up to two route targets (`MaxTargets`) are enough for the joining and
splitting of the text, which is a sequence of words with a comma between two:
`JoinRts` makes it, `FormatRt` takes what is between the commas. The property excepts an administrator who saves a form that shows old route
targets: the form writes every field. `MCDashboard_parameters`,
`AssociationsAsAsked`, an instance beside the listed runs, is violated: the workflow for a router association with its optional
parameters reads the id from the wrong place of the answer (workflows.py:140); the
association stays, without the parameters.

### Proofs

`tlapm DashboardProofs.tla`

`ShownAreReadBack`: `FormatRt(JoinRts(targets)) = targets`, for a list of any
length. `ChosenTargetsStayCorrect` rests on it, for any number of users, panels
open and BGPVPNs. The property is inductive once forms are typed: that a form of
the project panel sends no route targets, that one of the admin panel which is
saved unchanged sends those it showed, and that these are the BGPVPN's or else it is
in `overtaken`. The assumptions are the named ones of `Dashboard`. The only property
of `Dashboard` that is not proved, `AssociationsAsAsked`, is false.

## What holds of all runs

Requests, UUIDs or rows are bounded, so that most instances come to rest;
their configurations do not check for deadlock (the dashboard's does). Symmetry is
used in runs without a liveness property only.

The instances called further ones above (`MCBagpipeV2_external_port`,
`MCBagpipeV2_port_targets`, `MCBgpvpnApi_ports`, `MCBgpvpnApi_extra_routes`,
`MCDashboard_parameters`, `MCHeatResources_by_name`, `MCHeatResources_port`,
`MCMigrations_docstrings`) are not runs of `PROJECT.json`. Each is to be run with TLC
as the others are, and ends with the violation that is described; nothing else in
the project depends on them.

Of the properties of passing runs these are model-checked and not proved:

- `ChangesArrive` and `DeletionEnds`, liveness, which is beyond the proof system;
- `NoDoubleL3Binding`, which holds of one case of its run and not in general.

Each property of a passing run has a mutant, a faulty variant of a definition
marked as such in its module, under which TLC finds the property violated.

## Plan

1. Done: `BGPVPNPlugin`, `AssocStore`, their invariant, action properties and
   refinement proved; the drivers, Heat, the dashboard, the API and the migrations
   modelled and checked; `EventualView` and the liveness of `BagpipeV2`.
2. Done: proofs about `BagpipeV2` (with the agreement of agents and database),
   `BagpipeV1`, `BgpvpnApi`, `HeatResources`, `Dashboard` and `Migrations`: every
   invariant of a passing run that is true in general, and both refinements.
3. To model next: the two drivers in one module, for an exception of version 1
   that follows the notice of version 2; liveness of version 1 for requests that
   do not overlap.

## Not modelled

- `filter_resource` and the `make_*_dict` functions of `utils.py` serve drivers
  that keep no database, of which the repository has only a dummy.
- The attribute maps of the API are in neutron-lib; the exception classes of
  `extensions/` hold no state.
- Tables, tabs and details of the dashboard are presentation. A page that reads
  resources one by one and fails when one has gone changes nothing.
- Lengths of columns: what a database does with a list of route targets longer
  than 255 characters is its configuration.
- `handle_update` of the Heat resources raises, and `_confirm_delete` is called by
  nothing.
- The client library, devstack, documentation and tests are not part of the
  running system; they are read as reference.
