----------------------------- MODULE BagpipeV2 -----------------------------
(***************************************************************************)
(* The bagpipe driver, version 2 (bagpipe/bagpipe_v2.py), on the           *)
(* transactions of its base classes (driver_api.py): how the agents on the *)
(* compute nodes learn of the associations in the database.                *)
(*                                                                         *)
(* A request runs its driver hooks around one transaction.  CREATED and    *)
(* UPDATED are built after the commit, from what the database holds then,  *)
(* and pushed in a further step; DELETED is pushed from inside the         *)
(* transaction, before it commits.  Each worker's notices reach the agents *)
(* in the order it pushed them; nothing orders those of two workers.       *)
(*                                                                         *)
(* Abstractions: an association is identified by its UUID; the objects of  *)
(* one push are read in one step; a network has one subnet.                *)
(***************************************************************************)
EXTENDS Naturals, Sequences, FiniteSets, TLC

CONSTANTS
  Worker,       \* the API workers of neutron-server
  Bgpvpn,       \* the UUIDs BGPVPNs may get
  Assoc,        \* the UUIDs associations may get
  Network, Router, Port,
  NetworkOf,    \* the network of each port
  External,     \* the networks that are external
  Mortal,       \* the networks, routers and ports that may get deleted
  Name, RT,     \* names and route target lists
  Fault,        \* what may go wrong: "rollback", "crash", "veto", "error"
  MaxRequests,  \* bound: how many requests are served
  MaxPlugged,   \* bound: how many router interfaces exist at a time
  None, Idle

Resource == Network \cup Router \cup Port
Rd == {"none", "set"}       \* no route distinguisher, or some
Flag == {"on", "off"}       \* advertise_fixed_ips, advertise_extra_routes

ASSUME NetworkOfAssumption == NetworkOf \in [Port -> Network]
ASSUME ExternalAssumption == External \subseteq Network /\ Mortal \subseteq Resource
ASSUME FaultAssumption == Fault \subseteq {"rollback", "crash", "veto", "error"}
ASSUME BoundAssumption == MaxRequests \in Nat /\ MaxPlugged \in Nat
ASSUME KindAssumption ==
  Network \cap Router = {} /\ Network \cap Port = {} /\ Router \cap Port = {}

VARIABLES
  vpns,      \* table bgpvpns
  assocs,    \* the three association tables
  unused,    \* the UUIDs that were never used
  plugged,   \* router interfaces: <<router, network>>
  gone,      \* the resources that were deleted
  job,       \* what is left to do of each worker's request
  wire,      \* the notices each worker pushed, on their way to the agents
  known,     \* what the agents hold of each association
  served,    \* how many requests were served
  committed, \* the route targets each BGPVPN ever had in the database
  raced      \* BGPVPNs on which requests overlapped or a fault struck

vars == <<vpns, assocs, unused, plugged, gone, job, wire, known, served,
          committed, raced>>
neutronVars == <<plugged, gone>>

Row == [name: Name, rt: RT, rd: Rd]
AssocRow == [bgpvpn: Bgpvpn, on: Resource, flag: Flag]

\* What an update carries: some attributes, and never no route distinguisher.
Body == {body \in [name: Name \cup {None}, rt: RT \cup {None}, rd: {None, "set"}] :
           \E k \in DOMAIN body : body[k] # None}

\* The objects that are pushed, and the notices of them.
Objects == [bgpvpn: Bgpvpn, on: Resource, rt: RT, flag: Flag,
            nets: SUBSET Network, gateways: SUBSET Network]

Notices == [event: {"created", "updated", "deleted"},
            objects: UNION {[which -> Objects] : which \in SUBSET Assoc}]

\* What is left of a request after a push, and in general.
FinalStep ==
  [step: {"delete_bgpvpn"}, on: SUBSET Bgpvpn, bgpvpn: Bgpvpn]
    \cup [step: {"delete_assoc"}, on: SUBSET Bgpvpn, assoc: Assoc]
    \cup [step: {"unplug"}, on: SUBSET Bgpvpn, interface: Router \X Network]

Job ==
  FinalStep
    \cup [step: {"update"}, on: SUBSET Bgpvpn, bgpvpn: Bgpvpn, body: Body, old: Row,
          spanned: SUBSET Resource]
    \cup [step: {"tell_bgpvpn"}, on: SUBSET Bgpvpn, bgpvpn: Bgpvpn]
    \cup [step: {"tell_assoc"}, on: SUBSET Bgpvpn, assoc: Assoc, event: {"created", "updated"}]
    \cup [step: {"tell_network"}, on: SUBSET Bgpvpn, network: Network]
    \cup [step: {"push"}, on: SUBSET Bgpvpn, notice: Notices, next: FinalStep \cup {Idle}]

ASSUME NoneAssumption == None \notin Row \cup AssocRow \cup Objects
ASSUME IdleAssumption == Idle \notin Job

-----------------------------------------------------------------------------
(***************************************************************************)
(* The objects that are pushed, and who works on what.                     *)
(***************************************************************************)

NetsOf(on) ==
  IF on \in Network THEN {on}
  ELSE IF on \in Router THEN {n \in Network : <<on, n>> \in plugged}
  ELSE {NetworkOf[on]}

\* The object built for a row: its BGPVPN as it is now, the networks it spans,
\* and those whose subnet has a gateway_mac.
Object(a) ==
  LET row == assocs[a]
      nets == NetsOf(row.on)
  IN [bgpvpn |-> row.bgpvpn, on |-> row.on, rt |-> vpns[row.bgpvpn].rt,
      flag |-> IF row.on \in Port THEN row.flag ELSE "on",
      nets |-> nets,
      gateways |-> {n \in nets : \E r \in Router : <<r, n>> \in plugged}]

Rows == {a \in Assoc : assocs[a] # None}

AssociationsOf(b) == {a \in Rows : assocs[a].bgpvpn = b}

\* Mutant: router associations are forgotten.
OnlyNetworkAssociations(b) == {a \in AssociationsOf(b) : assocs[a].on \in Network}

\* _push_bgpvpn_associations: no port associations.
PushedWith(b) == {a \in AssociationsOf(b) : assocs[a].on \notin Port}

\* Network associations of a network, and associations of the routers on it.
OnNetwork(n) ==
  {a \in Rows : \/ assocs[a].on = n
                \/ assocs[a].on \in Router /\ <<assocs[a].on, n>> \in plugged}

OfInterface(r, n) == {a \in Rows : assocs[a].on \in {r, n}}

Notice(event, which) ==
  [event |-> event, objects |-> [a \in which |-> Object(a)]]

\* The objects are built before the interface is gone, and their gateway_mac
\* on its network is emptied by hand.
NoticeWithoutGateway(which, n) ==
  [event |-> "updated",
   objects |-> [a \in which |->
                  [Object(a) EXCEPT !.gateways = @ \ {n}]]]

\* Sends the notice, if it is about anything, and goes on with next.
Pushing(notice, next) ==
  IF DOMAIN notice.objects = {} THEN next
  ELSE [step |-> "push", notice |-> notice, next |-> next,
        on |-> {notice.objects[a].bgpvpn : a \in DOMAIN notice.objects}
                 \cup (IF next = Idle THEN {} ELSE next.on)]

BusyWith(w) ==
  (IF job[w] = Idle THEN {} ELSE job[w].on)
    \cup UNION {{wire[w][i].objects[a].bgpvpn : a \in DOMAIN wire[w][i].objects}
                  : i \in DOMAIN wire[w]}

\* Worker w takes a request on the BGPVPNs bs.
Serve(w, bs) ==
  /\ job[w] = Idle
  /\ served < MaxRequests
  /\ served' = served + 1
  /\ raced' = raced \cup (bs \cap UNION {BusyWith(v) : v \in Worker \ {w}})

Exists(on) == on \notin gone

-----------------------------------------------------------------------------
(***************************************************************************)
(* BGPVPNs.                                                                *)
(***************************************************************************)

\* Mutant: route distinguishers pass.
AnyRd(rd) == TRUE

CommonPrecommitChecks(rd) == rd = "none"

\* create_bgpvpn: nothing is pushed.
CreateBgpvpn(w, b, name, rt, rd) ==
  /\ Serve(w, {b})
  /\ b \in unused
  /\ CommonPrecommitChecks(rd)
  /\ vpns' = [vpns EXCEPT ![b] = [name |-> name, rt |-> rt, rd |-> rd]]
  /\ unused' = unused \ {b}
  /\ committed' = [committed EXCEPT ![b] = @ \cup {rt}]
  /\ UNCHANGED <<assocs, neutronVars, job, wire, known>>

Merged(old, body) ==
  [k \in {"name", "rt", "rd"} |-> IF body[k] = None THEN old[k] ELSE body[k]]

\* Mutant: the new route targets are pushed before the transaction.
BeginUpdateAndPush(w, b, body) ==
  /\ Serve(w, {b})
  /\ vpns[b] # None
  /\ LET new == Merged(vpns[b], body)
         objects == [a \in PushedWith(b) |-> [Object(a) EXCEPT !.rt = new.rt]]
     IN wire' = [wire EXCEPT ![w] = Append(@, [event |-> "updated", objects |-> objects])]
  /\ job' = [job EXCEPT ![w] =
       [step |-> "update", on |-> {b}, bgpvpn |-> b, body |-> body,
        old |-> vpns[b], spanned |-> {assocs[a].on : a \in AssociationsOf(b)}]]
  /\ UNCHANGED <<vpns, assocs, unused, neutronVars, known, committed>>

\* update_bgpvpn reads the row before its transaction.
BeginUpdate(w, b, body) ==
  /\ Serve(w, {b})
  /\ vpns[b] # None
  /\ job' = [job EXCEPT ![w] =
       [step |-> "update", on |-> {b}, bgpvpn |-> b, body |-> body,
        old |-> vpns[b], spanned |-> {assocs[a].on : a \in AssociationsOf(b)}]]
  /\ UNCHANGED <<vpns, assocs, unused, neutronVars, wire, known, committed>>

\* get_bgpvpn_differences: the lists of associated resources are attributes of
\* the BGPVPN as well.
Differences(new, old, spanned, spannedBefore) ==
  {k \in DOMAIN new : new[k] # old[k]}
    \cup (IF spanned = spannedBefore THEN {} ELSE {"associations"})

\* Mutant: the differences are intersected with the attributes to ignore.
OnlyNames(differences) == differences \cap {"name"} # {}

\* The symmetric difference with the attributes to ignore is not empty: no
\* difference at all is pushed, a name alone is not.
WorthPushing(differences) ==
  (differences \cup {"name"}) \ (differences \cap {"name"}) # {}

CommitUpdate(w) ==
  /\ job[w] # Idle /\ job[w].step = "update"
  /\ LET j == job[w]
         b == j.bgpvpn
     IN /\ vpns[b] # None
        /\ CommonPrecommitChecks(Merged(j.old, j.body).rd)
        /\ LET new == Merged(vpns[b], j.body)
               moved == Differences(new, j.old, {assocs[a].on : a \in AssociationsOf(b)},
                                    j.spanned)
           IN /\ vpns' = [vpns EXCEPT ![b] = new]
              /\ committed' = [committed EXCEPT ![b] = @ \cup {new.rt}]
              /\ job' = [job EXCEPT ![w] =
                   IF WorthPushing(moved)
                   THEN [step |-> "tell_bgpvpn", on |-> {b}, bgpvpn |-> b]
                   ELSE Idle]
  /\ UNCHANGED <<assocs, unused, neutronVars, wire, known, served, raced>>

\* The BGPVPN is gone, or the precommit check refuses the update.
RefuseUpdate(w) ==
  /\ job[w] # Idle /\ job[w].step = "update"
  /\ \/ vpns[job[w].bgpvpn] = None
     \/ ~ CommonPrecommitChecks(Merged(job[w].old, job[w].body).rd)
  /\ job' = [job EXCEPT ![w] = Idle]
  /\ UNCHANGED <<vpns, assocs, unused, neutronVars, wire, known, served,
                 committed, raced>>

\* The precommit hook pushes DELETED; the row goes later.
BeginDeleteBgpvpn(w, b) ==
  /\ Serve(w, {b})
  /\ vpns[b] # None
  /\ job' = [job EXCEPT ![w] =
       Pushing(Notice("deleted", PushedWith(b)),
               [step |-> "delete_bgpvpn", on |-> {b}, bgpvpn |-> b])]
  /\ UNCHANGED <<vpns, assocs, unused, neutronVars, wire, known, committed>>

\* The associations go with their BGPVPN.
CommitDeleteBgpvpn(w) ==
  /\ job[w] # Idle /\ job[w].step = "delete_bgpvpn"
  /\ vpns' = [vpns EXCEPT ![job[w].bgpvpn] = None]
  /\ assocs' = [a \in Assoc |->
                  IF a \in AssociationsOf(job[w].bgpvpn) THEN None ELSE assocs[a]]
  /\ job' = [job EXCEPT ![w] = Idle]
  /\ UNCHANGED <<unused, neutronVars, wire, known, served, committed, raced>>

-----------------------------------------------------------------------------
(***************************************************************************)
(* Associations.                                                           *)
(***************************************************************************)

\* Mutant: an association is accepted wherever it is.
AcceptAll(on) == TRUE

\* create_net_assoc_precommit; router and port associations have no such hook.
AssocPrecommit(on) == on \notin External

\* The association is committed; CREATED is built from the database afterwards.
CreateAssoc(w, a, b, on, flag) ==
  /\ Serve(w, {b})
  /\ a \in unused
  /\ vpns[b] # None /\ Exists(on)
  /\ \A other \in AssociationsOf(b) : assocs[other].on # on
  /\ AssocPrecommit(on)
  /\ assocs' = [assocs EXCEPT ![a] = [bgpvpn |-> b, on |-> on, flag |-> flag]]
  /\ unused' = unused \ {a}
  /\ job' = [job EXCEPT ![w] =
               [step |-> "tell_assoc", on |-> {b}, assoc |-> a, event |-> "created"]]
  /\ UNCHANGED <<vpns, neutronVars, wire, known, committed>>

\* update_port_assoc.
UpdatePortAssoc(w, a, flag) ==
  /\ a \in Rows /\ assocs[a].on \in Port
  /\ Serve(w, {assocs[a].bgpvpn})
  /\ assocs' = [assocs EXCEPT ![a].flag = flag]
  /\ job' = [job EXCEPT ![w] =
               [step |-> "tell_assoc", on |-> {assocs[a].bgpvpn}, assoc |-> a,
                event |-> "updated"]]
  /\ UNCHANGED <<vpns, unused, neutronVars, wire, known, committed>>

\* update_router_assoc: its hooks do nothing, the object has no such field.
UpdateRouterAssoc(w, a, flag) ==
  /\ a \in Rows /\ assocs[a].on \in Router
  /\ Serve(w, {assocs[a].bgpvpn})
  /\ assocs' = [assocs EXCEPT ![a].flag = flag]
  /\ UNCHANGED <<vpns, unused, neutronVars, job, wire, known, committed>>

BeginDeleteAssoc(w, a) ==
  /\ a \in Rows
  /\ Serve(w, {assocs[a].bgpvpn})
  /\ job' = [job EXCEPT ![w] =
       Pushing(Notice("deleted", {a}),
               [step |-> "delete_assoc", on |-> {assocs[a].bgpvpn}, assoc |-> a])]
  /\ UNCHANGED <<vpns, assocs, unused, neutronVars, wire, known, committed>>

CommitDeleteAssoc(w) ==
  /\ job[w] # Idle /\ job[w].step = "delete_assoc"
  /\ assocs' = [assocs EXCEPT ![job[w].assoc] = None]
  /\ job' = [job EXCEPT ![w] = Idle]
  /\ UNCHANGED <<vpns, unused, neutronVars, wire, known, served, committed, raced>>

-----------------------------------------------------------------------------
(***************************************************************************)
(* Router interfaces, and what Neutron deletes.                            *)
(***************************************************************************)

\* The AFTER_CREATE callback, once the interface exists.
AddInterface(w, r, n) ==
  /\ Serve(w, Bgpvpn)
  /\ Cardinality(plugged) < MaxPlugged
  /\ <<r, n>> \notin plugged /\ Exists(r) /\ Exists(n)
  /\ plugged' = plugged \cup {<<r, n>>}
  /\ job' = [job EXCEPT ![w] =
               [step |-> "tell_network", on |-> Bgpvpn, network |-> n]]
  /\ UNCHANGED <<vpns, assocs, unused, gone, wire, known, committed>>

\* Mutant: the objects are pushed as they were read.
RemovedAsRead(r, n) ==
  Pushing(Notice("updated", OfInterface(r, n)),
          [step |-> "unplug", on |-> Bgpvpn, interface |-> <<r, n>>])

RemovedNotice(r, n) ==
  Pushing(NoticeWithoutGateway(OfInterface(r, n), n),
          [step |-> "unplug", on |-> Bgpvpn, interface |-> <<r, n>>])

\* The BEFORE_DELETE callback, while the interface still exists.
BeginRemoveInterface(w, r, n) ==
  /\ Serve(w, Bgpvpn)
  /\ <<r, n>> \in plugged
  /\ job' = [job EXCEPT ![w] = RemovedNotice(r, n)]
  /\ UNCHANGED <<vpns, assocs, unused, neutronVars, wire, known, committed>>

CommitRemoveInterface(w) ==
  /\ job[w] # Idle /\ job[w].step = "unplug"
  /\ plugged' = plugged \ {job[w].interface}
  /\ job' = [job EXCEPT ![w] = Idle]
  /\ UNCHANGED <<vpns, assocs, unused, gone, wire, known, served, committed, raced>>

\* Mutant: no cascade.
DeleteResourceOnly(x) ==
  /\ x \in Mortal \ gone
  /\ \A i \in plugged : x \notin {i[1], i[2]}
  /\ \A p \in Port : x = NetworkOf[p] => ~ Exists(p)
  /\ gone' = gone \cup {x}
  /\ UNCHANGED <<vpns, assocs, unused, plugged, job, wire, known, served, committed, raced>>

\* Neutron deletes a network, router or port; the association rows cascade, and
\* no hook of the driver runs.
DeleteResource(x) ==
  /\ x \in Mortal \ gone
  /\ \A i \in plugged : x \notin {i[1], i[2]}
  /\ \A p \in Port : x = NetworkOf[p] => ~ Exists(p)
  /\ gone' = gone \cup {x}
  /\ assocs' = [a \in Assoc |->
                  IF a \in Rows /\ assocs[a].on = x THEN None ELSE assocs[a]]
  /\ UNCHANGED <<vpns, unused, plugged, job, wire, known, served, committed, raced>>

-----------------------------------------------------------------------------
(***************************************************************************)
(* Notices: built, pushed, delivered.                                      *)
(***************************************************************************)

\* get_object finds nothing when the association is gone by now: the request
\* fails, after its transaction.
ToldOf(j) ==
  IF j.step = "tell_bgpvpn" THEN Notice("updated", PushedWith(j.bgpvpn))
  ELSE IF j.step = "tell_network" THEN Notice("updated", OnNetwork(j.network))
  ELSE Notice(j.event, {j.assoc} \cap Rows)

Build(w) ==
  /\ job[w] # Idle
  /\ job[w].step \in {"tell_assoc", "tell_bgpvpn", "tell_network"}
  /\ job' = [job EXCEPT ![w] = Pushing(ToldOf(job[w]), Idle)]
  /\ UNCHANGED <<vpns, assocs, unused, neutronVars, wire, known, served,
                 committed, raced>>

Push(w) ==
  /\ job[w] # Idle /\ job[w].step = "push"
  /\ wire' = [wire EXCEPT ![w] = Append(@, job[w].notice)]
  /\ job' = [job EXCEPT ![w] = job[w].next]
  /\ UNCHANGED <<vpns, assocs, unused, neutronVars, known, served, committed, raced>>

\* What the agents do with a notice.
Learn(notice) ==
  [a \in Assoc |->
     IF a \notin DOMAIN notice.objects THEN known[a]
     ELSE IF notice.event = "deleted" THEN None
     ELSE notice.objects[a]]

Deliver(w) ==
  /\ wire[w] # <<>>
  /\ known' = Learn(Head(wire[w]))
  /\ wire' = [wire EXCEPT ![w] = Tail(@)]
  /\ UNCHANGED <<vpns, assocs, unused, neutronVars, job, served, committed, raced>>

-----------------------------------------------------------------------------
(***************************************************************************)
(* Faults.                                                                 *)
(***************************************************************************)

\* The transaction of a deletion is rolled back, or another subscriber of the
\* BEFORE_DELETE event refuses: DELETED or UPDATED are out already.
Rollback(w) ==
  /\ job[w] # Idle
  /\ \/ "rollback" \in Fault /\ job[w].step \in {"delete_bgpvpn", "delete_assoc"}
     \/ "veto" \in Fault /\ job[w].step = "unplug"
  /\ raced' = raced \cup job[w].on
  /\ job' = [job EXCEPT ![w] = Idle]
  /\ UNCHANGED <<vpns, assocs, unused, neutronVars, wire, known, served, committed>>

\* The worker dies, or an exception ends its request: what it had not pushed is
\* never pushed.
Crash(w) ==
  /\ "crash" \in Fault
  /\ job[w] # Idle
  /\ raced' = raced \cup job[w].on
  /\ job' = [job EXCEPT ![w] = Idle]
  /\ UNCHANGED <<vpns, assocs, unused, neutronVars, wire, known, served, committed>>

\* The BEFORE_DELETE callback drops every exception: the interface goes, and no
\* agent was told.
Swallow(w) ==
  /\ "error" \in Fault
  /\ job[w] # Idle /\ job[w].step = "push"
  /\ job[w].next # Idle /\ job[w].next.step = "unplug"
  /\ raced' = raced \cup job[w].on
  /\ job' = [job EXCEPT ![w] = job[w].next]
  /\ UNCHANGED <<vpns, assocs, unused, neutronVars, wire, known, served, committed>>

-----------------------------------------------------------------------------
Init ==
  /\ vpns = [b \in Bgpvpn |-> None]
  /\ assocs = [a \in Assoc |-> None]
  /\ unused = Bgpvpn \cup Assoc
  /\ plugged = {} /\ gone = {}
  /\ job = [w \in Worker |-> Idle]
  /\ wire = [w \in Worker |-> <<>>]
  /\ known = [a \in Assoc |-> None]
  /\ served = 0
  /\ committed = [b \in Bgpvpn |-> {}]
  /\ raced = {}

Begin(w) ==
  \/ \E b \in Bgpvpn :
       \/ \E name \in Name, rt \in RT, rd \in Rd : CreateBgpvpn(w, b, name, rt, rd)
       \/ \E body \in Body : BeginUpdate(w, b, body)
       \/ BeginDeleteBgpvpn(w, b)
       \/ \E a \in Assoc, on \in Resource : CreateAssoc(w, a, b, on, "on")
  \/ \E a \in Assoc :
       \/ \E flag \in Flag : UpdatePortAssoc(w, a, flag) \/ UpdateRouterAssoc(w, a, flag)
       \/ BeginDeleteAssoc(w, a)
  \/ \E r \in Router, n \in Network :
       AddInterface(w, r, n) \/ BeginRemoveInterface(w, r, n)

\* A request that was taken goes on by itself.
Proceed(w) ==
  \/ CommitUpdate(w) \/ RefuseUpdate(w)
  \/ CommitDeleteBgpvpn(w) \/ CommitDeleteAssoc(w) \/ CommitRemoveInterface(w)
  \/ Build(w) \/ Push(w)

Next ==
  \/ \E w \in Worker :
       Begin(w) \/ Proceed(w) \/ Deliver(w) \/ Rollback(w) \/ Crash(w) \/ Swallow(w)
  \/ \E x \in Resource : DeleteResource(x)

Spec == Init /\ [][Next]_vars

\* A worker runs the request it took to its end; the message bus delivers what
\* it took.  Nobody has to make requests, and nothing has to fail.
FairSpec ==
  Spec /\ \A w \in Worker : WF_vars(Proceed(w)) /\ WF_vars(Deliver(w))

-----------------------------------------------------------------------------
(***************************************************************************)
(* Properties.                                                             *)
(***************************************************************************)

\* Every table, job and message holds what the columns and the objects may hold,
\* and rows refer to what exists.
TypeOK ==
  /\ vpns \in [Bgpvpn -> Row \cup {None}]
  /\ assocs \in [Assoc -> AssocRow \cup {None}]
  /\ unused \subseteq Bgpvpn \cup Assoc
  /\ plugged \subseteq Router \X Network /\ gone \subseteq Mortal
  /\ job \in [Worker -> Job \cup {Idle}]
  /\ wire \in [Worker -> Seq(Notices)]
  /\ known \in [Assoc -> Objects \cup {None}]
  /\ served \in 0..MaxRequests
  /\ raced \subseteq Bgpvpn
  /\ \A a \in Rows : vpns[assocs[a].bgpvpn] # None /\ Exists(assocs[a].on)

Busy == UNION {BusyWith(w) : w \in Worker}

\* What agents hold of a network or router association is what the database
\* holds, with two exceptions.  The removal of a router interface hides the
\* gateway from the association of its network, also where another router is
\* left; and the association of the router keeps the network in its list,
\* without a gateway on it.
AsStored(o, held) ==
  /\ held.bgpvpn = o.bgpvpn /\ held.on = o.on
  /\ held.rt = o.rt /\ held.flag = o.flag
  /\ IF o.on \in Router
     THEN o.nets \subseteq held.nets /\ held.gateways = o.gateways
     ELSE held.nets = o.nets /\ held.gateways \subseteq o.gateways

Agrees(a, held) ==
  IF assocs[a] = None \/ held = None THEN assocs[a] = held
  ELSE AsStored(Object(a), held)

\* The driver tells agents of port associations themselves, not of what
\* happens to their BGPVPN.
AgreesOnPort(a, held) ==
  IF assocs[a] = None
  THEN held # None => vpns[held.bgpvpn] = None
  ELSE held # None /\ held.flag = assocs[a].flag

Subject(a, held) == IF assocs[a] # None THEN assocs[a] ELSE held

Fits(a, held) ==
  LET row == Subject(a, held)
  IN \/ row = None
     \/ IF row.on \in Port THEN AgreesOnPort(a, held) ELSE Agrees(a, held)

\* Once nobody works on a BGPVPN any more, agents hold exactly its network and
\* router associations, with its route targets and no gateway that is gone,
\* and its port associations as they were last changed: whatever requests came
\* before, unless two of them overlapped on that BGPVPN or a fault cut one
\* short.  It relates the order of commits and pushes of every hook
\* (bagpipe_v2.py:104-207).
AgentsAgree ==
  \A a \in Assoc :
    LET row == Subject(a, known[a])
    IN (row # None => row.bgpvpn \notin Busy \cup raced /\ Exists(row.on)) =>
         Fits(a, known[a])

\* Whatever overlaps and whatever fails, agents never hold route targets that
\* were never committed for the BGPVPN (objects are built after the commit,
\* bagpipe_v2.py:111-118, or from committed rows).
NothingInvented ==
  \A a \in Assoc :
    known[a] # None => known[a].rt \in committed[known[a].bgpvpn]

\* No BGPVPN in the database has route distinguishers, by creation or by
\* updates that each add to what an earlier read saw (bagpipe_v2.py:96-109).
NoRouteDistinguishers == \A b \in Bgpvpn : vpns[b] # None => vpns[b].rd = "none"

\* Agents never hold an association of an external network
\* (create_net_assoc_precommit, bagpipe_v2.py:132-134).
NoExternalNetwork == \A a \in Assoc : known[a] # None => known[a].on \notin External

\* The documentation: "the driver will not bind a port on an external network".
NoPortOnExternalNetwork ==
  \A a \in Assoc :
    known[a] # None /\ known[a].on \in Port => NetworkOf[known[a].on] \notin External

\* The route targets that isolate VPNs from each other apply to the ports
\* associated with a BGPVPN as well.
PortsFollowRouteTargets ==
  \A a \in Rows :
    assocs[a].on \in Port /\ known[a] # None /\ assocs[a].bgpvpn \notin Busy \cup raced =>
      known[a].rt = vpns[assocs[a].bgpvpn].rt

\* The refinement.  What happens to the BGPVPN of a port association is not
\* pushed: of those, database and agents are compared on the rest.
Shown(o) ==
  IF o = None THEN None
  ELSE IF o.on \in Port THEN [bgpvpn |-> o.bgpvpn, on |-> o.on, flag |-> o.flag]
  ELSE o

FitsShown(stored, held) ==
  IF stored = None \/ held = None \/ stored.on \in Port THEN stored = held
  ELSE held.on \notin Port /\ AsStored(stored, held)

AboutStep(j) ==
  IF j = Idle THEN {}
  ELSE CASE j.step = "tell_assoc" -> {j.assoc} \cap Rows
         [] j.step = "delete_assoc" -> {j.assoc}
         [] j.step \in {"tell_bgpvpn", "delete_bgpvpn"} -> PushedWith(j.bgpvpn)
         [] j.step = "tell_network" -> OnNetwork(j.network)
         [] j.step = "unplug" -> OfInterface(j.interface[1], j.interface[2])
         [] OTHER -> {}

About(j) ==
  IF j # Idle /\ j.step = "push" THEN DOMAIN j.notice.objects \cup AboutStep(j.next)
  ELSE AboutStep(j)

\* No view is promised of associations of BGPVPNs that requests overlapped on or
\* a fault struck, nor of those that went with their resource or, on a port, with
\* their BGPVPN: agents are not told of these.
Lost ==
  {a \in Assoc :
     LET row == Subject(a, known[a])
     IN row # None /\ \/ row.bgpvpn \in raced
                      \/ ~ Exists(row.on)
                      \/ row.on \in Port /\ vpns[row.bgpvpn] = None}

View == INSTANCE EventualView
  WITH Key <- Assoc,
       Value <- {None} \cup Objects \cup [bgpvpn: Bgpvpn, on: Resource, flag: Flag],
       Fit <- FitsShown,
       truth <- [a \in Assoc |-> IF assocs[a] = None THEN None ELSE Shown(Object(a))],
       view <- [a \in Assoc |-> Shown(known[a])],
       open <- (UNION {About(job[w]) : w \in Worker})
                 \cup (UNION {UNION {DOMAIN wire[w][i].objects : i \in DOMAIN wire[w]}
                                : w \in Worker})
                 \cup Lost

\* The driver implements EventualView, with any workers and faults.  An association
\* that is not lost is open only while a request or a notice is about it itself:
\* the database and the agents change only then, and when the last one has ended,
\* agents hold what the database holds, as AsStored says (bagpipe_v2.py:87-248).
KeepsPromise == View!Spec

\* Row a has these route targets, or a gateway on network n, and agents are told so.
HasTargets(a, rt) ==
  a \in Rows /\ assocs[a].on \notin Port /\ vpns[assocs[a].bgpvpn].rt = rt

OnGateway(a, n) ==
  a \in Rows /\ assocs[a].on \in Router /\ <<assocs[a].on, n>> \in plugged

Remembered(a) == assocs[a] = None /\ known[a] # None

\* Whatever the database holds of an association reaches the agents unless it
\* changes again or the association is lost: new route targets, networks a router
\* gets an interface on, and that it is gone.  A hook that pushes nothing
\* breaks it (bagpipe_v2.py:94-127, 209-223).
ChangesArrive ==
  \A a \in Assoc :
    /\ \A rt \in RT :
         HasTargets(a, rt) ~> \/ ~ HasTargets(a, rt) \/ a \in Lost
                              \/ known[a] # None /\ known[a].rt = rt
    /\ \A n \in Network :
         OnGateway(a, n) ~> \/ ~ OnGateway(a, n) \/ a \in Lost
                            \/ known[a] # None /\ n \in known[a].gateways
    /\ Remembered(a) ~> ~ Remembered(a) \/ a \in Lost
=============================================================================
