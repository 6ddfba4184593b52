-------------------------- MODULE BGPVPNPluginProofs --------------------------
(***************************************************************************)
(* Theorems about BGPVPNPlugin, for every value of its constants.          *)
(***************************************************************************)
EXTENDS BGPVPNPlugin, TLAPS

-----------------------------------------------------------------------------
(***************************************************************************)
(* The requests.                                                           *)
(***************************************************************************)

\* A worker that serves an operation holds a request of the shape of that
\* operation.
LEMMA RequestShape ==
  ASSUME TypeOK, NEW w \in Worker
  PROVE  /\ Serves(w, "net") => req[w] \in NetRequest
         /\ Serves(w, "router") => req[w] \in RouterRequest
         /\ Serves(w, "port") => req[w] \in PortRequest
         /\ Serves(w, "port_update") => req[w] \in PortUpdate
         /\ Serves(w, "bgpvpn_update") => req[w] \in BgpvpnUpdate
         /\ Serves(w, "interface") => req[w] \in InterfaceRequest
<1>1. req[w] = Idle \/ req[w] \in Request
  BY DEF TypeOK
<1>2. \A q \in Request :
        /\ q.op = "net" => q \in NetRequest
        /\ q.op = "router" => q \in RouterRequest
        /\ q.op = "port" => q \in PortRequest
        /\ q.op = "port_update" => q \in PortUpdate
        /\ q.op = "bgpvpn_update" => q \in BgpvpnUpdate
        /\ q.op = "interface" => q \in InterfaceRequest
  BY DEF Request, NetRequest, RouterRequest, PortRequest, PortUpdate,
         BgpvpnUpdate, InterfaceRequest
<1>. QED
  BY <1>1, <1>2 DEF Serves

\* A request of one of the shapes may take the place of an idle worker's, and
\* only the worker that took it changes.
LEMMA BeginRequest ==
  ASSUME TypeOK, NEW w \in Worker, NEW q \in Request, Begin(w, q)
  PROVE  /\ req' \in [Worker -> {Idle} \cup Request]
         /\ req'[w] = q
         /\ \A v \in Worker \ {w} : req'[v] = req[v]
BY DEF TypeOK, Begin

LEMMA FinishRequest ==
  ASSUME TypeOK, NEW w \in Worker, Finish(w)
  PROVE  /\ req' \in [Worker -> {Idle} \cup Request]
         /\ req'[w] = Idle
         /\ \A v \in Worker \ {w} : req'[v] = req[v]
BY DEF TypeOK, Finish

\* A create request that validates one thing more stays a request of its shape
\* and keeps everything else it holds.
LEMMA AdvanceRequest ==
  ASSUME TypeOK, NEW w \in Worker, NEW what \in {"bgpvpn", "routes"},
         \/ Serves(w, "port")
         \/ what = "bgpvpn" /\ (Serves(w, "net") \/ Serves(w, "router")),
         Advance(w, what)
  PROVE  /\ req' \in [Worker -> {Idle} \cup Request]
         /\ req'[w] = [req[w] EXCEPT !.validated = what]
         /\ req'[w] \in Request
         /\ \A v \in Worker \ {w} : req'[v] = req[v]
<1>. DEFINE q == [req[w] EXCEPT !.validated = what]
<1>1. q \in Request
  <2>1. CASE Serves(w, "port")
    <3>1. req[w] \in PortRequest
      BY <2>1, RequestShape
    <3>2. q \in PortRequest
      BY <3>1 DEF PortRequest
    <3>. QED
      BY <3>2 DEF Request
  <2>2. CASE what = "bgpvpn" /\ Serves(w, "net")
    <3>1. req[w] \in NetRequest
      BY <2>2, RequestShape
    <3>2. q \in NetRequest
      BY <3>1, <2>2 DEF NetRequest
    <3>. QED
      BY <3>2 DEF Request
  <2>3. CASE what = "bgpvpn" /\ Serves(w, "router")
    <3>1. req[w] \in RouterRequest
      BY <2>3, RequestShape
    <3>2. q \in RouterRequest
      BY <3>1, <2>3 DEF RouterRequest
    <3>. QED
      BY <3>2 DEF Request
  <2>. QED
    BY <2>1, <2>2, <2>3
<1>2. req' = [req EXCEPT ![w] = q]
  BY DEF Advance
<1>. QED
  BY <1>1, <1>2 DEF TypeOK

-----------------------------------------------------------------------------
(***************************************************************************)
(* Type correctness: one lemma per group of actions.                       *)
(***************************************************************************)

LEMMA RequestStepType ==
  ASSUME TypeOK, NEW w \in Worker, ValidateBgpvpn(w) \/ Refuse(w)
  PROVE  TypeOK'
<1>1. CASE Refuse(w)
  BY <1>1, FinishRequest DEF Refuse, TypeOK, assocVars, neutronVars
<1>2. CASE ValidateBgpvpn(w)
  <2>1. \/ Serves(w, "port") \/ Serves(w, "net") \/ Serves(w, "router")
    BY <1>2 DEF ValidateBgpvpn, Validated
  <2>2. Advance(w, "bgpvpn")
    BY <1>2 DEF ValidateBgpvpn
  <2>3. req' \in [Worker -> {Idle} \cup Request]
    BY <2>1, <2>2, AdvanceRequest
  <2>. QED
    BY <1>2, <2>3 DEF ValidateBgpvpn, TypeOK, assocVars, neutronVars
<1>. QED
  BY <1>1, <1>2

LEMMA BgpvpnStepType == TypeOK /\ BgpvpnNext => TypeOK'
<1>. SUFFICES ASSUME TypeOK, BgpvpnNext PROVE TypeOK'
  OBVIOUS
<1>. USE DEF assocVars, neutronVars
<1>1. ASSUME NEW b \in BgpvpnId, NEW row \in Bgpvpn, CreateBgpvpn(b, row)
      PROVE  TypeOK'
  BY <1>1 DEF CreateBgpvpn, TypeOK
<1>2. ASSUME NEW w \in Worker, NEW ctx \in Context, NEW b \in BgpvpnId,
             NEW name \in Name \cup {Absent}, NEW rt \in RT \cup {Absent},
             BeginBgpvpnUpdate(w, ctx, b, name, rt)
      PROVE  TypeOK'
  <2>. DEFINE q == [op |-> "bgpvpn_update", ctx |-> ctx, bgpvpn |-> b,
                    old |-> bgpvpns[b], name |-> name, rt |-> rt]
  <2>1. bgpvpns[b] \in Bgpvpn
    BY <1>2 DEF BeginBgpvpnUpdate, GetBgpvpns, Live, TypeOK
  <2>2. q \in Request
    BY <2>1 DEF BgpvpnUpdate, Request
  <2>3. req' \in [Worker -> {Idle} \cup Request]
    BY <1>2, <2>2, BeginRequest DEF BeginBgpvpnUpdate
  <2>. QED
    BY <1>2, <2>3 DEF BeginBgpvpnUpdate, TypeOK
<1>3. ASSUME NEW w \in Worker, CommitBgpvpnUpdate(w)
      PROVE  TypeOK'
  <2>1. req[w] \in BgpvpnUpdate
    BY <1>3, RequestShape DEF CommitBgpvpnUpdate
  <2>2. bgpvpns[req[w].bgpvpn] \in Bgpvpn
    BY <1>3, <2>1 DEF CommitBgpvpnUpdate, Live, TypeOK, BgpvpnUpdate
  <2>3. UpdatedBgpvpn(bgpvpns[req[w].bgpvpn], req[w]) \in Bgpvpn
    BY <2>1, <2>2 DEF UpdatedBgpvpn, BgpvpnUpdate, Bgpvpn
  <2>4. bgpvpns' \in [BgpvpnId -> {NoRow} \cup Bgpvpn]
    BY <1>3, <2>3 DEF CommitBgpvpnUpdate, TypeOK
  <2>. QED
    BY <1>3, <2>4, FinishRequest DEF CommitBgpvpnUpdate, TypeOK
<1>4. ASSUME NEW b \in BgpvpnId, DeleteBgpvpn(b)
      PROVE  TypeOK'
  <2>1. WithoutRoutesTo(WithoutBgpvpn(portAssocs, b), b) \subseteq PortAssoc
    BY DEF TypeOK, WithoutRoutesTo, WithoutBgpvpn, PortAssoc, Route
  <2>. QED
    BY <1>4, <2>1 DEF DeleteBgpvpn, TypeOK, WithoutBgpvpn
<1>. QED
  BY <1>1, <1>2, <1>3, <1>4 DEF BgpvpnNext

LEMMA NetAssocStepType == TypeOK /\ NetAssocNext => TypeOK'
<1>. SUFFICES ASSUME TypeOK, NetAssocNext PROVE TypeOK'
  OBVIOUS
<1>. USE DEF assocVars, neutronVars
<1>1. ASSUME NEW w \in Worker, NEW ctx \in Context, NEW project \in Project,
             NEW b \in BgpvpnId, NEW n \in Network,
             BeginNetAssoc(w, ctx, project, b, n)
      PROVE  TypeOK'
  <2>. DEFINE q == [op |-> "net", validated |-> "resource", ctx |-> ctx,
                    project |-> project, bgpvpn |-> b, resource |-> n]
  <2>1. q \in Request
    BY DEF NetRequest, Request
  <2>2. req' \in [Worker -> {Idle} \cup Request]
    BY <1>1, <2>1, BeginRequest DEF BeginNetAssoc
  <2>. QED
    BY <1>1, <2>2 DEF BeginNetAssoc, TypeOK
<1>2. ASSUME NEW w \in Worker, CommitNetAssoc(w)
      PROVE  TypeOK'
  <2>1. req[w] \in NetRequest
    BY <1>2, RequestShape DEF CommitNetAssoc, Validated
  <2>2. netAssocs' \subseteq NetAssoc
    BY <1>2, <2>1 DEF CommitNetAssoc, NetRequest, NetAssoc, TypeOK
  <2>. QED
    BY <1>2, <2>2, FinishRequest DEF CommitNetAssoc, TypeOK
<1>3. ASSUME NEW a \in netAssocs, DeleteNetAssoc(a)
      PROVE  TypeOK'
  BY <1>3 DEF DeleteNetAssoc, TypeOK
<1>. QED
  BY <1>1, <1>2, <1>3 DEF NetAssocNext

LEMMA RouterAssocStepType == TypeOK /\ RouterAssocNext => TypeOK'
<1>. SUFFICES ASSUME TypeOK, RouterAssocNext PROVE TypeOK'
  OBVIOUS
<1>. USE DEF assocVars, neutronVars
<1>1. ASSUME NEW w \in Worker, NEW ctx \in Context, NEW project \in Project,
             NEW b \in BgpvpnId, NEW r \in Router,
             BeginRouterAssoc(w, ctx, project, b, r)
      PROVE  TypeOK'
  <2>. DEFINE q == [op |-> "router", validated |-> "resource", ctx |-> ctx,
                    project |-> project, bgpvpn |-> b, resource |-> r]
  <2>1. q \in Request
    BY DEF RouterRequest, Request
  <2>2. req' \in [Worker -> {Idle} \cup Request]
    BY <1>1, <2>1, BeginRequest DEF BeginRouterAssoc
  <2>. QED
    BY <1>1, <2>2 DEF BeginRouterAssoc, TypeOK
<1>2. ASSUME NEW w \in Worker, CommitRouterAssoc(w)
      PROVE  TypeOK'
  <2>1. req[w] \in RouterRequest
    BY <1>2, RequestShape DEF CommitRouterAssoc, Validated
  <2>2. routerAssocs' \subseteq RouterAssoc
    BY <1>2, <2>1, DefaultAssumption
    DEF CommitRouterAssoc, RouterRequest, RouterAssoc, TypeOK
  <2>. QED
    BY <1>2, <2>2, FinishRequest DEF CommitRouterAssoc, TypeOK
<1>3. ASSUME NEW a \in routerAssocs, NEW extra \in Advertise,
             UpdateRouterAssoc(a, extra)
      PROVE  TypeOK'
  <2>1. [a EXCEPT !.extra = extra] \in RouterAssoc
    BY DEF TypeOK, RouterAssoc
  <2>. QED
    BY <1>3, <2>1 DEF UpdateRouterAssoc, TypeOK
<1>4. ASSUME NEW a \in routerAssocs, DeleteRouterAssoc(a)
      PROVE  TypeOK'
  BY <1>4 DEF DeleteRouterAssoc, TypeOK
<1>. QED
  BY <1>1, <1>2, <1>3, <1>4 DEF RouterAssocNext

LEMMA PortAssocStepType == TypeOK /\ PortAssocNext => TypeOK'
<1>. SUFFICES ASSUME TypeOK, PortAssocNext PROVE TypeOK'
  OBVIOUS
<1>. USE DEF assocVars, neutronVars
<1>1. ASSUME NEW w \in Worker, NEW ctx \in Context, NEW project \in Project,
             NEW b \in BgpvpnId, NEW p \in Port, NEW fixed \in Advertise,
             NEW routes \in SUBSET Route,
             BeginPortAssoc(w, ctx, project, b, p, fixed, routes)
      PROVE  TypeOK'
  <2>. DEFINE q == [op |-> "port", validated |-> "resource", ctx |-> ctx,
                    project |-> project, bgpvpn |-> b, resource |-> p,
                    fixed |-> fixed, routes |-> routes]
  <2>1. q \in Request
    BY DEF PortRequest, Request
  <2>2. req' \in [Worker -> {Idle} \cup Request]
    BY <1>1, <2>1, BeginRequest DEF BeginPortAssoc
  <2>. QED
    BY <1>1, <2>2 DEF BeginPortAssoc, TypeOK
<1>2. ASSUME NEW w \in Worker, ValidateRoutes(w)
      PROVE  TypeOK'
  <2>1. req' \in [Worker -> {Idle} \cup Request]
    BY <1>2, AdvanceRequest DEF ValidateRoutes, Validated
  <2>. QED
    BY <1>2, <2>1 DEF ValidateRoutes, TypeOK
<1>3. ASSUME NEW w \in Worker, CommitPortAssoc(w)
      PROVE  TypeOK'
  <2>1. req[w] \in PortRequest
    BY <1>3, RequestShape DEF CommitPortAssoc, Validated
  <2>2. portAssocs' \subseteq PortAssoc
    BY <1>3, <2>1 DEF CommitPortAssoc, PortRequest, PortAssoc, TypeOK
  <2>. QED
    BY <1>3, <2>2, FinishRequest DEF CommitPortAssoc, TypeOK
<1>4. ASSUME NEW w \in Worker, NEW ctx \in Context, NEW a \in portAssocs,
             NEW fixed \in Advertise \cup {Absent},
             NEW routes \in {Absent} \cup SUBSET Route,
             BeginPortUpdate(w, ctx, a, fixed, routes)
      PROVE  TypeOK'
  <2>. DEFINE q == [op |-> "port_update", ctx |-> ctx, bgpvpn |-> a.bgpvpn,
                    resource |-> a.resource, fixed |-> fixed,
                    routes |-> routes]
  <2>1. a.bgpvpn \in BgpvpnId /\ a.resource \in Port
    BY DEF TypeOK, PortAssoc
  <2>2. q \in Request
    BY <2>1 DEF PortUpdate, Request
  <2>3. req' \in [Worker -> {Idle} \cup Request]
    BY <1>4, <2>2, BeginRequest DEF BeginPortUpdate
  <2>. QED
    BY <1>4, <2>3 DEF BeginPortUpdate, TypeOK
<1>5. ASSUME NEW w \in Worker, CommitPortUpdate(w)
      PROVE  TypeOK'
  <2>1. req[w] \in PortUpdate
    BY <1>5, RequestShape DEF CommitPortUpdate
  <2>2. \A a \in portAssocs : UpdatedPortAssoc(a, req[w]) \in PortAssoc
    BY <2>1 DEF TypeOK, UpdatedPortAssoc, NewRoutes, PortUpdate, PortAssoc
  <2>3. portAssocs' \subseteq PortAssoc
    BY <1>5, <2>2 DEF CommitPortUpdate, TypeOK
  <2>. QED
    BY <1>5, <2>3, FinishRequest DEF CommitPortUpdate, TypeOK
<1>6. ASSUME NEW a \in portAssocs, DeletePortAssoc(a)
      PROVE  TypeOK'
  BY <1>6 DEF DeletePortAssoc, TypeOK
<1>. QED
  BY <1>1, <1>2, <1>3, <1>4, <1>5, <1>6 DEF PortAssocNext

LEMMA NeutronStepType == TypeOK /\ NeutronNext => TypeOK'
<1>. SUFFICES ASSUME TypeOK, NeutronNext PROVE TypeOK'
  OBVIOUS
<1>. USE DEF assocVars, neutronVars
<1>1. ASSUME NEW w \in Worker, NEW ctx \in Context, NEW r \in Router,
             NEW n \in Network, BeginInterface(w, ctx, r, n)
      PROVE  TypeOK'
  <2>. DEFINE q == [op |-> "interface", ctx |-> ctx, router |-> r,
                    network |-> n]
  <2>1. q \in Request
    BY DEF InterfaceRequest, Request
  <2>2. req' \in [Worker -> {Idle} \cup Request]
    BY <1>1, <2>1, BeginRequest DEF BeginInterface
  <2>. QED
    BY <1>1, <2>2 DEF BeginInterface, TypeOK
<1>2. ASSUME NEW w \in Worker, CommitInterface(w)
      PROVE  TypeOK'
  <2>1. req[w] \in InterfaceRequest
    BY <1>2, RequestShape DEF CommitInterface
  <2>2. interfaces' \subseteq Router \X Network
    BY <1>2, <2>1 DEF CommitInterface, InterfaceRequest, TypeOK
  <2>. QED
    BY <1>2, <2>2, FinishRequest DEF CommitInterface, TypeOK
<1>3. ASSUME NEW i \in interfaces, RemoveInterface(i)
      PROVE  TypeOK'
  BY <1>3 DEF RemoveInterface, TypeOK
<1>4. ASSUME NEW x \in resources, DeleteResource(x)
      PROVE  TypeOK'
  BY <1>4 DEF DeleteResource, WithoutResource, TypeOK
<1>. QED
  BY <1>1, <1>2, <1>3, <1>4 DEF NeutronNext

LEMMA TypeStep == TypeOK /\ [Next]_vars => TypeOK'
<1>. SUFFICES ASSUME TypeOK, [Next]_vars PROVE TypeOK'
  OBVIOUS
<1>1. CASE Next
  BY <1>1, RequestStepType, BgpvpnStepType, NetAssocStepType,
     RouterAssocStepType, PortAssocStepType, NeutronStepType DEF Next
<1>2. CASE UNCHANGED vars
  BY <1>2 DEF vars, TypeOK
<1>. QED
  BY <1>1, <1>2

\* Every reachable state is well typed.
THEOREM TypeCorrect == Spec => []TypeOK
<1>1. Init => TypeOK
  BY DEF Init, TypeOK
<1>. QED
  BY <1>1, TypeStep, PTL DEF Spec

-----------------------------------------------------------------------------
(***************************************************************************)
(* The identity of BGPVPNs.                                                *)
(***************************************************************************)

\* A BGPVPN that exists has a UUID that was given out.
LiveKnown == \A b \in BgpvpnId : Live(b) => b \in uuids

\* A UUID that was given out never names a BGPVPN again once its row is gone, and
\* the project and the type of the row do not change.
KeepIdentity ==
  \A b \in uuids :
    /\ b \in uuids'
    /\ bgpvpns'[b] # NoRow =>
         /\ Live(b)
         /\ bgpvpns'[b].project = bgpvpns[b].project
         /\ bgpvpns'[b].type = bgpvpns[b].type

LEMMA IdentityStep ==
  ASSUME TypeOK, LiveKnown, [Next]_vars
  PROVE  KeepIdentity /\ LiveKnown'
<1>. USE DEF KeepIdentity, LiveKnown, Live
<1>1. CASE UNCHANGED <<bgpvpns, uuids>>
  BY <1>1
<1>2. ASSUME NEW b \in BgpvpnId, NEW row \in Bgpvpn, CreateBgpvpn(b, row)
      PROVE  KeepIdentity /\ LiveKnown'
  BY <1>2 DEF CreateBgpvpn, TypeOK
<1>3. ASSUME NEW w \in Worker, CommitBgpvpnUpdate(w)
      PROVE  KeepIdentity /\ LiveKnown'
  <2>. DEFINE q == req[w]
              b == q.bgpvpn
  <2>1. q \in BgpvpnUpdate /\ b \in BgpvpnId
    BY <1>3, RequestShape DEF CommitBgpvpnUpdate, BgpvpnUpdate
  <2>2. bgpvpns[b] \in Bgpvpn
    BY <1>3, <2>1 DEF CommitBgpvpnUpdate, TypeOK
  <2>3. /\ UpdatedBgpvpn(bgpvpns[b], q) \in Bgpvpn
        /\ UpdatedBgpvpn(bgpvpns[b], q).project = bgpvpns[b].project
        /\ UpdatedBgpvpn(bgpvpns[b], q).type = bgpvpns[b].type
    BY <2>1, <2>2 DEF UpdatedBgpvpn, BgpvpnUpdate, Bgpvpn
  <2>4. bgpvpns' = [bgpvpns EXCEPT ![b] = UpdatedBgpvpn(bgpvpns[b], q)]
    BY <1>3 DEF CommitBgpvpnUpdate
  <2>. QED
    BY <1>3, <2>1, <2>2, <2>3, <2>4 DEF CommitBgpvpnUpdate, TypeOK
<1>4. ASSUME NEW b \in BgpvpnId, DeleteBgpvpn(b)
      PROVE  KeepIdentity /\ LiveKnown'
  BY <1>4 DEF DeleteBgpvpn, TypeOK
<1>5. BgpvpnNext =>
        \/ UNCHANGED <<bgpvpns, uuids>>
        \/ \E b \in BgpvpnId, row \in Bgpvpn : CreateBgpvpn(b, row)
        \/ \E w \in Worker : CommitBgpvpnUpdate(w)
        \/ \E b \in BgpvpnId : DeleteBgpvpn(b)
  BY DEF BgpvpnNext, BeginBgpvpnUpdate
<1>6. NetAssocNext \/ RouterAssocNext => UNCHANGED <<bgpvpns, uuids>>
  BY DEF NetAssocNext, BeginNetAssoc, CommitNetAssoc, DeleteNetAssoc,
         RouterAssocNext, BeginRouterAssoc, CommitRouterAssoc,
         UpdateRouterAssoc, DeleteRouterAssoc
<1>7. PortAssocNext \/ NeutronNext => UNCHANGED <<bgpvpns, uuids>>
  BY DEF PortAssocNext, BeginPortAssoc, ValidateRoutes, CommitPortAssoc,
         BeginPortUpdate, CommitPortUpdate, DeletePortAssoc, NeutronNext,
         BeginInterface, CommitInterface, RemoveInterface, DeleteResource
<1>8. (\E w \in Worker : ValidateBgpvpn(w) \/ Refuse(w)) \/ UNCHANGED vars
        => UNCHANGED <<bgpvpns, uuids>>
  BY DEF ValidateBgpvpn, Refuse, vars
<1>. QED
  BY <1>1, <1>2, <1>3, <1>4, <1>5, <1>6, <1>7, <1>8 DEF Next

-----------------------------------------------------------------------------
(***************************************************************************)
(* What requests have established stays true.                              *)
(***************************************************************************)

AssocsCorrect ==
  /\ ReferentialIntegrity
  /\ SameProject
  /\ RouterAssocsAreL3
  /\ RoutesStayInProject
  /\ OneAssocPerPair

\* The inductive invariant: associations are right because what the requests
\* that create them have validated cannot become false.
IInv ==
  /\ TypeOK
  /\ LiveKnown
  /\ AssocsCorrect
  /\ ValidationHolds

LEMMA RoutesAgreeStable ==
  ASSUME TypeOK, KeepIdentity, NEW routes, NEW b \in uuids, NEW project,
         RoutesAgree(routes, b, project)
  PROVE  RoutesAgree(routes, b, project)'
BY DEF TypeOK, KeepIdentity, RoutesAgree, Live

LEMMA VisibleStable ==
  ASSUME TypeOK, TypeOK', KeepIdentity, NEW b \in uuids, NEW ctx,
         Live(b) => b \in GetBgpvpns(ctx)
  PROVE  Live(b)' => b \in GetBgpvpns(ctx)'
BY DEF TypeOK, KeepIdentity, GetBgpvpns, Live, CanSee

LEMMA CreateStable ==
  ASSUME TypeOK, TypeOK', KeepIdentity, NEW q, CreateEstablished(q)
  PROVE  CreateEstablished(q)'
<1>1. q.bgpvpn \in uuids /\ q.bgpvpn \in uuids'
  BY DEF CreateEstablished, KeepIdentity
<1>2. (Live(q.bgpvpn) => BgpvpnAccepts(q))
        => (Live(q.bgpvpn)' => BgpvpnAccepts(q)')
  BY <1>1 DEF TypeOK, KeepIdentity, BgpvpnAccepts, GetBgpvpns, Live, CanSee
<1>3. RoutesAgree(q.routes, q.bgpvpn, q.project)
        => RoutesAgree(q.routes, q.bgpvpn, q.project)'
  BY <1>1, RoutesAgreeStable
<1>. QED
  BY <1>1, <1>2, <1>3 DEF CreateEstablished, CanSee

LEMMA PortUpdateStable ==
  ASSUME TypeOK, KeepIdentity, NEW q, PortUpdateEstablished(q)
  PROVE  PortUpdateEstablished(q)'
<1>1. q.bgpvpn \in uuids /\ q.bgpvpn \in uuids'
  BY DEF PortUpdateEstablished, KeepIdentity
<1>2. RoutesAgree(q.routes, q.bgpvpn, Owner[q.resource])
        => RoutesAgree(q.routes, q.bgpvpn, Owner[q.resource])'
  BY <1>1, RoutesAgreeStable
<1>. QED
  BY <1>1, <1>2 DEF PortUpdateEstablished, CanSee

\* A worker that does not move keeps what its request has established.
LEMMA BystanderStable ==
  ASSUME TypeOK, TypeOK', KeepIdentity, NEW v \in Worker, Established(v),
         req'[v] = req[v]
  PROVE  Established(v)'
<1>. DEFINE q == req[v]
<1>1. \A op : Serves(v, op)' <=> Serves(v, op)
  BY DEF Serves
<1>2. ASSUME NEW op \in {"net", "router", "port"}, Serves(v, op)
      PROVE  CreateEstablished(req[v])'
  <2>1. PICK x : x = req[v]
    OBVIOUS
  <2>2. CreateEstablished(x)
    BY <1>2, <2>1 DEF Established
  <2>3. CreateEstablished(x)'
    BY <2>2, CreateStable
  <2>. QED
    BY <2>1, <2>3 DEF CreateEstablished, BgpvpnAccepts
<1>3. ASSUME Serves(v, "port_update")
      PROVE  PortUpdateEstablished(req[v])'
  <2>1. PICK x : x = req[v]
    OBVIOUS
  <2>2. PortUpdateEstablished(x)
    BY <1>3, <2>1 DEF Established
  <2>3. PortUpdateEstablished(x)'
    BY <2>2, PortUpdateStable
  <2>. QED
    BY <2>1, <2>3 DEF PortUpdateEstablished
<1>4. ASSUME Serves(v, "bgpvpn_update")
      PROVE  /\ req'[v].bgpvpn \in uuids'
             /\ Live(req[v].bgpvpn)' =>
                  req'[v].bgpvpn \in GetBgpvpns(req[v].ctx)'
  <2>1. PICK b, ctx : b = req[v].bgpvpn /\ ctx = req[v].ctx
    OBVIOUS
  <2>2. b \in uuids /\ (Live(b) => b \in GetBgpvpns(ctx))
    BY <1>4, <2>1 DEF Established
  <2>3. b \in uuids' /\ (Live(b)' => b \in GetBgpvpns(ctx)')
    BY <2>2, VisibleStable DEF KeepIdentity
  <2>. QED
    BY <2>1, <2>3 DEF Live, GetBgpvpns, CanSee
<1>. QED
  BY <1>1, <1>2, <1>3, <1>4 DEF Established

\* A worker that has finished holds nothing.
LEMMA IdleEstablished ==
  ASSUME NEW w \in Worker, req'[w] = Idle
  PROVE  Established(w)'
BY DEF Established, Serves

-----------------------------------------------------------------------------
(***************************************************************************)
(* Each step leaves every worker with what its request has established.    *)
(***************************************************************************)

\* A request just begun has established what its action checked.
LEMMA BeginEstablished ==
  ASSUME IInv, NEW w \in Worker, NEW q \in Request, Begin(w, q),
         UNCHANGED <<bgpvpns, uuids>>,
         q.op \in {"net", "router", "port"} =>
           /\ q.validated = "resource"
           /\ q.bgpvpn \in uuids /\ CanSee(q.ctx, q.project),
         q.op = "port_update" => PortUpdateEstablished(q),
         q.op = "bgpvpn_update" =>
           q.bgpvpn \in uuids /\ q.bgpvpn \in GetBgpvpns(q.ctx)
  PROVE  Established(w)'
<1>1. req'[w] = q
  BY BeginRequest DEF IInv
<1>2. q.op \in {"net", "router", "port"} => CreateEstablished(q)'
  BY DEF CreateEstablished, CanSee
<1>3. q.op = "port_update" => PortUpdateEstablished(q)'
  BY DEF PortUpdateEstablished, RoutesAgree, CanSee, Live
<1>4. q.op = "bgpvpn_update" =>
        q.bgpvpn \in uuids' /\ q.bgpvpn \in GetBgpvpns(q.ctx)'
  BY DEF GetBgpvpns, Live, CanSee
<1>5. CreateEstablished(q)' => CreateEstablished(req[w])'
  BY <1>1 DEF CreateEstablished, BgpvpnAccepts
<1>6. PortUpdateEstablished(q)' => PortUpdateEstablished(req[w])'
  BY <1>1 DEF PortUpdateEstablished
<1>7. /\ req[w].op' = q.op
      /\ req[w].bgpvpn' = q.bgpvpn
      /\ GetBgpvpns(req[w].ctx)' = GetBgpvpns(q.ctx)'
  BY <1>1 DEF GetBgpvpns
<1>. QED
  BY <1>2, <1>3, <1>4, <1>5, <1>6, <1>7 DEF Established, Serves

\* The request that validates its BGPVPN.
LEMMA BgpvpnValidated ==
  ASSUME IInv, NEW w \in Worker, ValidateBgpvpn(w)
  PROVE  Established(w)'
<1>. DEFINE q == [req[w] EXCEPT !.validated = "bgpvpn"]
<1>1. \/ Serves(w, "net") \/ Serves(w, "router") \/ Serves(w, "port")
  BY DEF ValidateBgpvpn, Validated
<1>2. req'[w] = q /\ UNCHANGED <<bgpvpns, uuids>>
  BY <1>1, AdvanceRequest DEF ValidateBgpvpn, IInv
<1>3. req[w] \in NetRequest \cup RouterRequest \cup PortRequest
  BY <1>1, RequestShape DEF IInv
<1>4. /\ q.op = req[w].op /\ q.ctx = req[w].ctx /\ q.project = req[w].project
      /\ q.bgpvpn = req[w].bgpvpn /\ q.resource = req[w].resource
      /\ q.validated = "bgpvpn"
      /\ q.op \in {"net", "router", "port"}
  BY <1>3 DEF NetRequest, RouterRequest, PortRequest
<1>5. CreateEstablished(req[w]) /\ BgpvpnAccepts(req[w])
  BY <1>1 DEF IInv, ValidationHolds, Established, ValidateBgpvpn
<1>6. BgpvpnAccepts(req[w])'
  BY <1>2, <1>4, <1>5 DEF BgpvpnAccepts, GetBgpvpns, Live, CanSee
<1>7. CreateEstablished(req[w])'
  BY <1>2, <1>4, <1>5, <1>6 DEF CreateEstablished, CanSee
<1>. QED
  BY <1>2, <1>4, <1>7 DEF Established, Serves

\* The request of a port association that validates its routes.
LEMMA RoutesValidated ==
  ASSUME IInv, NEW w \in Worker, ValidateRoutes(w)
  PROVE  Established(w)'
<1>. DEFINE q == [req[w] EXCEPT !.validated = "routes"]
<1>1. Serves(w, "port") /\ req[w].validated = "bgpvpn"
  BY DEF ValidateRoutes, Validated
<1>2. req'[w] = q /\ UNCHANGED <<bgpvpns, uuids>>
  BY <1>1, AdvanceRequest DEF ValidateRoutes, IInv
<1>3. req[w] \in PortRequest
  BY <1>1, RequestShape DEF IInv
<1>4. /\ q.op = "port" /\ q.ctx = req[w].ctx /\ q.project = req[w].project
      /\ q.bgpvpn = req[w].bgpvpn /\ q.resource = req[w].resource
      /\ q.routes = req[w].routes
      /\ q.validated = "routes" /\ req[w].op = "port"
  BY <1>3 DEF PortRequest
<1>5. CreateEstablished(req[w])
  BY <1>1 DEF IInv, ValidationHolds, Established
<1>6. Live(req[w].bgpvpn) => BgpvpnAccepts(req[w])
  BY <1>1, <1>5 DEF CreateEstablished
<1>7. Live(req[w].bgpvpn)' => BgpvpnAccepts(req[w])'
  BY <1>2, <1>4, <1>6 DEF BgpvpnAccepts, GetBgpvpns, Live, CanSee
<1>8. RoutesAgree(req[w].routes, req[w].bgpvpn, req[w].project)
  BY DEF ValidateRoutes, RoutesAllowed, RoutesAgree, GetBgpvpns, IInv, LiveKnown
<1>9. RoutesAgree(req[w].routes, req[w].bgpvpn, req[w].project)'
  BY <1>2, <1>4, <1>8 DEF RoutesAgree, Live
<1>10. CreateEstablished(req[w])'
  BY <1>2, <1>4, <1>5, <1>7, <1>9 DEF CreateEstablished, CanSee
<1>. QED
  BY <1>2, <1>4, <1>10 DEF Established, Serves

\* The update of a port association that starts on one of its rows.
LEMMA PortUpdateValidated ==
  ASSUME IInv, NEW ctx \in Context, NEW a \in portAssocs,
         NEW fixed, NEW routes,
         CanSee(ctx, a.project),
         routes # Absent => RoutesAllowed(ctx, routes, a.bgpvpn, a.project)
  PROVE  PortUpdateEstablished([op |-> "port_update", ctx |-> ctx,
                                bgpvpn |-> a.bgpvpn, resource |-> a.resource,
                                fixed |-> fixed, routes |-> routes])
<1>1. a.project = Owner[a.resource] /\ Live(a.bgpvpn)
  BY DEF IInv, AssocsCorrect, SameProject, ReferentialIntegrity, Assocs
<1>2. a.bgpvpn \in uuids
  BY <1>1 DEF IInv, LiveKnown, TypeOK, PortAssoc
<1>3. routes # Absent => RoutesAgree(routes, a.bgpvpn, a.project)
  BY DEF RoutesAllowed, RoutesAgree, GetBgpvpns, IInv, LiveKnown
<1>. QED
  BY <1>1, <1>2, <1>3 DEF PortUpdateEstablished

\* A step that at most one worker takes part in.
LEMMA OneWorkerStep ==
  ASSUME IInv, [Next]_vars, NEW w \in Worker, Established(w)',
         \A v \in Worker \ {w} : req'[v] = req[v]
  PROVE  ValidationHolds'
<1>1. TypeOK' /\ KeepIdentity
  BY TypeStep, IdentityStep DEF IInv
<1>2. ASSUME NEW v \in Worker, v # w
      PROVE  Established(v)'
  BY <1>1, <1>2, BystanderStable DEF IInv, ValidationHolds
<1>. QED
  BY <1>2 DEF ValidationHolds

\* A worker is done with its request, in whatever way.
LEMMA FinishValidation ==
  ASSUME IInv, [Next]_vars, NEW w \in Worker, Finish(w)
  PROVE  ValidationHolds'
BY FinishRequest, IdleEstablished, OneWorkerStep DEF IInv

\* A step no worker takes part in.
LEMMA NoWorkerStep ==
  ASSUME IInv, [Next]_vars, UNCHANGED req
  PROVE  ValidationHolds'
<1>1. TypeOK' /\ KeepIdentity
  BY TypeStep, IdentityStep DEF IInv
<1>2. ASSUME NEW v \in Worker
      PROVE  Established(v)'
  BY <1>1, BystanderStable DEF IInv, ValidationHolds
<1>. QED
  BY <1>2 DEF ValidationHolds

LEMMA ValidationStep == IInv /\ [Next]_vars => ValidationHolds'
<1>. SUFFICES ASSUME IInv, [Next]_vars PROVE ValidationHolds'
  OBVIOUS
<1>. USE DEF assocVars, neutronVars
<1>0. CASE UNCHANGED vars
  BY <1>0, NoWorkerStep DEF vars
<1>1. ASSUME NEW w \in Worker, ValidateBgpvpn(w) \/ ValidateRoutes(w)
      PROVE  ValidationHolds'
  <2>1. Established(w)'
    BY <1>1, BgpvpnValidated, RoutesValidated
  <2>2. \/ Serves(w, "port") /\ (Advance(w, "bgpvpn") \/ Advance(w, "routes"))
        \/ /\ Serves(w, "net") \/ Serves(w, "router")
           /\ Advance(w, "bgpvpn")
    BY <1>1 DEF ValidateBgpvpn, ValidateRoutes, Validated
  <2>3. \A v \in Worker \ {w} : req'[v] = req[v]
    BY <2>2, AdvanceRequest DEF IInv
  <2>. QED
    BY <2>1, <2>3, OneWorkerStep
<1>2. ASSUME NEW w \in Worker,
             \/ Refuse(w) \/ CommitBgpvpnUpdate(w) \/ CommitNetAssoc(w)
             \/ CommitRouterAssoc(w) \/ CommitPortAssoc(w)
             \/ CommitPortUpdate(w) \/ CommitInterface(w)
      PROVE  ValidationHolds'
  BY <1>2, FinishValidation
  DEF Refuse, CommitBgpvpnUpdate, CommitNetAssoc, CommitRouterAssoc,
      CommitPortAssoc, CommitPortUpdate, CommitInterface
<1>3. ASSUME NEW w \in Worker, NEW ctx \in Context, NEW b \in BgpvpnId,
             NEW name \in Name \cup {Absent}, NEW rt \in RT \cup {Absent},
             BeginBgpvpnUpdate(w, ctx, b, name, rt)
      PROVE  ValidationHolds'
  <2>. DEFINE q == [op |-> "bgpvpn_update", ctx |-> ctx, bgpvpn |-> b,
                    old |-> bgpvpns[b], name |-> name, rt |-> rt]
  <2>1. bgpvpns[b] \in Bgpvpn /\ b \in uuids /\ b \in GetBgpvpns(ctx)
    BY <1>3 DEF BeginBgpvpnUpdate, GetBgpvpns, Live, TypeOK, LiveKnown, IInv
  <2>2. q \in Request
    BY <2>1 DEF BgpvpnUpdate, Request
  <2>3. Begin(w, q) /\ UNCHANGED <<bgpvpns, uuids>>
    BY <1>3 DEF BeginBgpvpnUpdate
  <2>4. Established(w)'
    BY <2>1, <2>2, <2>3, BeginEstablished
  <2>. QED
    BY <2>2, <2>3, <2>4, BeginRequest, OneWorkerStep DEF IInv
<1>4. ASSUME NEW w \in Worker, NEW ctx \in Context, NEW project \in Project,
             NEW b \in BgpvpnId, NEW n \in Network,
             BeginNetAssoc(w, ctx, project, b, n)
      PROVE  ValidationHolds'
  <2>. DEFINE q == [op |-> "net", validated |-> "resource", ctx |-> ctx,
                    project |-> project, bgpvpn |-> b, resource |-> n]
  <2>1. q \in Request
    BY DEF NetRequest, Request
  <2>2. Begin(w, q) /\ UNCHANGED <<bgpvpns, uuids>>
    BY <1>4 DEF BeginNetAssoc
  <2>3. b \in uuids /\ CanSee(ctx, project)
    BY <1>4 DEF BeginNetAssoc
  <2>4. Established(w)'
    BY <2>1, <2>2, <2>3, BeginEstablished
  <2>. QED
    BY <2>1, <2>2, <2>4, BeginRequest, OneWorkerStep DEF IInv
<1>5. ASSUME NEW w \in Worker, NEW ctx \in Context, NEW project \in Project,
             NEW b \in BgpvpnId, NEW r \in Router,
             BeginRouterAssoc(w, ctx, project, b, r)
      PROVE  ValidationHolds'
  <2>. DEFINE q == [op |-> "router", validated |-> "resource", ctx |-> ctx,
                    project |-> project, bgpvpn |-> b, resource |-> r]
  <2>1. q \in Request
    BY DEF RouterRequest, Request
  <2>2. Begin(w, q) /\ UNCHANGED <<bgpvpns, uuids>>
    BY <1>5 DEF BeginRouterAssoc
  <2>3. b \in uuids /\ CanSee(ctx, project)
    BY <1>5 DEF BeginRouterAssoc
  <2>4. Established(w)'
    BY <2>1, <2>2, <2>3, BeginEstablished
  <2>. QED
    BY <2>1, <2>2, <2>4, BeginRequest, OneWorkerStep DEF IInv
<1>6. ASSUME NEW w \in Worker, NEW ctx \in Context, NEW project \in Project,
             NEW b \in BgpvpnId, NEW p \in Port, NEW fixed \in Advertise,
             NEW routes \in SUBSET Route,
             BeginPortAssoc(w, ctx, project, b, p, fixed, routes)
      PROVE  ValidationHolds'
  <2>. DEFINE q == [op |-> "port", validated |-> "resource", ctx |-> ctx,
                    project |-> project, bgpvpn |-> b, resource |-> p,
                    fixed |-> fixed, routes |-> routes]
  <2>1. q \in Request
    BY DEF PortRequest, Request
  <2>2. Begin(w, q) /\ UNCHANGED <<bgpvpns, uuids>>
    BY <1>6 DEF BeginPortAssoc
  <2>3. b \in uuids /\ CanSee(ctx, project)
    BY <1>6 DEF BeginPortAssoc
  <2>4. Established(w)'
    BY <2>1, <2>2, <2>3, BeginEstablished
  <2>. QED
    BY <2>1, <2>2, <2>4, BeginRequest, OneWorkerStep DEF IInv
<1>7. ASSUME NEW w \in Worker, NEW ctx \in Context, NEW a \in portAssocs,
             NEW fixed \in Advertise \cup {Absent},
             NEW routes \in {Absent} \cup SUBSET Route,
             BeginPortUpdate(w, ctx, a, fixed, routes)
      PROVE  ValidationHolds'
  <2>. DEFINE q == [op |-> "port_update", ctx |-> ctx, bgpvpn |-> a.bgpvpn,
                    resource |-> a.resource, fixed |-> fixed,
                    routes |-> routes]
  <2>1. q \in Request
    BY DEF PortUpdate, Request, IInv, TypeOK, PortAssoc
  <2>2. Begin(w, q) /\ UNCHANGED <<bgpvpns, uuids>>
    BY <1>7 DEF BeginPortUpdate
  <2>3. PortUpdateEstablished(q)
    BY <1>7, PortUpdateValidated DEF BeginPortUpdate
  <2>4. Established(w)'
    BY <2>1, <2>2, <2>3, BeginEstablished
  <2>. QED
    BY <2>1, <2>2, <2>4, BeginRequest, OneWorkerStep DEF IInv
<1>8. ASSUME NEW w \in Worker, NEW ctx \in Context, NEW r \in Router,
             NEW n \in Network, BeginInterface(w, ctx, r, n)
      PROVE  ValidationHolds'
  <2>. DEFINE q == [op |-> "interface", ctx |-> ctx, router |-> r,
                    network |-> n]
  <2>1. q \in Request
    BY DEF InterfaceRequest, Request
  <2>2. Begin(w, q) /\ UNCHANGED <<bgpvpns, uuids>>
    BY <1>8 DEF BeginInterface
  <2>3. Established(w)'
    BY <2>1, <2>2, BeginEstablished
  <2>. QED
    BY <2>1, <2>2, <2>3, BeginRequest, OneWorkerStep DEF IInv
<1>9. ASSUME \/ \E b \in BgpvpnId, row \in Bgpvpn : CreateBgpvpn(b, row)
             \/ \E b \in BgpvpnId : DeleteBgpvpn(b)
             \/ \E a \in netAssocs : DeleteNetAssoc(a)
             \/ \E a \in routerAssocs, extra \in Advertise :
                  UpdateRouterAssoc(a, extra)
             \/ \E a \in routerAssocs : DeleteRouterAssoc(a)
             \/ \E a \in portAssocs : DeletePortAssoc(a)
             \/ \E i \in interfaces : RemoveInterface(i)
             \/ \E x \in resources : DeleteResource(x)
      PROVE  ValidationHolds'
  BY <1>9, NoWorkerStep
  DEF CreateBgpvpn, DeleteBgpvpn, DeleteNetAssoc, UpdateRouterAssoc,
      DeleteRouterAssoc, DeletePortAssoc, RemoveInterface, DeleteResource
<1>. QED
  BY <1>0, <1>1, <1>2, <1>3, <1>4, <1>5, <1>6, <1>7, <1>8, <1>9
  DEF Next, BgpvpnNext, NetAssocNext, RouterAssocNext, PortAssocNext,
      NeutronNext

-----------------------------------------------------------------------------
(***************************************************************************)
(* Each step leaves every association right.                               *)
(***************************************************************************)

\* An association that is right, whatever its table.
RowCorrect(a) ==
  /\ Live(a.bgpvpn) /\ a.resource \in resources
  /\ a.project = bgpvpns[a.bgpvpn].project
  /\ a.project = Owner[a.resource]

L3Correct(a) == bgpvpns[a.bgpvpn].type = "l3"

RoutesCorrect(a) ==
  \A x \in a.routes \cap BgpvpnId :
    /\ Live(x)
    /\ bgpvpns[x].project = a.project
    /\ bgpvpns[x].type = bgpvpns[a.bgpvpn].type

\* Associations are right when each of them is, and no two are of one pair.
AllRowsCorrect ==
  /\ \A a \in Assocs : RowCorrect(a)
  /\ \A a \in routerAssocs : L3Correct(a)
  /\ \A a \in portAssocs : RoutesCorrect(a)
  /\ OneAssocPerPair

LEMMA AssocsByRow ==
  /\ AssocsCorrect <=> AllRowsCorrect
  /\ AssocsCorrect' <=> AllRowsCorrect'
BY DEF AllRowsCorrect, AssocsCorrect, ReferentialIntegrity, SameProject, RouterAssocsAreL3,
       RoutesStayInProject, RowCorrect, L3Correct, RoutesCorrect, CanRoute

\* A row stays right while its BGPVPN, its resource and the BGPVPNs of its routes
\* exist.
LEMMA RowStable ==
  ASSUME IInv, KeepIdentity, NEW a
  PROVE  /\ RowCorrect(a) /\ a.bgpvpn \in BgpvpnId /\ Live(a.bgpvpn)'
              /\ a.resource \in resources'
                => RowCorrect(a)'
         /\ L3Correct(a) /\ a.bgpvpn \in BgpvpnId /\ Live(a.bgpvpn)
              /\ Live(a.bgpvpn)'
                => L3Correct(a)'
         /\ RoutesCorrect(a) /\ a.bgpvpn \in BgpvpnId /\ Live(a.bgpvpn)
              /\ Live(a.bgpvpn)'
              /\ (\A x \in a.routes \cap BgpvpnId : Live(x)')
                => RoutesCorrect(a)'
BY DEF IInv, LiveKnown, KeepIdentity, RowCorrect, L3Correct, RoutesCorrect, Live

\* The rows a step leaves in the tables stay right when no BGPVPN and no resource
\* goes.
LEMMA FewerRowsStep ==
  ASSUME IInv, KeepIdentity,
         netAssocs' \subseteq netAssocs,
         routerAssocs' \subseteq routerAssocs,
         portAssocs' \subseteq portAssocs,
         \A b \in BgpvpnId : Live(b) => Live(b)',
         \A a \in Assocs' : a.resource \in resources'
  PROVE  AssocsCorrect'
<1>1. \A a \in Assocs : a.bgpvpn \in BgpvpnId
  BY DEF IInv, TypeOK, Assocs, NetAssoc, RouterAssoc, PortAssoc
<1>2. /\ \A a \in Assocs : RowCorrect(a) /\ Live(a.bgpvpn)
      /\ \A a \in routerAssocs : L3Correct(a)
      /\ \A a \in portAssocs : RoutesCorrect(a)
  BY AssocsByRow DEF IInv, AllRowsCorrect, RowCorrect
<1>3. Assocs' \subseteq Assocs
  BY DEF Assocs
<1>4. \A a \in Assocs' : RowCorrect(a)'
  BY <1>1, <1>2, <1>3, RowStable
<1>5. \A a \in routerAssocs' : L3Correct(a)'
  BY <1>1, <1>2, RowStable DEF Assocs
<1>6. \A a \in portAssocs' : \A x \in a.routes \cap BgpvpnId : Live(x)'
  BY <1>2 DEF RoutesCorrect
<1>7. \A a \in portAssocs' : RoutesCorrect(a)'
  BY <1>1, <1>2, <1>6, RowStable DEF Assocs
<1>8. OneAssocPerPair'
  BY DEF IInv, AssocsCorrect, OneAssocPerPair
<1>. QED
  BY <1>4, <1>5, <1>7, <1>8, AssocsByRow DEF AllRowsCorrect

\* The rows of the tables, taken one by one.
LEMMA EachRow ==
  ASSUME IInv
  PROVE  /\ \A a \in Assocs :
              /\ RowCorrect(a)
              /\ a.bgpvpn \in BgpvpnId /\ a.bgpvpn \in uuids
         /\ \A a \in routerAssocs : L3Correct(a)
         /\ \A a \in portAssocs : RoutesCorrect(a)
         /\ OneAssocPerPair
<1>1. AllRowsCorrect
  BY AssocsByRow DEF IInv
<1>2. \A a \in Assocs : a.bgpvpn \in BgpvpnId
  BY DEF IInv, TypeOK, Assocs, NetAssoc, RouterAssoc, PortAssoc
<1>. QED
  BY <1>1, <1>2 DEF AllRowsCorrect, RowCorrect, IInv, LiveKnown

\* All that a BGPVPN takes along when it is deleted.
LEMMA DeleteBgpvpnStep ==
  ASSUME IInv, KeepIdentity, NEW b \in BgpvpnId, DeleteBgpvpn(b)
  PROVE  AssocsCorrect'
<1>1. UNCHANGED resources /\ \A x \in BgpvpnId \ {b} : Live(x) => Live(x)'
  BY DEF DeleteBgpvpn, neutronVars, Live, IInv, TypeOK
<1>2. netAssocs' \cup routerAssocs' \subseteq {a \in Assocs : a.bgpvpn # b}
  BY DEF DeleteBgpvpn, WithoutBgpvpn, Assocs
<1>3. \A a \in netAssocs' \cup routerAssocs' : RowCorrect(a)'
  BY <1>1, <1>2, EachRow, RowStable DEF RowCorrect
<1>4. \A a \in routerAssocs' : L3Correct(a)'
  BY <1>1, <1>2, EachRow, RowStable DEF RowCorrect, DeleteBgpvpn, WithoutBgpvpn
<1>5. ASSUME NEW a \in portAssocs'
      PROVE  RowCorrect(a)' /\ RoutesCorrect(a)'
  <2>1. PICK c \in portAssocs : c.bgpvpn # b /\ a = [c EXCEPT !.routes = @ \ {b}]
    BY DEF DeleteBgpvpn, WithoutRoutesTo, WithoutBgpvpn
  <2>2. c \in Assocs /\ c \in PortAssoc
    BY DEF Assocs, IInv, TypeOK
  <2>3. /\ a.bgpvpn = c.bgpvpn /\ a.resource = c.resource
        /\ a.project = c.project /\ a.routes = c.routes \ {b}
    BY <2>1, <2>2 DEF PortAssoc
  <2>4. RowCorrect(a) /\ RoutesCorrect(a)
    BY <2>2, <2>3, EachRow DEF RowCorrect, RoutesCorrect
  <2>5. \A x \in a.routes \cap BgpvpnId : Live(x)'
    BY <1>1, <2>3, <2>4 DEF RoutesCorrect
  <2>6. a.bgpvpn \in BgpvpnId \ {b}
    BY <2>1, <2>2, <2>3, EachRow
  <2>. QED
    BY <1>1, <2>4, <2>5, <2>6, RowStable DEF RowCorrect
<1>6. OneAssocPerPair'
  <2>1. ASSUME NEW a1 \in portAssocs', NEW a2 \in portAssocs',
               <<a1.bgpvpn, a1.resource>> = <<a2.bgpvpn, a2.resource>>
        PROVE  a1 = a2
    <3>1. PICK c1 \in portAssocs : a1 = [c1 EXCEPT !.routes = @ \ {b}]
      BY DEF DeleteBgpvpn, WithoutRoutesTo, WithoutBgpvpn
    <3>2. PICK c2 \in portAssocs : a2 = [c2 EXCEPT !.routes = @ \ {b}]
      BY DEF DeleteBgpvpn, WithoutRoutesTo, WithoutBgpvpn
    <3>3. c1 \in PortAssoc /\ c2 \in PortAssoc
      BY DEF IInv, TypeOK
    <3>4. c1 = c2
      BY <2>1, <3>1, <3>2, <3>3, EachRow DEF OneAssocPerPair, PortAssoc
    <3>. QED
      BY <3>1, <3>2, <3>4
  <2>2. netAssocs' \subseteq netAssocs /\ routerAssocs' \subseteq routerAssocs
    BY DEF DeleteBgpvpn, WithoutBgpvpn
  <2>. QED
    BY <2>1, <2>2, EachRow DEF OneAssocPerPair
<1>. QED
  BY <1>3, <1>4, <1>5, <1>6, AssocsByRow DEF AllRowsCorrect, Assocs

\* All that a network, router or port takes along.
LEMMA DeleteResourceStep ==
  ASSUME IInv, KeepIdentity, NEW x \in resources, DeleteResource(x)
  PROVE  AssocsCorrect'
<1>1. /\ netAssocs' \subseteq netAssocs
      /\ routerAssocs' \subseteq routerAssocs
      /\ portAssocs' \subseteq portAssocs
      /\ \A b \in BgpvpnId : Live(b) => Live(b)'
  BY DEF DeleteResource, WithoutResource, Live
<1>2. \A a \in Assocs' : a \in Assocs /\ a.resource # x
  BY DEF DeleteResource, WithoutResource, Assocs
<1>3. \A a \in Assocs' : a.resource \in resources'
  BY <1>2, EachRow DEF RowCorrect, DeleteResource
<1>. QED
  BY <1>1, <1>3, FewerRowsStep

\* What a create request that commits has established of its row.
LEMMA CreateChecked ==
  ASSUME IInv, NEW w \in Worker,
         \/ Validated(w, "net", "bgpvpn") \/ Validated(w, "router", "bgpvpn")
         \/ Validated(w, "port", "routes"),
         Live(req[w].bgpvpn)
  PROVE  BgpvpnAccepts(req[w])
<1>1. CreateEstablished(req[w])
  BY DEF IInv, ValidationHolds, Established, Validated
<1>2. req[w].validated # "resource"
  BY DEF Validated
<1>. QED
  BY <1>1, <1>2 DEF CreateEstablished

\* The row a create request inserts is right.
LEMMA InsertedRow ==
  ASSUME IInv, NEW q, q.bgpvpn \in BgpvpnId, BgpvpnAccepts(q),
         q.resource \in resources, UNCHANGED <<bgpvpns, resources>>,
         NEW a, a.bgpvpn = q.bgpvpn, a.resource = q.resource,
         a.project = q.project
  PROVE  RowCorrect(a)' /\ (q.op = "router" => L3Correct(a)')
BY DEF BgpvpnAccepts, GetBgpvpns, RowCorrect, L3Correct, Live

\* Rows that stay where they are while no BGPVPN and no resource goes.
LEMMA KeptRows ==
  ASSUME IInv, KeepIdentity, UNCHANGED <<bgpvpns, resources>>
  PROVE  /\ \A a \in Assocs : RowCorrect(a)'
         /\ \A a \in routerAssocs : L3Correct(a)'
         /\ \A a \in portAssocs : RoutesCorrect(a)'
BY EachRow DEF RowCorrect, L3Correct, RoutesCorrect, Live

LEMMA CommitNetStep ==
  ASSUME IInv, KeepIdentity, NEW w \in Worker, CommitNetAssoc(w)
  PROVE  AssocsCorrect'
<1>0. PICK q, a : /\ q = req[w]
                  /\ a = [bgpvpn |-> q.bgpvpn, resource |-> q.resource,
                          project |-> q.project]
  OBVIOUS
<1>1. q \in NetRequest
  BY <1>0, RequestShape DEF IInv, CommitNetAssoc, Validated
<1>2. /\ CanInsert(netAssocs, q) /\ netAssocs' = netAssocs \cup {a}
      /\ UNCHANGED <<bgpvpns, resources, routerAssocs, portAssocs>>
  BY <1>0 DEF CommitNetAssoc, neutronVars
<1>3. BgpvpnAccepts(q)
  BY <1>0, <1>2, CreateChecked DEF CommitNetAssoc, CanInsert
<1>4. RowCorrect(a)'
  BY <1>0, <1>1, <1>2, <1>3, InsertedRow DEF CanInsert, NetRequest
<1>5. OneAssocPerPair'
  BY <1>0, <1>2, EachRow DEF OneAssocPerPair, CanInsert
<1>. QED
  BY <1>2, <1>4, <1>5, KeptRows, AssocsByRow DEF AllRowsCorrect, Assocs

LEMMA CommitRouterStep ==
  ASSUME IInv, KeepIdentity, NEW w \in Worker, CommitRouterAssoc(w)
  PROVE  AssocsCorrect'
<1>0. PICK q, a : /\ q = req[w]
                  /\ a = [bgpvpn |-> q.bgpvpn, resource |-> q.resource,
                          project |-> q.project, extra |-> Default]
  OBVIOUS
<1>1. q \in RouterRequest
  BY <1>0, RequestShape DEF IInv, CommitRouterAssoc, Validated
<1>2. /\ CanInsert(routerAssocs, q) /\ routerAssocs' = routerAssocs \cup {a}
      /\ UNCHANGED <<bgpvpns, resources, netAssocs, portAssocs>>
  BY <1>0 DEF CommitRouterAssoc, neutronVars
<1>3. BgpvpnAccepts(q)
  BY <1>0, <1>2, CreateChecked DEF CommitRouterAssoc, CanInsert
<1>4. RowCorrect(a)' /\ L3Correct(a)'
  BY <1>0, <1>1, <1>2, <1>3, InsertedRow DEF CanInsert, RouterRequest
<1>5. OneAssocPerPair'
  BY <1>0, <1>2, EachRow DEF OneAssocPerPair, CanInsert
<1>. QED
  BY <1>2, <1>4, <1>5, KeptRows, AssocsByRow DEF AllRowsCorrect, Assocs

LEMMA CommitPortStep ==
  ASSUME IInv, KeepIdentity, NEW w \in Worker, CommitPortAssoc(w)
  PROVE  AssocsCorrect'
<1>0. PICK q, a : /\ q = req[w]
                  /\ a = [bgpvpn |-> q.bgpvpn, resource |-> q.resource,
                          project |-> q.project, fixed |-> q.fixed,
                          routes |-> q.routes]
  OBVIOUS
<1>1. q \in PortRequest
  BY <1>0, RequestShape DEF IInv, CommitPortAssoc, Validated
<1>2. /\ CanInsert(portAssocs, q) /\ CanRoute(q.routes)
      /\ portAssocs' = portAssocs \cup {a}
      /\ UNCHANGED <<bgpvpns, resources, netAssocs, routerAssocs>>
  BY <1>0 DEF CommitPortAssoc, neutronVars
<1>3. BgpvpnAccepts(q)
  BY <1>0, <1>2, CreateChecked DEF CommitPortAssoc, CanInsert
<1>4. RowCorrect(a)'
  BY <1>0, <1>1, <1>2, <1>3, InsertedRow DEF CanInsert, PortRequest
<1>5. RoutesAgree(q.routes, q.bgpvpn, q.project)
  BY <1>0 DEF IInv, ValidationHolds, Established, CreateEstablished, CommitPortAssoc,
         Validated, Serves
<1>6. RoutesCorrect(a)'
  BY <1>0, <1>2, <1>5 DEF RoutesAgree, RoutesCorrect, CanRoute, CanInsert, Live
<1>7. OneAssocPerPair'
  BY <1>0, <1>2, EachRow DEF OneAssocPerPair, CanInsert
<1>. QED
  BY <1>2, <1>4, <1>6, <1>7, KeptRows, AssocsByRow DEF AllRowsCorrect, Assocs

LEMMA CommitPortUpdateStep ==
  ASSUME IInv, KeepIdentity, NEW w \in Worker, CommitPortUpdate(w)
  PROVE  AssocsCorrect'
<1>0. PICK q : q = req[w]
  OBVIOUS
<1>1. q \in PortUpdate
  BY <1>0, RequestShape DEF IInv, CommitPortUpdate
<1>2. PICK c \in portAssocs :
        /\ c.bgpvpn = q.bgpvpn /\ c.resource = q.resource
        /\ portAssocs' = (portAssocs \ {c}) \cup {UpdatedPortAssoc(c, q)}
  BY <1>0 DEF CommitPortUpdate
<1>3. /\ CanRoute(NewRoutes(q))
      /\ UNCHANGED <<bgpvpns, resources, netAssocs, routerAssocs>>
  BY <1>0 DEF CommitPortUpdate, neutronVars
<1>a. PICK a : a = UpdatedPortAssoc(c, q)
  OBVIOUS
<1>4. c \in PortAssoc /\ c \in Assocs
  BY DEF IInv, TypeOK, Assocs
<1>5. /\ a.bgpvpn = c.bgpvpn /\ a.resource = c.resource
      /\ a.project = c.project /\ a.routes = NewRoutes(q)
  BY <1>a, <1>4 DEF UpdatedPortAssoc, PortAssoc
<1>6. RowCorrect(a)'
  BY <1>3, <1>4, <1>5, KeptRows DEF RowCorrect, Live
<1>7. PortUpdateEstablished(q)
  BY <1>0 DEF IInv, ValidationHolds, Established, CommitPortUpdate
<1>8. RoutesAgree(NewRoutes(q), c.bgpvpn, c.project)
  <2>1. CASE q.routes = Absent
    BY <2>1 DEF NewRoutes, RoutesAgree
  <2>2. CASE q.routes # Absent
    BY <1>2, <1>4, <1>7, <2>2, EachRow
    DEF NewRoutes, PortUpdateEstablished, RowCorrect
  <2>. QED
    BY <2>1, <2>2
<1>9. RoutesCorrect(a)'
  BY <1>3, <1>4, <1>5, <1>8, EachRow
  DEF RoutesAgree, RoutesCorrect, CanRoute, RowCorrect, Live
<1>10. OneAssocPerPair'
  BY <1>a, <1>2, <1>3, <1>5, EachRow DEF OneAssocPerPair
<1>. QED
  BY <1>a, <1>2, <1>3, <1>6, <1>9, <1>10, KeptRows, AssocsByRow
  DEF AllRowsCorrect, Assocs

LEMMA UpdateRouterStep ==
  ASSUME IInv, KeepIdentity, NEW c \in routerAssocs, NEW extra \in Advertise,
         UpdateRouterAssoc(c, extra)
  PROVE  AssocsCorrect'
<1>0. PICK a : a = [c EXCEPT !.extra = extra]
  OBVIOUS
<1>1. c \in RouterAssoc /\ c \in Assocs
  BY DEF IInv, TypeOK, Assocs
<1>2. a.bgpvpn = c.bgpvpn /\ a.resource = c.resource /\ a.project = c.project
  BY <1>0, <1>1 DEF RouterAssoc
<1>3. /\ routerAssocs' = (routerAssocs \ {c}) \cup {a}
      /\ UNCHANGED <<bgpvpns, resources, netAssocs, portAssocs>>
  BY <1>0 DEF UpdateRouterAssoc, neutronVars
<1>4. RowCorrect(a)' /\ L3Correct(a)'
  BY <1>1, <1>2, <1>3, KeptRows DEF RowCorrect, L3Correct, Live
<1>5. OneAssocPerPair'
  BY <1>2, <1>3, EachRow DEF OneAssocPerPair
<1>. QED
  BY <1>3, <1>4, <1>5, KeptRows, AssocsByRow DEF AllRowsCorrect, Assocs

LEMMA AssocsStep == IInv /\ [Next]_vars => AssocsCorrect'
<1>. SUFFICES ASSUME IInv, [Next]_vars PROVE AssocsCorrect'
  OBVIOUS
<1>. USE DEF assocVars, neutronVars
<1>0. KeepIdentity
  BY IdentityStep DEF IInv
<1>1. CASE UNCHANGED <<bgpvpns, netAssocs, routerAssocs, portAssocs, resources>>
  BY <1>0, <1>1, FewerRowsStep, EachRow DEF Assocs, RowCorrect, Live
<1>2. ASSUME NEW b \in BgpvpnId, NEW row \in Bgpvpn, CreateBgpvpn(b, row)
      PROVE  AssocsCorrect'
  <2>1. \A c \in BgpvpnId : Live(c) => Live(c)'
    BY <1>2, NoRowAssumption DEF CreateBgpvpn, Live, IInv, TypeOK
  <2>. QED
    BY <1>0, <1>2, <2>1, FewerRowsStep, EachRow
    DEF CreateBgpvpn, Assocs, RowCorrect
<1>3. ASSUME NEW w \in Worker, CommitBgpvpnUpdate(w)
      PROVE  AssocsCorrect'
  <2>1. PICK q : q = req[w] /\ q \in BgpvpnUpdate
    BY <1>3, RequestShape DEF CommitBgpvpnUpdate, IInv
  <2>2. bgpvpns[q.bgpvpn] \in Bgpvpn
    BY <1>3, <2>1 DEF CommitBgpvpnUpdate, Live, IInv, TypeOK, BgpvpnUpdate
  <2>3. UpdatedBgpvpn(bgpvpns[q.bgpvpn], q) \in Bgpvpn
    BY <2>1, <2>2 DEF UpdatedBgpvpn, BgpvpnUpdate, Bgpvpn
  <2>4. bgpvpns' = [bgpvpns EXCEPT ![q.bgpvpn] =
                      UpdatedBgpvpn(bgpvpns[q.bgpvpn], q)]
    BY <1>3, <2>1 DEF CommitBgpvpnUpdate
  <2>5. \A c \in BgpvpnId : Live(c) => Live(c)'
    BY <2>3, <2>4, NoRowAssumption DEF Live, IInv, TypeOK
  <2>. QED
    BY <1>0, <1>3, <2>5, FewerRowsStep, EachRow
    DEF CommitBgpvpnUpdate, Assocs, RowCorrect
<1>4. ASSUME \/ \E a \in netAssocs : DeleteNetAssoc(a)
             \/ \E a \in routerAssocs : DeleteRouterAssoc(a)
             \/ \E a \in portAssocs : DeletePortAssoc(a)
      PROVE  AssocsCorrect'
  <2>1. /\ netAssocs' \subseteq netAssocs
        /\ routerAssocs' \subseteq routerAssocs
        /\ portAssocs' \subseteq portAssocs
        /\ UNCHANGED <<bgpvpns, resources>>
    BY <1>4 DEF DeleteNetAssoc, DeleteRouterAssoc, DeletePortAssoc
  <2>. QED
    BY <1>0, <2>1, FewerRowsStep, EachRow DEF Assocs, RowCorrect, Live
<1>5. BgpvpnNext =>
        \/ UNCHANGED <<bgpvpns, netAssocs, routerAssocs, portAssocs, resources>>
        \/ \E b \in BgpvpnId, row \in Bgpvpn : CreateBgpvpn(b, row)
        \/ \E w \in Worker : CommitBgpvpnUpdate(w)
        \/ \E b \in BgpvpnId : DeleteBgpvpn(b)
  BY DEF BgpvpnNext, BeginBgpvpnUpdate
<1>6. NetAssocNext =>
        \/ UNCHANGED <<bgpvpns, netAssocs, routerAssocs, portAssocs, resources>>
        \/ \E w \in Worker : CommitNetAssoc(w)
        \/ \E a \in netAssocs : DeleteNetAssoc(a)
  BY DEF NetAssocNext, BeginNetAssoc
<1>7. RouterAssocNext =>
        \/ UNCHANGED <<bgpvpns, netAssocs, routerAssocs, portAssocs, resources>>
        \/ \E w \in Worker : CommitRouterAssoc(w)
        \/ \E a \in routerAssocs, extra \in Advertise :
             UpdateRouterAssoc(a, extra)
        \/ \E a \in routerAssocs : DeleteRouterAssoc(a)
  BY DEF RouterAssocNext, BeginRouterAssoc
<1>8. PortAssocNext =>
        \/ UNCHANGED <<bgpvpns, netAssocs, routerAssocs, portAssocs, resources>>
        \/ \E w \in Worker : CommitPortAssoc(w)
        \/ \E w \in Worker : CommitPortUpdate(w)
        \/ \E a \in portAssocs : DeletePortAssoc(a)
  BY DEF PortAssocNext, BeginPortAssoc, ValidateRoutes, BeginPortUpdate
<1>9. NeutronNext =>
        \/ UNCHANGED <<bgpvpns, netAssocs, routerAssocs, portAssocs, resources>>
        \/ \E x \in resources : DeleteResource(x)
  BY DEF NeutronNext, BeginInterface, CommitInterface, RemoveInterface
<1>10. (\E w \in Worker : ValidateBgpvpn(w) \/ Refuse(w)) \/ UNCHANGED vars =>
         UNCHANGED <<bgpvpns, netAssocs, routerAssocs, portAssocs, resources>>
  BY DEF ValidateBgpvpn, Refuse, vars
<1>. QED
  BY <1>0, <1>1, <1>2, <1>3, <1>4, <1>5, <1>6, <1>7, <1>8, <1>9, <1>10,
     DeleteBgpvpnStep, DeleteResourceStep, CommitNetStep, CommitRouterStep,
     CommitPortStep, CommitPortUpdateStep, UpdateRouterStep
  DEF Next

\* Requests that decide in one transaction and write in another keep the tables
\* as right as if they did both at once.
THEOREM InvariantCorrect == Spec => []IInv
<1>1. Init => IInv
  <2>. SUFFICES ASSUME Init PROVE IInv
    OBVIOUS
  <2>1. TypeOK /\ LiveKnown
    BY DEF Init, TypeOK, LiveKnown, Live
  <2>2. AssocsCorrect
    BY DEF Init, AssocsCorrect, ReferentialIntegrity, SameProject,
           RouterAssocsAreL3, RoutesStayInProject, OneAssocPerPair, Assocs
  <2>3. ValidationHolds
    BY DEF Init, ValidationHolds, Established, Serves
  <2>. QED
    BY <2>1, <2>2, <2>3 DEF IInv
<1>2. IInv /\ [Next]_vars => IInv'
  BY TypeStep, IdentityStep, AssocsStep, ValidationStep DEF IInv
<1>. QED
  BY <1>1, <1>2, PTL DEF Spec

\* Everything an association refers to exists.
THEOREM ReferentialIntegrityCorrect == Spec => []ReferentialIntegrity
<1>1. IInv => ReferentialIntegrity
  BY DEF IInv, AssocsCorrect
<1>. QED
  BY <1>1, InvariantCorrect, PTL

\* There is one association of each BGPVPN and network, router or port.
THEOREM OneAssocPerPairCorrect == Spec => []OneAssocPerPair
<1>1. IInv => OneAssocPerPair
  BY DEF IInv, AssocsCorrect
<1>. QED
  BY <1>1, InvariantCorrect, PTL

\* Associations, their BGPVPNs and their resources are of one project.
THEOREM SameProjectCorrect == Spec => []SameProject
<1>1. IInv => SameProject
  BY DEF IInv, AssocsCorrect
<1>. QED
  BY <1>1, InvariantCorrect, PTL

\* Routers are bound to BGPVPNs of type l3 only.
THEOREM RouterAssocsAreL3Correct == Spec => []RouterAssocsAreL3
<1>1. IInv => RouterAssocsAreL3
  BY DEF IInv, AssocsCorrect
<1>. QED
  BY <1>1, InvariantCorrect, PTL

\* Routes are leaked within a project and a type of BGPVPN only.
THEOREM RoutesStayInProjectCorrect == Spec => []RoutesStayInProject
<1>1. IInv => RoutesStayInProject
  BY DEF IInv, AssocsCorrect
<1>. QED
  BY <1>1, InvariantCorrect, PTL

\* What a request has validated stays true until it commits.
THEOREM ValidationHoldsCorrect == Spec => []ValidationHolds
<1>1. IInv => ValidationHolds
  BY DEF IInv
<1>. QED
  BY <1>1, InvariantCorrect, PTL

-----------------------------------------------------------------------------
(***************************************************************************)
(* What the step that ends a request changes.                              *)
(***************************************************************************)

\* A step that changes the row of a BGPVPN that stays is an update of it.
LEMMA UpdatesKept == IInv /\ [Next]_vars => KeepUpdates
<1>. SUFFICES ASSUME IInv, [Next]_vars PROVE KeepUpdates
  OBVIOUS
<1>1. CASE UNCHANGED bgpvpns
  BY <1>1 DEF KeepUpdates
<1>2. ASSUME NEW b \in BgpvpnId, NEW row \in Bgpvpn, CreateBgpvpn(b, row)
      PROVE  KeepUpdates
  BY <1>2 DEF CreateBgpvpn, KeepUpdates, IInv, LiveKnown, TypeOK
<1>3. ASSUME NEW w \in Worker, CommitBgpvpnUpdate(w)
      PROVE  KeepUpdates
  <2>1. PICK q : q = req[w] /\ q \in BgpvpnUpdate
    BY <1>3, RequestShape DEF CommitBgpvpnUpdate, IInv
  <2>2. bgpvpns[q.bgpvpn] \in Bgpvpn /\ q.bgpvpn \in BgpvpnId
    BY <1>3, <2>1 DEF CommitBgpvpnUpdate, Live, IInv, TypeOK, BgpvpnUpdate
  <2>3. PICK row : row = UpdatedBgpvpn(bgpvpns[q.bgpvpn], q)
    OBVIOUS
  <2>4. /\ row.name \in {bgpvpns[q.bgpvpn].name, q.name}
        /\ row.rt \in {bgpvpns[q.bgpvpn].rt, q.rt}
        /\ row.project = bgpvpns[q.bgpvpn].project
        /\ row.type = bgpvpns[q.bgpvpn].type
    BY <2>1, <2>2, <2>3 DEF UpdatedBgpvpn, Bgpvpn
  <2>5. bgpvpns' = [bgpvpns EXCEPT ![q.bgpvpn] = row]
    BY <1>3, <2>1, <2>3 DEF CommitBgpvpnUpdate
  <2>6. Serves(w, "bgpvpn_update") /\ req'[w] = Idle
    BY <1>3, FinishRequest DEF CommitBgpvpnUpdate, IInv
  <2>. QED
    BY <2>1, <2>2, <2>4, <2>5, <2>6 DEF KeepUpdates, IInv, TypeOK
<1>4. ASSUME NEW b \in BgpvpnId, DeleteBgpvpn(b)
      PROVE  KeepUpdates
  BY <1>4 DEF DeleteBgpvpn, KeepUpdates, IInv, TypeOK
<1>5. BgpvpnNext =>
        \/ UNCHANGED bgpvpns
        \/ \E b \in BgpvpnId, row \in Bgpvpn : CreateBgpvpn(b, row)
        \/ \E w \in Worker : CommitBgpvpnUpdate(w)
        \/ \E b \in BgpvpnId : DeleteBgpvpn(b)
  BY DEF BgpvpnNext, BeginBgpvpnUpdate
<1>6. NetAssocNext \/ RouterAssocNext => UNCHANGED bgpvpns
  BY DEF NetAssocNext, BeginNetAssoc, CommitNetAssoc, DeleteNetAssoc,
         RouterAssocNext, BeginRouterAssoc, CommitRouterAssoc,
         UpdateRouterAssoc, DeleteRouterAssoc
<1>7. PortAssocNext \/ NeutronNext => UNCHANGED bgpvpns
  BY DEF PortAssocNext, BeginPortAssoc, ValidateRoutes, CommitPortAssoc,
         BeginPortUpdate, CommitPortUpdate, DeletePortAssoc, NeutronNext,
         BeginInterface, CommitInterface, RemoveInterface, DeleteResource
<1>8. (\E w \in Worker : ValidateBgpvpn(w) \/ Refuse(w)) \/ UNCHANGED vars
        => UNCHANGED bgpvpns
  BY DEF ValidateBgpvpn, Refuse, vars
<1>. QED
  BY <1>1, <1>2, <1>3, <1>4, <1>5, <1>6, <1>7, <1>8 DEF Next

\* An update of a BGPVPN writes what its body carries and nothing else.
THEOREM NoLostUpdateCorrect == Spec => NoLostUpdate
<1>1. IInv /\ [Next]_vars => [KeepUpdates]_vars
  BY UpdatesKept
<1>. QED
  BY <1>1, InvariantCorrect, PTL DEF Spec, NoLostUpdate

\* The request of worker w commits.
Commits(w) ==
  \/ CommitBgpvpnUpdate(w) \/ CommitNetAssoc(w) \/ CommitRouterAssoc(w)
  \/ CommitPortAssoc(w) \/ CommitPortUpdate(w) \/ CommitInterface(w)

\* A request that begins, or that validates one thing more, ends no request, and
\* a worker ends no request but its own.
LEMMA NoOtherEnds ==
  ASSUME TypeOK, NEW v \in Worker, NEW w \in Worker, Ends(w)
  PROVE  /\ \A q : ~ Begin(v, q)
         /\ ~ ValidateBgpvpn(v) /\ ~ ValidateRoutes(v)
         /\ Finish(v) => v = w
<1>1. ASSUME NEW q, Begin(v, q) PROVE FALSE
  BY <1>1 DEF Begin, Ends, TypeOK
<1>2. ASSUME ValidateBgpvpn(v) \/ ValidateRoutes(v) PROVE FALSE
  <2>1. \/ Serves(v, "port") /\ (Advance(v, "bgpvpn") \/ Advance(v, "routes"))
        \/ /\ Serves(v, "net") \/ Serves(v, "router")
           /\ Advance(v, "bgpvpn")
    BY <1>2 DEF ValidateBgpvpn, ValidateRoutes, Validated
  <2>2. req'[v] \in Request /\ \A u \in Worker \ {v} : req'[u] = req[u]
    BY <2>1, AdvanceRequest
  <2>. QED
    BY <2>2, IdleAssumption DEF Ends
<1>3. Finish(v) => v = w
  BY FinishRequest DEF Ends
<1>. QED
  BY <1>1, <1>2, <1>3

\* Only its commit ends a request, or its refusal.
LEMMA EndsByCommit ==
  ASSUME IInv, [Next]_vars, NEW w \in Worker, Ends(w)
  PROVE  Refuse(w) \/ Commits(w)
<1>0. TypeOK
  BY DEF IInv
<1>1. \A v \in Worker :
        /\ \A q : ~ Begin(v, q)
        /\ ~ ValidateBgpvpn(v) /\ ~ ValidateRoutes(v)
        /\ Finish(v) => v = w
  BY <1>0, NoOtherEnds
<1>2. ~ UNCHANGED req
  BY DEF Ends
<1>3. \A v \in Worker : Refuse(v) => Refuse(w)
  BY <1>1 DEF Refuse
<1>4. BgpvpnNext => CommitBgpvpnUpdate(w)
  BY <1>1, <1>2
  DEF BgpvpnNext, CreateBgpvpn, BeginBgpvpnUpdate, CommitBgpvpnUpdate,
      DeleteBgpvpn
<1>5. NetAssocNext => CommitNetAssoc(w)
  BY <1>1, <1>2
  DEF NetAssocNext, BeginNetAssoc, CommitNetAssoc, DeleteNetAssoc
<1>6. RouterAssocNext => CommitRouterAssoc(w)
  BY <1>1, <1>2
  DEF RouterAssocNext, BeginRouterAssoc, CommitRouterAssoc, UpdateRouterAssoc,
      DeleteRouterAssoc
<1>7. PortAssocNext => CommitPortAssoc(w) \/ CommitPortUpdate(w)
  BY <1>1, <1>2
  DEF PortAssocNext, BeginPortAssoc, CommitPortAssoc, BeginPortUpdate,
      CommitPortUpdate, DeletePortAssoc
<1>8. NeutronNext => CommitInterface(w)
  BY <1>1, <1>2
  DEF NeutronNext, BeginInterface, CommitInterface, RemoveInterface,
      DeleteResource
<1>. QED
  BY <1>1, <1>2, <1>3, <1>4, <1>5, <1>6, <1>7, <1>8 DEF Next, vars, Commits

\* A create request of a tenant is for an association of that tenant.
LEMMA CreateOwn ==
  ASSUME IInv, NEW w \in Worker,
         Serves(w, "net") \/ Serves(w, "router") \/ Serves(w, "port"),
         req[w].ctx # Admin
  PROVE  req[w].project = req[w].ctx
BY DEF IInv, ValidationHolds, Established, CreateEstablished, CanSee

\* A row that a tenant's update of a port association replaces is that tenant's.
LEMMA PortUpdateOwn ==
  ASSUME IInv, NEW w \in Worker, CommitPortUpdate(w), req[w].ctx # Admin
  PROVE  \A a \in Changed(portAssocs, portAssocs') : a.project = req[w].ctx
<1>1. PICK q : q = req[w]
  OBVIOUS
<1>2. PICK c \in portAssocs :
        /\ c.bgpvpn = q.bgpvpn /\ c.resource = q.resource
        /\ portAssocs' = (portAssocs \ {c}) \cup {UpdatedPortAssoc(c, q)}
  BY <1>1 DEF CommitPortUpdate
<1>3. c \in PortAssoc /\ c \in Assocs
  BY DEF IInv, TypeOK, Assocs
<1>4. UpdatedPortAssoc(c, q).project = c.project
  BY <1>3 DEF UpdatedPortAssoc, PortAssoc
<1>5. CanSee(q.ctx, Owner[q.resource])
  BY <1>1
  DEF IInv, ValidationHolds, Established, PortUpdateEstablished,
      CommitPortUpdate
<1>6. c.project = q.ctx
  BY <1>1, <1>2, <1>3, <1>5, EachRow DEF RowCorrect, CanSee
<1>. QED
  BY <1>1, <1>2, <1>4, <1>6 DEF Changed

LEMMA CommitsOwn ==
  ASSUME IInv, NEW w \in Worker, Refuse(w) \/ Commits(w), req[w].ctx # Admin
  PROVE  OwnRowsOnly(w)
<1>. USE DEF OwnRowsOnly, Changed, assocVars, neutronVars
<1>1. CASE UNCHANGED <<bgpvpns, assocVars>>
  BY <1>1
<1>2. CASE CommitBgpvpnUpdate(w)
  <2>1. PICK q : q = req[w] /\ q \in BgpvpnUpdate
    BY <1>2, RequestShape DEF CommitBgpvpnUpdate, IInv
  <2>2. bgpvpns[q.bgpvpn].project = q.ctx
    BY <1>2, <2>1
    DEF IInv, ValidationHolds, Established, CommitBgpvpnUpdate, GetBgpvpns,
        CanSee
  <2>3. \A b \in BgpvpnId : b # q.bgpvpn => bgpvpns'[b] = bgpvpns[b]
    BY <1>2, <2>1 DEF CommitBgpvpnUpdate, IInv, TypeOK
  <2>4. UNCHANGED assocVars
    BY <1>2 DEF CommitBgpvpnUpdate
  <2>. QED
    BY <2>1, <2>2, <2>3, <2>4
<1>3. CASE CommitNetAssoc(w)
  <2>1. PICK a : /\ a = [bgpvpn |-> req[w].bgpvpn,
                         resource |-> req[w].resource,
                         project |-> req[w].project]
    OBVIOUS
  <2>2. a.project = req[w].ctx
    BY <1>3, <2>1, CreateOwn DEF CommitNetAssoc, Validated
  <2>. QED
    BY <1>3, <2>1, <2>2 DEF CommitNetAssoc
<1>4. CASE CommitRouterAssoc(w)
  <2>1. PICK a : a = [bgpvpn |-> req[w].bgpvpn, resource |-> req[w].resource,
                      project |-> req[w].project, extra |-> Default]
    OBVIOUS
  <2>2. a.project = req[w].ctx
    BY <1>4, <2>1, CreateOwn DEF CommitRouterAssoc, Validated
  <2>. QED
    BY <1>4, <2>1, <2>2 DEF CommitRouterAssoc
<1>5. CASE CommitPortAssoc(w)
  <2>1. PICK a : a = [bgpvpn |-> req[w].bgpvpn, resource |-> req[w].resource,
                      project |-> req[w].project, fixed |-> req[w].fixed,
                      routes |-> req[w].routes]
    OBVIOUS
  <2>2. a.project = req[w].ctx
    BY <1>5, <2>1, CreateOwn DEF CommitPortAssoc, Validated
  <2>. QED
    BY <1>5, <2>1, <2>2 DEF CommitPortAssoc
<1>6. CASE CommitPortUpdate(w)
  BY <1>6, PortUpdateOwn DEF CommitPortUpdate
<1>7. Refuse(w) \/ CommitInterface(w) => UNCHANGED <<bgpvpns, assocVars>>
  BY DEF Refuse, CommitInterface
<1>. QED
  BY <1>1, <1>2, <1>3, <1>4, <1>5, <1>6, <1>7 DEF Commits

\* A tenant's request writes only rows of that tenant.
THEOREM TenantIsolationCorrect == Spec => TenantIsolation
<1>1. IInv /\ [Next]_vars => [TouchOwnRows]_vars
  BY EndsByCommit, CommitsOwn DEF TouchOwnRows
<1>. QED
  BY <1>1, InvariantCorrect, PTL DEF Spec, TenantIsolation

-----------------------------------------------------------------------------
(***************************************************************************)
(* The plugin implements the store without concurrency: a commit is the    *)
(* operation of the store, every other step of a request is a stutter.     *)
(***************************************************************************)

LEMMA StoreUpdate ==
  ASSUME IInv, NEW w \in Worker, CommitBgpvpnUpdate(w)
  PROVE  \E b \in BgpvpnId, row \in Bgpvpn : Store!Update(b, row)
<1>1. PICK q : q = req[w] /\ q \in BgpvpnUpdate
  BY RequestShape DEF CommitBgpvpnUpdate, IInv
<1>2. PICK b \in BgpvpnId : b = q.bgpvpn
  BY <1>1 DEF BgpvpnUpdate
<1>3. bgpvpns[b] # NoRow /\ bgpvpns[b] \in Bgpvpn
  BY <1>1, <1>2 DEF CommitBgpvpnUpdate, Live, IInv, TypeOK
<1>4. PICK row \in Bgpvpn : row = UpdatedBgpvpn(bgpvpns[b], q)
  BY <1>1, <1>3 DEF UpdatedBgpvpn, BgpvpnUpdate, Bgpvpn
<1>5. row.project = bgpvpns[b].project /\ row.type = bgpvpns[b].type
  BY <1>1, <1>3, <1>4 DEF UpdatedBgpvpn, Bgpvpn
<1>6. /\ bgpvpns' = [bgpvpns EXCEPT ![b] = row]
      /\ UNCHANGED <<uuids, netAssocs, routerAssocs, portAssocs, resources>>
  BY <1>1, <1>2, <1>4 DEF CommitBgpvpnUpdate, assocVars, neutronVars
<1>. QED
  BY <1>3, <1>5, <1>6 DEF Store!Update, Store!Exists

LEMMA StoreAddNet ==
  ASSUME IInv, NEW w \in Worker, CommitNetAssoc(w)
  PROVE  \E b \in BgpvpnId, n \in Network : Store!AddNet(b, n)
<1>1. PICK q : q = req[w] /\ q \in NetRequest
  BY RequestShape DEF CommitNetAssoc, Validated, IInv
<1>2. PICK b \in BgpvpnId, n \in Network : b = q.bgpvpn /\ n = q.resource
  BY <1>1 DEF NetRequest
<1>3. CanInsert(netAssocs, q)
  BY <1>1 DEF CommitNetAssoc
<1>4. Owner[n] = bgpvpns[b].project /\ q.project = Owner[n]
  BY <1>1, <1>2, <1>3, CreateChecked
  DEF CommitNetAssoc, CanInsert, BgpvpnAccepts
<1>5. Store!MayAssociate(netAssocs, b, n)
  BY <1>2, <1>3, <1>4 DEF CanInsert, Live, Store!MayAssociate, Store!Exists
<1>. QED
  BY <1>1, <1>2, <1>4, <1>5
  DEF CommitNetAssoc, neutronVars, Store!AddNet

LEMMA StoreAddRouter ==
  ASSUME IInv, NEW w \in Worker, CommitRouterAssoc(w)
  PROVE  \E b \in BgpvpnId, r \in Router : Store!AddRouter(b, r)
<1>1. PICK q : q = req[w] /\ q \in RouterRequest
  BY RequestShape DEF CommitRouterAssoc, Validated, IInv
<1>2. PICK b \in BgpvpnId, r \in Router : b = q.bgpvpn /\ r = q.resource
  BY <1>1 DEF RouterRequest
<1>3. CanInsert(routerAssocs, q)
  BY <1>1 DEF CommitRouterAssoc
<1>4. /\ Owner[r] = bgpvpns[b].project /\ q.project = Owner[r]
      /\ bgpvpns[b].type = "l3"
  BY <1>1, <1>2, <1>3, CreateChecked
  DEF CommitRouterAssoc, CanInsert, BgpvpnAccepts, RouterRequest
<1>5. Store!MayAssociate(routerAssocs, b, r)
  BY <1>2, <1>3, <1>4 DEF CanInsert, Live, Store!MayAssociate, Store!Exists
<1>. QED
  BY <1>1, <1>2, <1>4, <1>5
  DEF CommitRouterAssoc, neutronVars, Store!AddRouter

LEMMA StoreAddPort ==
  ASSUME IInv, NEW w \in Worker, CommitPortAssoc(w)
  PROVE  \E b \in BgpvpnId, p \in Port, fixed \in Advertise,
            routes \in SUBSET (Prefix \cup BgpvpnId) :
           Store!AddPort(b, p, fixed, routes)
<1>1. PICK q : q = req[w] /\ q \in PortRequest
  BY RequestShape DEF CommitPortAssoc, Validated, IInv
<1>2. PICK b \in BgpvpnId, p \in Port, fixed \in Advertise,
           routes \in SUBSET (Prefix \cup BgpvpnId) :
        b = q.bgpvpn /\ p = q.resource /\ fixed = q.fixed /\ routes = q.routes
  BY <1>1 DEF PortRequest, Route
<1>3. CanInsert(portAssocs, q) /\ CanRoute(routes)
  BY <1>1, <1>2 DEF CommitPortAssoc
<1>4. Owner[p] = bgpvpns[b].project /\ q.project = Owner[p]
  BY <1>1, <1>2, <1>3, CreateChecked
  DEF CommitPortAssoc, CanInsert, BgpvpnAccepts
<1>5. Store!MayAssociate(portAssocs, b, p)
  BY <1>2, <1>3, <1>4 DEF CanInsert, Live, Store!MayAssociate, Store!Exists
<1>6. RoutesAgree(routes, b, q.project)
  BY <1>1, <1>2
  DEF IInv, ValidationHolds, Established, CreateEstablished, CommitPortAssoc,
      Validated, Serves
<1>7. Store!MayLeak(routes, b)
  BY <1>2, <1>3, <1>4, <1>6
  DEF RoutesAgree, CanRoute, CanInsert, Live, Store!MayLeak, Store!Exists
<1>. QED
  BY <1>1, <1>2, <1>4, <1>5, <1>7
  DEF CommitPortAssoc, neutronVars, Store!AddPort

LEMMA StoreChangePort ==
  ASSUME IInv, NEW w \in Worker, CommitPortUpdate(w)
  PROVE  \E a \in portAssocs, fixed \in Advertise,
            routes \in SUBSET (Prefix \cup BgpvpnId) :
           Store!ChangePort(a, fixed, routes)
<1>1. PICK q : q = req[w] /\ q \in PortUpdate
  BY RequestShape DEF CommitPortUpdate, IInv
<1>2. PICK a \in portAssocs :
        /\ a.bgpvpn = q.bgpvpn /\ a.resource = q.resource
        /\ portAssocs' = (portAssocs \ {a}) \cup {UpdatedPortAssoc(a, q)}
  BY <1>1 DEF CommitPortUpdate
<1>3. a \in PortAssoc /\ a \in Assocs
  BY DEF IInv, TypeOK, Assocs
<1>4. PICK fixed \in Advertise : fixed = IF q.fixed = Absent THEN a.fixed ELSE q.fixed
  BY <1>1, <1>3 DEF PortAssoc, PortUpdate
<1>5. PICK routes \in SUBSET (Prefix \cup BgpvpnId) : routes = NewRoutes(q)
  BY <1>1 DEF PortUpdate, NewRoutes, Route
<1>6. UpdatedPortAssoc(a, q) = [a EXCEPT !.fixed = fixed, !.routes = routes]
  BY <1>3, <1>4, <1>5 DEF UpdatedPortAssoc, PortAssoc
<1>7. PortUpdateEstablished(q)
  BY <1>1 DEF IInv, ValidationHolds, Established, CommitPortUpdate
<1>8. RowCorrect(a) /\ CanRoute(routes)
  BY <1>1, <1>3, <1>5, EachRow DEF CommitPortUpdate
<1>9. RoutesAgree(routes, a.bgpvpn, a.project)
  <2>1. CASE q.routes = Absent
    BY <1>5, <2>1 DEF NewRoutes, RoutesAgree
  <2>2. CASE q.routes # Absent
    BY <1>2, <1>5, <1>7, <1>8, <2>2
    DEF NewRoutes, PortUpdateEstablished, RowCorrect
  <2>. QED
    BY <2>1, <2>2
<1>10. Store!MayLeak(routes, a.bgpvpn)
  BY <1>8, <1>9
  DEF RowCorrect, RoutesAgree, CanRoute, Live, Store!MayLeak, Store!Exists
<1>. QED
  BY <1>2, <1>6, <1>10 DEF CommitPortUpdate, neutronVars, Store!ChangePort

LEMMA StoreStep ==
  IInv /\ [Next]_vars => [Store!StoreNext]_(Store!storeVars)
<1>. SUFFICES ASSUME IInv, [Next]_vars
              PROVE  Store!StoreNext \/ UNCHANGED Store!storeVars
  OBVIOUS
<1>. USE DEF Store!StoreNext, Store!storeVars, assocVars, neutronVars
<1>1. CASE UNCHANGED <<bgpvpns, uuids, assocVars, resources>>
  BY <1>1
<1>2. CASE BgpvpnNext
  <2>1. ASSUME NEW b \in BgpvpnId, NEW row \in Bgpvpn, CreateBgpvpn(b, row)
        PROVE  Store!Create(b, row)
    BY <2>1 DEF CreateBgpvpn, Store!Create
  <2>2. ASSUME NEW b \in BgpvpnId, DeleteBgpvpn(b)
        PROVE  Store!Delete(b)
    BY <2>2 DEF DeleteBgpvpn, WithoutBgpvpn, WithoutRoutesTo, Live,
                Store!Delete, Store!Exists
  <2>. QED
    BY <1>1, <1>2, <2>1, <2>2, StoreUpdate DEF BgpvpnNext, BeginBgpvpnUpdate
<1>3. CASE NetAssocNext
  <2>1. ASSUME NEW a \in netAssocs, DeleteNetAssoc(a)
        PROVE  Store!RemoveNet(a)
    BY <2>1 DEF DeleteNetAssoc, Store!RemoveNet
  <2>. QED
    BY <1>1, <1>3, <2>1, StoreAddNet DEF NetAssocNext, BeginNetAssoc
<1>4. CASE RouterAssocNext
  <2>1. ASSUME NEW a \in routerAssocs, NEW extra \in Advertise,
               UpdateRouterAssoc(a, extra)
        PROVE  Store!ChangeRouter(a, extra)
    BY <2>1 DEF UpdateRouterAssoc, Store!ChangeRouter
  <2>2. ASSUME NEW a \in routerAssocs, DeleteRouterAssoc(a)
        PROVE  Store!RemoveRouter(a)
    BY <2>2 DEF DeleteRouterAssoc, Store!RemoveRouter
  <2>. QED
    BY <1>1, <1>4, <2>1, <2>2, StoreAddRouter
    DEF RouterAssocNext, BeginRouterAssoc
<1>5. CASE PortAssocNext
  <2>1. ASSUME NEW a \in portAssocs, DeletePortAssoc(a)
        PROVE  Store!RemovePort(a)
    BY <2>1 DEF DeletePortAssoc, Store!RemovePort
  <2>2. ASSUME NEW w \in Worker, CommitPortAssoc(w) \/ CommitPortUpdate(w)
        PROVE  Store!StoreNext
    <3>1. CASE CommitPortAssoc(w)
      BY <3>1, StoreAddPort DEF Route
    <3>2. CASE CommitPortUpdate(w)
      BY <3>2, StoreChangePort DEF Route
    <3>. QED
      BY <2>2, <3>1, <3>2
  <2>3. CASE \E w \in Worker, ctx \in Context, project \in Project,
             b \in BgpvpnId, p \in Port, fixed \in Advertise,
             routes \in SUBSET Route :
               BeginPortAssoc(w, ctx, project, b, p, fixed, routes)
    BY <2>3, <1>1 DEF BeginPortAssoc
  <2>4. CASE \E w \in Worker : ValidateRoutes(w)
    BY <2>4, <1>1 DEF ValidateRoutes
  <2>5. CASE \E w \in Worker, ctx \in Context, a \in portAssocs,
             fixed \in Advertise \cup {Absent},
             routes \in {Absent} \cup SUBSET Route :
               BeginPortUpdate(w, ctx, a, fixed, routes)
    BY <2>5, <1>1 DEF BeginPortUpdate
  <2>6. CASE \E a \in portAssocs : DeletePortAssoc(a)
    BY <2>6, <2>1
  <2>. QED
    <3>. HIDE DEF Store!StoreNext, Store!storeVars, assocVars, neutronVars
    <3>. QED
      BY <1>5, <2>2, <2>3, <2>4, <2>5, <2>6 DEF PortAssocNext
<1>6. CASE NeutronNext
  <2>1. ASSUME NEW x \in resources, DeleteResource(x)
        PROVE  Store!Vanish(x)
    BY <2>1 DEF DeleteResource, WithoutResource, Store!Vanish
  <2>. QED
    BY <1>1, <1>6, <2>1
    DEF NeutronNext, BeginInterface, CommitInterface, RemoveInterface
<1>7. (\E w \in Worker : ValidateBgpvpn(w) \/ Refuse(w)) \/ UNCHANGED vars =>
        UNCHANGED <<bgpvpns, uuids, assocVars, resources>>
  BY DEF ValidateBgpvpn, Refuse, vars
<1>. QED
  BY <1>1, <1>2, <1>3, <1>4, <1>5, <1>6, <1>7 DEF Next

\* Requests that decide in one transaction and write in another change the tables
\* as operations that do both at once.
THEOREM StoreCorrect == Spec => StoreSpec
<1>1. Init => Store!StoreInit
  BY DEF Init, Resource, Store!StoreInit
<1>. QED
  BY <1>1, StoreStep, InvariantCorrect, PTL DEF Spec, StoreSpec, Store!StoreSpec

=============================================================================
