-------------------------- MODULE BagpipeV1Proofs --------------------------
(***************************************************************************)
(* Theorems about BagpipeV1: types, what ports hold that are to hold       *)
(* nothing, and what the others hold when the work on a BGPVPN is done.    *)
(***************************************************************************)
EXTENDS BagpipeV1, FiniteSetTheorems, TLAPS

-----------------------------------------------------------------------------
(***************************************************************************)
(* The inductive invariants.                                               *)
(***************************************************************************)

\* What any worker has left to send.
Todo == UNION {job[w].left : w \in {v \in Worker : job[v] # Idle}}

IsRpc(s) == s.kind \in RpcKinds
IsAbout(s, b, n) == IsRpc(s) /\ s.bgpvpn = b /\ s.network = n

\* Requests are on the BGPVPNs of their RPCs.
OnItsBgpvpns ==
  \A w \in Worker : job[w] # Idle =>
    \A s \in job[w].left : IsRpc(s) => s.bgpvpn \in job[w].on

GatewaysAreFinite == \A n \in Network : IsFiniteSet(GatewaysOf(n))

TInv == TypeOK /\ OnItsBgpvpns /\ GatewaysAreFinite

\* Nothing is ever done for a port that is ignored, and what the agent of a port
\* that is not ACTIVE holds is about to go, unless requests overlapped.
IgnoredHaveNothing ==
  \A p \in Port : IgnorePort(p) =>
    seen[p] = None /\ \A s \in Todo : ~ IsRpc(s) => s.port # p

DownHaveNothing ==
  raced = {} =>
    /\ \A p \in Port :
         status[p] = "ACTIVE" \/ seen[p] = None \/ \E s \in Todo : s.kind = "detach" /\ s.port = p
    /\ \A s \in Todo : s.kind \in {"attach", "send"} => status[s.port] = "ACTIVE"

\* The BGPVPNs that no requests overlapped on and whose hooks were not cut short.
Clear == Bgpvpn \ (raced \cup failed)

\* What is bound twice now is known to be.
TwiceKnown == BoundTwice(nets, routers, plugged) \subseteq twice

\* What is sent is what is needed now.
Right(s, b) ==
  /\ IsRpc(s) /\ s.bgpvpn = b =>
       IF s.kind = "delete" THEN ~ Bound(b, s.network) \/ s.network \in twice
       ELSE Bound(b, s.network) /\ s.rt \in {None, vpns[b]}
  /\ s.kind = "send" => Fits(s.info, s.port, b)
  /\ s.kind = "detach" => status[s.port] # "ACTIVE"

TasksAreRight(b) == \A s \in Todo : Right(s, b)

\* Two routers of a BGPVPN on one network: an RPC is left that will raise.
SecondRouterRaises(b) ==
  \A n \in Network : \A r, t \in routers[b] \cap GatewaysOf(n) :
    r # t => \E s \in Todo : IsAbout(s, b, n)

\* A port has what it needs of b, or gets it.
Settles(p, b) ==
  \/ \E s \in Todo : s.kind \in {"attach", "send"} /\ s.port = p
  \/ /\ seen[p] # None
     /\ Fits(seen[p], p, b) \/ \E s \in Todo : IsAbout(s, b, NetworkOf[p])

PortsSettle(b) == \A p \in Port : Served(p) => Settles(p, b)

Settling(b) == TasksAreRight(b) /\ SecondRouterRaises(b) /\ PortsSettle(b)

IInv == TInv /\ TwiceKnown /\ \A b \in Clear : Settling(b)

-----------------------------------------------------------------------------
(***************************************************************************)
(* What is left to do: its types, and how steps change it.                 *)
(***************************************************************************)

LEMMA RpcsType ==
  ASSUME NEW kind \in RpcKinds, NEW pairs \in SUBSET (Bgpvpn \X Network), NEW rt,
         \A i \in pairs : rt[i[1]] \in RT \cup {None}
  PROVE  Rpcs(kind, pairs, rt) \subseteq Rpc
BY DEF Rpcs, RpcOf, Rpc

Spans(pairs, b, ns) == pairs = {b} \X ns

LEMMA RpcsAbout ==
  ASSUME NEW kind, NEW b, NEW ns, NEW pairs, Spans(pairs, b, ns), NEW rt
  PROVE  \A s \in Rpcs(kind, pairs, rt) :
           s.kind = kind /\ s.bgpvpn = b /\ s.network \in ns /\ s.rt = rt[b]
BY DEF Rpcs, RpcOf, Spans

LEMMA RpcsReach ==
  ASSUME NEW kind, NEW b, NEW ns, NEW pairs, Spans(pairs, b, ns), NEW rt, NEW n \in ns
  PROVE  \E s \in Rpcs(kind, pairs, rt) : s.network = n
<1> DEFINE s == RpcOf(kind, b, n, rt[b])
<1>1. <<b, n>> \in pairs /\ <<b, n>>[1] = b /\ <<b, n>>[2] = n  BY DEF Spans
<1>2. s \in Rpcs(kind, pairs, rt)  BY <1>1 DEF Rpcs, RpcOf
<1> QED  BY <1>2 DEF RpcOf

LEMMA PortTaskIsNoRpc ==
  ASSUME NEW s \in PortTask
  PROVE  ~ IsRpc(s) /\ s.kind \in {"attach", "send", "detach"} /\ s.port \in Port
BY DEF PortTask, IsRpc, RpcKinds

\* A worker has RPCs to send, or serves the event of one port.
LEMMA Tasks ==
  ASSUME TypeOK, NEW w \in Worker, job[w] # Idle, NEW s \in job[w].left
  PROVE  /\ job[w].on \subseteq Bgpvpn
         /\ IsRpc(s) => s \in Rpc /\ job[w].left \subseteq Rpc
         /\ ~ IsRpc(s) => s \in PortTask /\ job[w].on = Bgpvpn /\ job[w].left = {s}
<1>1. job[w] \in Job  BY DEF TypeOK
<1>2. CASE job[w] \in [on: SUBSET Bgpvpn, left: SUBSET Rpc]
  <2>1. s \in Rpc /\ job[w].left \subseteq Rpc /\ job[w].on \subseteq Bgpvpn  BY <1>2
  <2>2. IsRpc(s)  BY <2>1 DEF Rpc, IsRpc
  <2> QED  BY <2>1, <2>2
<1>3. CASE job[w] \in [on: {Bgpvpn}, left: {{t} : t \in PortTask}]
  <2>1. job[w].on = Bgpvpn /\ job[w].left \in {{t} : t \in PortTask}  BY <1>3
  <2>2. s \in PortTask /\ job[w].left = {s}  BY <2>1
  <2> QED  BY <2>1, <2>2, PortTaskIsNoRpc
<1> QED  BY <1>1, <1>2, <1>3 DEF Job

\* What a request on bs may leave.
MayLeave(bs, left) ==
  /\ bs \subseteq Bgpvpn
  /\ \/ left \subseteq Rpc /\ \A s \in left : s.bgpvpn \in bs
     \/ bs = Bgpvpn /\ \E s \in PortTask : left = {s}

LEMMA SendingType ==
  ASSUME NEW bs, NEW left, MayLeave(bs, left)
  PROVE  /\ Sending(bs, left) \in Job \cup {Idle}
         /\ left = {} => Sending(bs, left) = Idle
         /\ left # {} => /\ Sending(bs, left) # Idle
                         /\ Sending(bs, left).on = bs /\ Sending(bs, left).left = left
<1>1. CASE left = {}  BY <1>1 DEF Sending
<1>2. CASE left # {}
  <2>1. Sending(bs, left) = [on |-> bs, left |-> left]  BY <1>2 DEF Sending
  <2>2. CASE left \subseteq Rpc
    <3>1. [on |-> bs, left |-> left] \in Job  BY <2>2 DEF Job, MayLeave
    <3> QED  BY <1>2, <2>1, <3>1, IdleAssumption
  <2>3. CASE bs = Bgpvpn /\ \E s \in PortTask : left = {s}
    <3>1. [on |-> bs, left |-> left] \in Job  BY <2>3 DEF Job
    <3> QED  BY <1>2, <2>1, <3>1, IdleAssumption
  <2> QED  BY <2>2, <2>3 DEF MayLeave
<1> QED  BY <1>1, <1>2

LEMMA PortStepType ==
  ASSUME NEW kind \in {"attach", "detach"}, NEW p \in Port
  PROVE  \E s \in PortTask : PortStep(kind, p) = {s} /\ s.kind = kind /\ s.port = p
<1>1. [kind |-> kind, port |-> p] \in PortTask  BY DEF PortTask
<1> QED  BY <1>1 DEF PortStep

LEMMA SendType ==
  ASSUME NEW p \in Port, NEW info \in Info
  PROVE  [kind |-> "send", port |-> p, info |-> info] \in PortTask
BY DEF PortTask

\* What a step that gives w another job does to what is left.
LEMMA TodoStep ==
  ASSUME TypeOK, NEW w \in Worker, NEW bs, NEW left, MayLeave(bs, left),
         Then(w, bs, left)
  PROVE  /\ job' \in [Worker -> Job \cup {Idle}]
         /\ OnItsBgpvpns => OnItsBgpvpns'
         /\ job[w] = Idle => Todo' = Todo \cup left
         /\ job[w] # Idle => Todo' \subseteq Todo \cup left /\ (Todo \ job[w].left) \cup left \subseteq Todo'
<1>1. job \in [Worker -> Job \cup {Idle}]  BY DEF TypeOK
<1>2. /\ job' \in [Worker -> Job \cup {Idle}]
      /\ \A v \in Worker \ {w} : job'[v] = job[v]
      /\ job'[w] = Sending(bs, left)
  BY <1>1, SendingType DEF Then
<1>3. left = {} => job'[w] = Idle  BY <1>2, SendingType
<1>4. left # {} => job'[w] # Idle /\ job'[w].left = left  BY <1>2, SendingType
<1>5. \A s : s \in Todo' <=> s \in left \/ \E v \in Worker \ {w} : job[v] # Idle /\ s \in job[v].left
  BY <1>2, <1>3, <1>4 DEF Todo
<1>6. \A s : s \in Todo <=> \/ job[w] # Idle /\ s \in job[w].left
                            \/ \E v \in Worker \ {w} : job[v] # Idle /\ s \in job[v].left
  BY DEF Todo
<1>7. \A s \in left : IsRpc(s) => s.bgpvpn \in bs
  BY PortTaskIsNoRpc DEF MayLeave
<1>8. OnItsBgpvpns => OnItsBgpvpns'
  BY <1>2, <1>3, <1>4, <1>7, SendingType DEF OnItsBgpvpns
<1> QED  BY <1>2, <1>5, <1>6, <1>8

LEMMA ThenTodo ==
  ASSUME TInv, NEW w \in Worker, NEW bs, NEW left, MayLeave(bs, left),
         job[w] = Idle, Then(w, bs, left)
  PROVE  job' \in [Worker -> Job \cup {Idle}] /\ OnItsBgpvpns' /\ Todo' = Todo \cup left
BY TodoStep DEF TInv

\* The rest after s.
LEMMA RestIsLeft ==
  ASSUME TInv, NEW w \in Worker, NEW s, NEW kinds, MayDo(w, s, kinds), NEW more,
         more = {} \/ (~ IsRpc(s) /\ \E t \in PortTask : more = {t})
  PROVE  /\ MayLeave(job[w].on, (job[w].left \ {s}) \cup more)
         /\ s \in Todo
<1>1. job[w] # Idle /\ s \in job[w].left  BY DEF MayDo
<1>2. TypeOK  BY DEF TInv
<1>3. CASE IsRpc(s)
  <2>1. job[w].left \subseteq Rpc /\ job[w].on \subseteq Bgpvpn  BY <1>1, <1>2, <1>3, Tasks
  <2>2. \A t \in job[w].left : t.bgpvpn \in job[w].on
    BY <1>1, <2>1 DEF TInv, OnItsBgpvpns, Rpc, IsRpc
  <2> QED  BY <1>1, <1>3, <2>1, <2>2 DEF MayLeave, Todo
<1>4. CASE ~ IsRpc(s)
  <2>1. job[w].left = {s} /\ job[w].on = Bgpvpn  BY <1>1, <1>2, <1>4, Tasks
  <2>2. (job[w].left \ {s}) \cup more = more  BY <2>1
  <2> QED  BY <1>1, <2>1, <2>2 DEF MayLeave, Todo
<1> QED  BY <1>3, <1>4

LEMMA OnwardsTodo ==
  ASSUME TInv, NEW w \in Worker, NEW s, NEW kinds, MayDo(w, s, kinds), NEW more,
         more = {} \/ (~ IsRpc(s) /\ \E t \in PortTask : more = {t}),
         Onwards(w, s, more)
  PROVE  /\ job' \in [Worker -> Job \cup {Idle}] /\ OnItsBgpvpns'
         /\ Todo' \subseteq Todo \cup more
         /\ (Todo \ {s}) \cup more \subseteq Todo'
<1> DEFINE left == (job[w].left \ {s}) \cup more
<1>1. TypeOK /\ OnItsBgpvpns /\ job[w] # Idle  BY DEF TInv, MayDo
<1>2. MayLeave(job[w].on, left)  BY RestIsLeft
<1>3. Then(w, job[w].on, left)  BY DEF Onwards, Then
<1> HIDE DEF left
<1>4. /\ job' \in [Worker -> Job \cup {Idle}] /\ OnItsBgpvpns'
      /\ Todo' \subseteq Todo \cup left /\ (Todo \ job[w].left) \cup left \subseteq Todo'
  BY <1>1, <1>2, <1>3, TodoStep
<1>5. job[w].left \subseteq Todo  BY <1>1 DEF Todo
<1> QED  BY <1>4, <1>5 DEF left

\* An exception drops what was left of one job.
LEMMA RaiseTodo ==
  ASSUME TInv, NEW w \in Worker, job[w] # Idle, NEW about, Raise(w, about)
  PROVE  /\ job' \in [Worker -> Job \cup {Idle}] /\ OnItsBgpvpns'
         /\ Todo' \subseteq Todo
         /\ Todo \ job[w].left \subseteq Todo'
<1>1. TypeOK /\ OnItsBgpvpns  BY DEF TInv
<1>2. Then(w, {}, {})  BY DEF Raise, Sending, Then
<1>3. MayLeave({}, {})  BY DEF MayLeave
<1> QED  BY <1>1, <1>2, <1>3, TodoStep

-----------------------------------------------------------------------------
(***************************************************************************)
(* What requests and events change, and what they leave to be sent.        *)
(***************************************************************************)

TablesOK ==
  /\ vpns \in [Bgpvpn -> RT \cup {None, "deleted"}]
  /\ nets \in [Bgpvpn -> SUBSET (Network \ External)]
  /\ routers \in [Bgpvpn -> SUBSET Router]
  /\ \A b \in Bgpvpn : vpns[b] \notin RT => nets[b] = {} /\ routers[b] = {}
  /\ \A b \in Bgpvpn \ L3 : routers[b] = {}
  /\ status \in [Port -> {"off", "DOWN", "ACTIVE", "gone"}]
  /\ plugged \subseteq Router \X Network /\ twice \subseteq Network
  /\ asked \in [Worker -> Checked \cup {Idle}]

LEMMA TypeParts ==
  TypeOK <=> /\ TablesOK
             /\ job \in [Worker -> Job \cup {Idle}]
             /\ seen \in [Port -> Info \cup {None}]
             /\ failed \subseteq Bgpvpn \cup Port /\ raced \subseteq Bgpvpn
BY DEF TypeOK, TablesOK

LEMMA WriteTypes ==
  ASSUME TablesOK, NEW w \in Worker, NEW request, Write(w, request),
         nets' \in [Bgpvpn -> SUBSET (Network \ External)]
  PROVE  twice' \subseteq Network /\ asked' \in [Worker -> Checked \cup {Idle}]
<1>1. BoundTwice(nets', routers', plugged') \subseteq Network
  BY DEF BoundTwice, AssociatedNetworks
<1>2. asked' \in [Worker -> Checked \cup {Idle}]  BY DEF TablesOK, Write
<1> QED  BY <1>1, <1>2 DEF TablesOK, Write

\* A network is one of a BGPVPN's if it is bound to it.
LEMMA NetworksAreBound ==
  ASSUME TInv, NEW b \in Bgpvpn
  PROVE  /\ NetworksForBgpvpn(b) \subseteq Network
         /\ \A n \in Network : n \in NetworksForBgpvpn(b) <=> Bound(b, n)
         /\ \A n : Bound(b, n) => vpns[b] \in RT
<1>1. TablesOK  BY TypeParts DEF TInv
<1>2. nets[b] \subseteq Network /\ routers[b] \subseteq Router  BY <1>1 DEF TablesOK
<1>3. \A n \in Network : n \in NetworksForBgpvpn(b) <=> Bound(b, n)
  BY <1>2 DEF NetworksForBgpvpn, NetworksForRouter, Bound
<1>4. NetworksForBgpvpn(b) \subseteq Network
  BY <1>2 DEF NetworksForBgpvpn, NetworksForRouter
<1>5. \A n : Bound(b, n) => vpns[b] \in RT
  BY <1>1 DEF TablesOK, Bound
<1> QED  BY <1>3, <1>4, <1>5

LEMMA RpcsOfOne ==
  ASSUME NEW kind \in RpcKinds, NEW b \in Bgpvpn, NEW ns \in SUBSET Network, NEW rt,
         rt[b] \in RT \cup {None}
  PROVE  MayLeave({b}, Rpcs(kind, {b} \X ns, rt))
<1>1. {b} \X ns \in SUBSET (Bgpvpn \X Network)  OBVIOUS
<1>2. \A i \in {b} \X ns : rt[i[1]] \in RT \cup {None}  OBVIOUS
<1>3. Rpcs(kind, {b} \X ns, rt) \subseteq Rpc  BY <1>1, <1>2, RpcsType
<1>4. \A s \in Rpcs(kind, {b} \X ns, rt) : s.bgpvpn = b  BY DEF Rpcs, RpcOf
<1> QED  BY <1>3, <1>4 DEF MayLeave

LEMMA RereadType == \A b \in Bgpvpn : Reread[b] \in RT \cup {None} /\ Reread[b] = None
BY DEF Reread

\* ATTRIBUTES_TO_IGNORE ignores nothing.
LEMMA AlwaysWorthSending ==
  WorthSending({"name"}) /\ WorthSending({"route_targets"})
BY DEF WorthSending, IgnoredAttributes

LEMMA CreateBgpvpnLeaves ==
  ASSUME TInv, NEW w \in Worker, NEW b \in Bgpvpn, NEW rt \in RT, CreateBgpvpn(w, b, rt)
  PROVE  TablesOK' /\ MayLeave({b}, {}) /\ Then(w, {b}, {})
<1>1. TypeOK /\ TablesOK  BY TypeParts DEF TInv
<1>2. TablesOK'  BY <1>1 DEF CreateBgpvpn, TablesOK
<1>3. job' = [job EXCEPT ![w] = Idle]  BY <1>1 DEF CreateBgpvpn, Serve, TypeOK
<1> QED  BY <1>2, <1>3 DEF MayLeave, Then, Sending

LEMMA UpdateBgpvpnLeaves ==
  ASSUME TInv, NEW w \in Worker, NEW b \in Bgpvpn, NEW rt \in RT, UpdateBgpvpn(w, b, rt)
  PROVE  LET left == Rpcs("update", {b} \X NetworksForBgpvpn(b), vpns')
         IN TablesOK' /\ MayLeave({b}, left) /\ Then(w, {b}, left)
<1>1. TablesOK  BY TypeParts DEF TInv
<1>2. TablesOK'  BY <1>1 DEF UpdateBgpvpn, TablesOK
<1>3. vpns'[b] \in RT \cup {None}  BY <1>1 DEF UpdateBgpvpn, TablesOK
<1>4. Then(w, {b}, Rpcs("update", {b} \X NetworksForBgpvpn(b), vpns'))
  BY AlwaysWorthSending DEF UpdateBgpvpn
<1> QED  BY <1>2, <1>3, <1>4, NetworksAreBound, RpcsOfOne DEF RpcKinds

LEMMA DeleteBgpvpnLeaves ==
  ASSUME TInv, NEW w \in Worker, NEW b \in Bgpvpn, DeleteBgpvpn(w, b)
  PROVE  LET left == Rpcs("delete", {b} \X NetworksForBgpvpn(b), vpns)
         IN TablesOK' /\ MayLeave({b}, left) /\ Then(w, {b}, left)
<1>1. TablesOK  BY TypeParts DEF TInv
<1>2. TablesOK'  BY <1>1 DEF DeleteBgpvpn, TablesOK
<1>3. vpns[b] \in RT \cup {None}  BY DEF DeleteBgpvpn
<1>4. Then(w, {b}, Rpcs("delete", {b} \X NetworksForBgpvpn(b), vpns))  BY DEF DeleteBgpvpn
<1> QED  BY <1>2, <1>3, <1>4, NetworksAreBound, RpcsOfOne DEF RpcKinds

LEMMA OnePair ==
  ASSUME NEW b, NEW n
  PROVE  {<<b, n>>} = {b} \X {n}
OBVIOUS

LEMMA NetAssocLeaves ==
  ASSUME TInv, NEW w \in Worker, NEW b \in Bgpvpn, NEW n \in Network
  PROVE  /\ CreateNetAssoc(w, b, n) =>
              LET left == Rpcs("update", {b} \X {n}, Reread)
              IN TablesOK' /\ MayLeave({b}, left) /\ Then(w, {b}, left)
         /\ DeleteNetAssoc(w, b, n) =>
              LET left == Rpcs("delete", {b} \X {n}, Reread)
              IN TablesOK' /\ MayLeave({b}, left) /\ Then(w, {b}, left)
<1>1. TablesOK  BY TypeParts DEF TInv
<1>2. ASSUME CreateNetAssoc(w, b, n) PROVE TablesOK'
  <2>1. nets' \in [Bgpvpn -> SUBSET (Network \ External)]
    BY <1>1, <1>2 DEF CreateNetAssoc, TablesOK
  <2>2. twice' \subseteq Network /\ asked' \in [Worker -> Checked \cup {Idle}]
    BY <1>1, <1>2, <2>1, WriteTypes DEF CreateNetAssoc
  <2> QED  BY <1>1, <1>2, <2>1, <2>2 DEF CreateNetAssoc, TablesOK
<1>3. DeleteNetAssoc(w, b, n) => TablesOK'  BY <1>1 DEF DeleteNetAssoc, TablesOK
<1>4. \A kind \in RpcKinds : MayLeave({b}, Rpcs(kind, {b} \X {n}, Reread))
  BY RpcsOfOne, RereadType
<1> QED  BY <1>2, <1>3, <1>4, OnePair DEF CreateNetAssoc, DeleteNetAssoc, RpcKinds

LEMMA RouterAssocLeaves ==
  ASSUME TInv, NEW w \in Worker, NEW b \in Bgpvpn, NEW r \in Router
  PROVE  /\ CreateRouterAssoc(w, b, r) =>
              LET left == Rpcs("update", {b} \X NetworksForRouter(r), Reread)
              IN TablesOK' /\ MayLeave({b}, left) /\ Then(w, {b}, left)
         /\ DeleteRouterAssoc(w, b, r) =>
              LET left == Rpcs("delete", {b} \X NetworksForRouter(r), Reread)
              IN TablesOK' /\ MayLeave({b}, left) /\ Then(w, {b}, left)
<1>1. TablesOK  BY TypeParts DEF TInv
<1>2. ASSUME CreateRouterAssoc(w, b, r) PROVE TablesOK'
  <2>1. nets' \in [Bgpvpn -> SUBSET (Network \ External)]
    BY <1>1, <1>2 DEF CreateRouterAssoc, TablesOK
  <2>2. twice' \subseteq Network /\ asked' \in [Worker -> Checked \cup {Idle}]
    BY <1>1, <1>2, <2>1, WriteTypes DEF CreateRouterAssoc
  <2> QED  BY <1>1, <1>2, <2>2 DEF CreateRouterAssoc, TablesOK
<1>3. DeleteRouterAssoc(w, b, r) => TablesOK'  BY <1>1 DEF DeleteRouterAssoc, TablesOK
<1>4. \A kind \in RpcKinds : MayLeave({b}, Rpcs(kind, {b} \X NetworksForRouter(r), Reread))
  BY RpcsOfOne, RereadType DEF NetworksForRouter
<1> QED  BY <1>2, <1>3, <1>4 DEF CreateRouterAssoc, DeleteRouterAssoc, RpcKinds

\* The RPCs of one network.
Across(pairs, S, n) == \A i : i \in pairs <=> \E b \in S : i = <<b, n>>
IsOneOf(s, kind, S, n, rt) == \E b \in S : s = RpcOf(kind, b, n, rt[b])

LEMMA RpcsOn ==
  ASSUME NEW pairs, NEW S, NEW n, Across(pairs, S, n), NEW kind, NEW rt, NEW s
  PROVE  s \in Rpcs(kind, pairs, rt) <=> IsOneOf(s, kind, S, n, rt)
<1> DEFINE rpc(i) == RpcOf(kind, i[1], i[2], rt[i[1]])
<1>1. s \in Rpcs(kind, pairs, rt) <=> \E i \in pairs : s = rpc(i)  BY DEF Rpcs
<1>2. ASSUME NEW i \in pairs, s = rpc(i)
      PROVE  \E b \in S : s = RpcOf(kind, b, n, rt[b])
  <2>1. PICK b \in S : i = <<b, n>>  BY DEF Across
  <2>2. i[1] = b /\ i[2] = n  BY <2>1
  <2> QED  BY <1>2, <2>2
<1>3. ASSUME NEW b \in S, s = RpcOf(kind, b, n, rt[b])
      PROVE  \E i \in pairs : s = rpc(i)
  <2>1. <<b, n>> \in pairs /\ s = rpc(<<b, n>>)  BY <1>3 DEF Across
  <2> QED  BY <2>1
<1> QED  BY <1>1, <1>2, <1>3 DEF IsOneOf

LEMMA InterfaceRpcsOf ==
  ASSUME NEW kind, NEW r, NEW n, NEW interfaces, NEW s
  PROVE  s \in InterfaceRpcs(kind, r, n, interfaces) <=>
           \/ \E b \in Bgpvpn :
                /\ \E c \in Bgpvpn : n \in nets[c] \/ r \in routers[c]
                /\ b \in BgpvpnsForNetwork(n, interfaces)
                /\ s = RpcOf("refresh", b, n, vpns[b])
           \/ \E b \in Bgpvpn :
                /\ r \in routers[b]
                /\ s = RpcOf(kind, b, n, None)
<1> DEFINE bound == \E c \in Bgpvpn : n \in nets[c] \/ r \in routers[c]
           told == IF bound THEN BgpvpnsForNetwork(n, interfaces) ELSE {}
           again == {b \in Bgpvpn : r \in routers[b]}
           toldOn == told \X {n}
           againOn == again \X {n}
<1>1. told \subseteq Bgpvpn  BY DEF BgpvpnsForNetwork
<1>2. \A b : /\ b \in told <=> bound /\ b \in BgpvpnsForNetwork(n, interfaces)
             /\ b \in again <=> b \in Bgpvpn /\ r \in routers[b]
  OBVIOUS
<1>3. s \in InterfaceRpcs(kind, r, n, interfaces) <=>
        s \in Rpcs("refresh", toldOn, vpns) \/ s \in Rpcs(kind, againOn, Reread)
  BY DEF InterfaceRpcs
<1>4. Across(toldOn, told, n) /\ Across(againOn, again, n)  BY DEF Across
<1>5. \A b \in again : Reread[b] = None  BY RereadType
<1> HIDE DEF told, again, toldOn, againOn
<1>6. s \in Rpcs("refresh", toldOn, vpns) <=> IsOneOf(s, "refresh", told, n, vpns)
  BY <1>4, RpcsOn
<1>7. s \in Rpcs(kind, againOn, Reread) <=> IsOneOf(s, kind, again, n, Reread)
  BY <1>4, RpcsOn
<1>8. s \in Rpcs(kind, againOn, Reread) <=> \E b \in again : s = RpcOf(kind, b, n, None)
  BY <1>5, <1>7 DEF IsOneOf
<1> QED  BY <1>1, <1>2, <1>3, <1>6, <1>8 DEF IsOneOf

LEMMA InterfaceLeaves ==
  ASSUME TInv, NEW w \in Worker, NEW r \in Router, NEW n \in Network
  PROVE  /\ AddInterface(w, r, n) =>
              LET left == InterfaceRpcs("update", r, n, plugged')
              IN TablesOK' /\ MayLeave(Bgpvpn, left) /\ Then(w, Bgpvpn, left)
         /\ RemoveInterface(w, r, n) =>
              LET left == InterfaceRpcs("delete", r, n, plugged')
              IN TablesOK' /\ MayLeave(Bgpvpn, left) /\ Then(w, Bgpvpn, left)
<1>1. TablesOK  BY TypeParts DEF TInv
<1>2. ASSUME AddInterface(w, r, n) PROVE TablesOK'
  <2>1. nets' \in [Bgpvpn -> SUBSET (Network \ External)]
    BY <1>1, <1>2 DEF AddInterface, TablesOK
  <2>2. twice' \subseteq Network /\ asked' \in [Worker -> Checked \cup {Idle}]
    BY <1>1, <1>2, <2>1, WriteTypes DEF AddInterface
  <2> QED  BY <1>1, <1>2, <2>2 DEF AddInterface, TablesOK
<1>3. RemoveInterface(w, r, n) => TablesOK'
  BY <1>1 DEF RemoveInterface, assocVars, TablesOK
<1>4. ASSUME NEW kind \in {"update", "delete"}, NEW interfaces
      PROVE  MayLeave(Bgpvpn, InterfaceRpcs(kind, r, n, interfaces))
  <2>1. ASSUME NEW s \in InterfaceRpcs(kind, r, n, interfaces)
        PROVE  s \in Rpc /\ s.bgpvpn \in Bgpvpn
    <3>1. CASE \E b \in Bgpvpn :
                 /\ b \in BgpvpnsForNetwork(n, interfaces)
                 /\ s = RpcOf("refresh", b, n, vpns[b])
      <4>1. \A b \in BgpvpnsForNetwork(n, interfaces) : vpns[b] \in RT
        BY <1>1 DEF BgpvpnsForNetwork, TablesOK
      <4> QED  BY <3>1, <4>1 DEF RpcOf, Rpc, RpcKinds
    <3>2. CASE \E b \in Bgpvpn : s = RpcOf(kind, b, n, None)
      BY <3>2 DEF RpcOf, Rpc, RpcKinds
    <3> QED  BY <3>1, <3>2, InterfaceRpcsOf
  <2> QED  BY <2>1 DEF MayLeave
<1> QED  BY <1>2, <1>3, <1>4 DEF AddInterface, RemoveInterface

LEMMA PortEventLeaves ==
  ASSUME TInv, NEW w \in Worker, NEW p \in Port, NEW kind \in {"attach", "detach"},
         NEW new \in {"DOWN", "ACTIVE", "gone"}, status' = [status EXCEPT ![p] = new],
         PortEvent(w, p, kind)
  PROVE  LET left == IF IgnorePort(p) THEN {} ELSE PortStep(kind, p)
         IN TablesOK' /\ MayLeave(Bgpvpn, left) /\ Then(w, Bgpvpn, left)
<1>1. TablesOK  BY TypeParts DEF TInv
<1>2. TablesOK'  BY <1>1 DEF PortEvent, assocVars, TablesOK
<1>3. MayLeave(Bgpvpn, {}) /\ MayLeave(Bgpvpn, PortStep(kind, p))
  BY PortStepType DEF MayLeave
<1> QED  BY <1>2, <1>3 DEF PortEvent

-----------------------------------------------------------------------------
(***************************************************************************)
(* Types.                                                                  *)
(***************************************************************************)

\* A request changes no status and leaves RPCs, the event of a port leaves a step
\* of that port.
OnlyRpcs(left) == status' = status /\ \A s \in left : IsRpc(s)

PortChanged(p, bs, left) ==
  /\ bs = Bgpvpn
  /\ \A q \in Port \ {p} : status'[q] = status[q]
  /\ IgnorePort(p) => left = {}
  /\ ~ IgnorePort(p) =>
       \E s \in PortTask :
         /\ left = {s} /\ s.port = p
         /\ s.kind = IF status'[p] = "ACTIVE" THEN "attach" ELSE "detach"

\* A request or an event changes what is stored, and leaves what is to be sent.
Requested(w, bs, left) ==
  /\ TablesOK' /\ MayLeave(bs, left) /\ Serve(w, bs) /\ Then(w, bs, left)
  /\ OnlyRpcs(left) \/ \E p \in Port : PortChanged(p, bs, left)

LEMMA RpcsOnly ==
  ASSUME NEW kind \in RpcKinds, NEW pairs, NEW rt
  PROVE  \A s \in Rpcs(kind, pairs, rt) : IsRpc(s)
BY DEF Rpcs, RpcOf, IsRpc

LEMMA BeginRequests ==
  ASSUME TInv, NEW w \in Worker, Begin(w)
  PROVE  \E bs, left : Requested(w, bs, left)
<1>1. ASSUME NEW b \in Bgpvpn, NEW rt \in RT, CreateBgpvpn(w, b, rt) \/ UpdateBgpvpn(w, b, rt)
      PROVE  \E bs, left : Requested(w, bs, left)
  <2>1. CASE CreateBgpvpn(w, b, rt)
    <3>1. Serve(w, {b}) /\ OnlyRpcs({})  BY <2>1 DEF CreateBgpvpn, OnlyRpcs
    <3> QED  BY <2>1, <3>1, CreateBgpvpnLeaves DEF Requested
  <2>2. CASE UpdateBgpvpn(w, b, rt)
    <3>1. Serve(w, {b}) /\ OnlyRpcs(Rpcs("update", {b} \X NetworksForBgpvpn(b), vpns'))
      BY <2>2, RpcsOnly DEF UpdateBgpvpn, OnlyRpcs, RpcKinds
    <3> QED  BY <2>2, <3>1, UpdateBgpvpnLeaves DEF Requested
  <2> QED  BY <1>1, <2>1, <2>2
<1>2. ASSUME NEW b \in Bgpvpn, DeleteBgpvpn(w, b)
      PROVE  \E bs, left : Requested(w, bs, left)
  <2>1. Serve(w, {b}) /\ OnlyRpcs(Rpcs("delete", {b} \X NetworksForBgpvpn(b), vpns))
    BY <1>2, RpcsOnly DEF DeleteBgpvpn, OnlyRpcs, RpcKinds
  <2> QED  BY <1>2, <2>1, DeleteBgpvpnLeaves DEF Requested
<1>3. ASSUME NEW b \in Bgpvpn, NEW n \in Network,
             CreateNetAssoc(w, b, n) \/ DeleteNetAssoc(w, b, n)
      PROVE  \E bs, left : Requested(w, bs, left)
  <2>1. /\ Serve(w, {b})
        /\ \A kind \in RpcKinds : OnlyRpcs(Rpcs(kind, {b} \X {n}, Reread))
    BY <1>3, RpcsOnly DEF CreateNetAssoc, DeleteNetAssoc, OnlyRpcs
  <2> QED  BY <1>3, <2>1, NetAssocLeaves DEF Requested, RpcKinds
<1>4. ASSUME NEW b \in Bgpvpn, NEW r \in Router,
             CreateRouterAssoc(w, b, r) \/ DeleteRouterAssoc(w, b, r)
      PROVE  \E bs, left : Requested(w, bs, left)
  <2>1. /\ Serve(w, {b})
        /\ \A kind \in RpcKinds : OnlyRpcs(Rpcs(kind, {b} \X NetworksForRouter(r), Reread))
    BY <1>4, RpcsOnly DEF CreateRouterAssoc, DeleteRouterAssoc, OnlyRpcs
  <2> QED  BY <1>4, <2>1, RouterAssocLeaves DEF Requested, RpcKinds
<1>5. ASSUME NEW r \in Router, NEW n \in Network,
             AddInterface(w, r, n) \/ RemoveInterface(w, r, n)
      PROVE  \E bs, left : Requested(w, bs, left)
  <2>1. /\ Serve(w, Bgpvpn) /\ status' = status
        /\ \A kind \in RpcKinds : \A s \in InterfaceRpcs(kind, r, n, plugged') : IsRpc(s)
    BY <1>5, RpcsOnly DEF AddInterface, RemoveInterface, InterfaceRpcs, RpcKinds
  <2>2. \A kind \in RpcKinds : OnlyRpcs(InterfaceRpcs(kind, r, n, plugged'))
    BY <2>1 DEF OnlyRpcs
  <2> QED  BY <1>5, <2>1, <2>2, InterfaceLeaves DEF Requested, RpcKinds
<1>6. ASSUME NEW p \in Port, PortUp(w, p) \/ PortDown(w, p) \/ DeletePort(w, p)
      PROVE  \E bs, left : Requested(w, bs, left)
  <2>1. PICK kind \in {"attach", "detach"}, new \in {"DOWN", "ACTIVE", "gone"} :
          /\ status' = [status EXCEPT ![p] = new] /\ PortEvent(w, p, kind)
          /\ kind = IF new = "ACTIVE" THEN "attach" ELSE "detach"
    BY <1>6 DEF PortUp, PortDown, DeletePort
  <2> DEFINE left == IF IgnorePort(p) THEN {} ELSE PortStep(kind, p)
  <2>2. Serve(w, Bgpvpn)  BY <2>1 DEF PortEvent
  <2>3. TablesOK' /\ MayLeave(Bgpvpn, left) /\ Then(w, Bgpvpn, left)
    BY <2>1, PortEventLeaves
  <2>4. PortChanged(p, Bgpvpn, left)
    <3>1. status'[p] = new /\ \A q \in Port \ {p} : status'[q] = status[q]
      BY <2>1 DEF TInv, TypeOK
    <3> QED  BY <2>1, <3>1, PortStepType DEF PortChanged
  <2> QED  BY <2>2, <2>3, <2>4 DEF Requested
<1> QED  BY <1>1, <1>2, <1>3, <1>4, <1>5, <1>6 DEF Begin

LEMMA GatewaysStayFinite ==
  ASSUME GatewaysAreFinite, NEW r, NEW n, plugged' \subseteq plugged \cup {<<r, n>>}
  PROVE  GatewaysAreFinite'
<1> SUFFICES ASSUME NEW m \in Network
             PROVE  IsFiniteSet({t \in Router : <<t, m>> \in plugged'})
  BY DEF GatewaysAreFinite, GatewaysOf
<1>1. IsFiniteSet(GatewaysOf(m))  BY DEF GatewaysAreFinite
<1>2. IsFiniteSet(GatewaysOf(m) \cup {r})  BY <1>1, FS_AddElement
<1>3. {t \in Router : <<t, m>> \in plugged'} \subseteq GatewaysOf(m) \cup {r}
  BY DEF GatewaysOf
<1> QED  BY <1>2, <1>3, FS_Subset

\* Only events of router interfaces plug or unplug any.
LEMMA OneIsPlugged ==
  ASSUME NEW w \in Worker, Begin(w)
  PROVE  \E r, n : plugged' \subseteq plugged \cup {<<r, n>>}
<1>1. ASSUME NEW r \in Router, NEW n \in Network,
             AddInterface(w, r, n) \/ RemoveInterface(w, r, n)
      PROVE  plugged' \subseteq plugged \cup {<<r, n>>}
  BY <1>1 DEF AddInterface, RemoveInterface
<1>2. ASSUME NEW p \in Port, PortUp(w, p) \/ PortDown(w, p) \/ DeletePort(w, p)
      PROVE  plugged' = plugged
  BY <1>2 DEF PortUp, PortDown, DeletePort, PortEvent
<1>3. ASSUME NEW b \in Bgpvpn,
             \/ \E rt \in RT : CreateBgpvpn(w, b, rt) \/ UpdateBgpvpn(w, b, rt)
             \/ DeleteBgpvpn(w, b)
             \/ \E n \in Network : CreateNetAssoc(w, b, n) \/ DeleteNetAssoc(w, b, n)
             \/ \E r \in Router : CreateRouterAssoc(w, b, r) \/ DeleteRouterAssoc(w, b, r)
      PROVE  plugged' = plugged
  BY <1>3 DEF CreateBgpvpn, UpdateBgpvpn, DeleteBgpvpn, CreateNetAssoc, DeleteNetAssoc,
              CreateRouterAssoc, DeleteRouterAssoc
<1> QED  BY <1>1, <1>2, <1>3 DEF Begin

LEMMA BeginTypes ==
  ASSUME TInv, NEW w \in Worker, Begin(w)
  PROVE  TInv'
<1>1. PICK bs, left : Requested(w, bs, left)  BY BeginRequests
<1>2. job[w] = Idle /\ seen' = seen /\ failed' = failed /\ raced' \subseteq raced \cup bs
  BY <1>1 DEF Requested, Serve
<1>3. job' \in [Worker -> Job \cup {Idle}] /\ OnItsBgpvpns'
  BY <1>1, <1>2, ThenTodo DEF Requested
<1>4. bs \subseteq Bgpvpn  BY <1>1 DEF Requested, MayLeave
<1>5. TablesOK'  BY <1>1 DEF Requested
<1>6. TypeOK  BY DEF TInv
<1>7. TypeOK'
  <2>1. /\ seen \in [Port -> Info \cup {None}]
        /\ failed \subseteq Bgpvpn \cup Port /\ raced \subseteq Bgpvpn
    BY <1>6, TypeParts
  <2> QED  BY <1>2, <1>3, <1>4, <1>5, <2>1 DEF TypeOK, TablesOK
<1>8. GatewaysAreFinite'  BY OneIsPlugged, GatewaysStayFinite DEF TInv
<1> QED  BY <1>3, <1>7, <1>8 DEF TInv

LEMMA ToldType ==
  ASSUME TypeOK, NEW s \in Rpc, RtOf(s) \in RT
  PROVE  Told(s.kind, s.bgpvpn, s.network, RtOf(s)) \in [Port -> Info \cup {None}]
<1> DEFINE rt == RtOf(s)
           b == s.bgpvpn
           n == s.network
           agent(p) == IF seen[p] = None \/ NetworkOf[p] # n THEN seen[p]
                       ELSE IF s.kind # "delete"
                       THEN [vpn |-> [seen[p].vpn EXCEPT ![b] = rt], gateway |-> GatewaysOf(n) # {}]
                       ELSE [seen[p] EXCEPT !.vpn[b] = None]
<1>1. Told(s.kind, b, n, rt) = [p \in Port |-> agent(p)]  BY DEF Told
<1>2. ASSUME NEW p \in Port
      PROVE  agent(p) \in Info \cup {None}
  <2>1. seen[p] \in Info \cup {None}  BY DEF TypeOK
  <2>2. CASE seen[p] = None \/ NetworkOf[p] # n  BY <2>1, <2>2
  <2>3. CASE seen[p] \in Info /\ NetworkOf[p] = n /\ seen[p] # None
    <3> DEFINE v == seen[p].vpn
    <3>1. v \in [Bgpvpn -> RT \cup {None}] /\ seen[p].gateway \in BOOLEAN  BY <2>3 DEF Info
    <3>2. [v EXCEPT ![b] = rt] \in [Bgpvpn -> RT \cup {None}]  BY <3>1
    <3>3. [v EXCEPT ![b] = None] \in [Bgpvpn -> RT \cup {None}]  BY <3>1
    <3>4. [vpn |-> [v EXCEPT ![b] = rt], gateway |-> GatewaysOf(n) # {}] \in Info
      BY <3>2 DEF Info
    <3>5. [seen[p] EXCEPT !.vpn[b] = None] \in Info  BY <2>3, <3>3 DEF Info
    <3> QED  BY <2>3, <3>4, <3>5
  <2> QED  BY <2>1, <2>2, <2>3
<1> HIDE DEF agent
<1>3. [p \in Port |-> agent(p)] \in [Port -> Info \cup {None}]  BY <1>2
<1> QED  BY <1>1, <1>3

LEMMA PortInfoType ==
  ASSUME TypeOK, NEW p \in Port
  PROVE  PortInfo(p) \in Info
<1>1. \A b \in BgpvpnsForNetwork(NetworkOf[p], plugged) : vpns[b] \in RT
  BY DEF BgpvpnsForNetwork, TypeOK
<1> QED  BY <1>1 DEF PortInfo, Info

\* A task is one of an event of a port, or an RPC, by its kind.
LEMMA TaskOf ==
  ASSUME TInv, NEW w \in Worker, NEW s, NEW kinds, MayDo(w, s, kinds)
  PROVE  /\ s \in Todo /\ s.kind \in kinds /\ job[w] # Idle /\ job[w].on \subseteq Bgpvpn
         /\ s \in job[w].left
         /\ s.kind \in RpcKinds => s \in Rpc
         /\ s.kind \notin RpcKinds => /\ s \in PortTask /\ s.port \in Port
                                      /\ job[w].on = Bgpvpn /\ job[w].left = {s}
<1>1. job[w] # Idle /\ s \in job[w].left /\ s.kind \in kinds  BY DEF MayDo
<1>2. TypeOK  BY DEF TInv
<1> QED  BY <1>1, <1>2, Tasks, PortTaskIsNoRpc DEF IsRpc, Todo

LEMMA SendRpcTypes ==
  ASSUME TInv, NEW w \in Worker, NEW s, SendRpc(w, s)
  PROVE  TInv'
<1>1. MayDo(w, s, RpcKinds) /\ Onwards(w, s, {})  BY DEF SendRpc
<1>2. s \in Rpc  BY <1>1, TaskOf
<1>3. job' \in [Worker -> Job \cup {Idle}] /\ OnItsBgpvpns'  BY <1>1, OnwardsTodo
<1>4. TypeOK  BY DEF TInv
<1>5. seen' \in [Port -> Info \cup {None}]
  <2>1. CASE Skips(s)  BY <1>4, <2>1 DEF SendRpc, TypeOK
  <2>2. CASE ~ Skips(s)
    <3>1. RtOf(s) \in RT  BY <2>2 DEF SendRpc, Raises
    <3>2. seen' = Told(s.kind, s.bgpvpn, s.network, RtOf(s))  BY <2>2 DEF SendRpc
    <3> QED  BY <1>2, <1>4, <3>1, <3>2, ToldType
  <2> QED  BY <2>1, <2>2
<1>6. TypeOK'  BY <1>3, <1>4, <1>5 DEF SendRpc, assocVars, TypeOK
<1> QED  BY <1>3, <1>6 DEF TInv, SendRpc, GatewaysAreFinite, GatewaysOf

LEMMA RaiseTypes ==
  ASSUME TInv, NEW w \in Worker, job[w] # Idle,
         NEW about \in SUBSET (Bgpvpn \cup Port), Raise(w, about)
  PROVE  TInv'
<1>1. job' \in [Worker -> Job \cup {Idle}] /\ OnItsBgpvpns'  BY RaiseTodo
<1>2. TypeOK'  BY <1>1 DEF TInv, TypeOK, Raise, assocVars
<1> QED  BY <1>1, <1>2 DEF TInv, Raise, GatewaysAreFinite, GatewaysOf

\* What the steps for a port leave: nothing, or what was read to be sent.
LEMMA PortStepTypes ==
  ASSUME TInv, NEW w \in Worker, NEW s,
         ReadForAttach(w, s) \/ Attach(w, s) \/ Detach(w, s)
  PROVE  /\ TInv'
         /\ s \in Todo /\ ~ IsRpc(s) /\ s.port \in Port
<1> DEFINE send == [kind |-> "send", port |-> s.port, info |-> PortInfo(s.port)]
<1>1. PICK kind \in {"attach", "send", "detach"} : MayDo(w, s, {kind})
  BY DEF ReadForAttach, Attach, Detach
<1>2. /\ s \in Todo /\ s.kind = kind /\ s \in PortTask /\ s.port \in Port /\ ~ IsRpc(s)
  BY <1>1, TaskOf DEF RpcKinds, IsRpc
<1>3. TypeOK  BY DEF TInv
<1>4. PortInfo(s.port) \in Info  BY <1>2, <1>3, PortInfoType
<1>5. send \in PortTask  BY <1>2, <1>4, SendType
<1>6. Onwards(w, s, {}) \/ Onwards(w, s, {send})
  BY DEF ReadForAttach, Attach, Detach
<1>7. job' \in [Worker -> Job \cup {Idle}] /\ OnItsBgpvpns'
  <2> HIDE DEF send
  <2> QED  BY <1>1, <1>2, <1>5, <1>6, OnwardsTodo
<1>8. seen' \in [Port -> Info \cup {None}]
  <2>1. CASE ReadForAttach(w, s)  BY <1>3, <2>1 DEF ReadForAttach, TypeOK
  <2>2. CASE Attach(w, s)
    <3>1. s.kind = "send"  BY <2>2 DEF Attach, MayDo
    <3>2. s.info \in Info  BY <1>2, <3>1 DEF PortTask
    <3> QED  BY <1>3, <2>2, <3>2 DEF Attach, TypeOK
  <2>3. CASE Detach(w, s)  BY <1>3, <2>3 DEF Detach, TypeOK
  <2> QED  BY <2>1, <2>2, <2>3
<1>9. TypeOK'
  BY <1>3, <1>7, <1>8 DEF ReadForAttach, Attach, Detach, assocVars, TypeOK
<1>10. GatewaysAreFinite'
  BY DEF TInv, ReadForAttach, Attach, Detach, GatewaysAreFinite, GatewaysOf
<1> QED  BY <1>2, <1>7, <1>9, <1>10 DEF TInv

\* A check, or a request that is refused, changes nothing but what is asked.
OnlyAsked ==
  /\ asked' \in [Worker -> Checked \cup {Idle}]
  /\ UNCHANGED <<vpns, nets, routers, twice, plugged, status, job, seen, served, raced, failed>>

LEMMA ChecksOnly ==
  ASSUME TInv, NEW w \in Worker, Validate(w) \/ Refuse(w)
  PROVE  OnlyAsked
<1>0. asked \in [Worker -> Checked \cup {Idle}]  BY DEF TInv, TypeOK
<1>1. ASSUME NEW request \in Checked, Ask(w, request) PROVE OnlyAsked
  BY <1>0, <1>1 DEF Ask, OnlyAsked
<1>2. CASE Refuse(w)  BY <1>0, <1>2 DEF Refuse, OnlyAsked
<1>3. CASE Validate(w)
  <2>1. ASSUME NEW b \in Bgpvpn, NEW n \in Network, ValidateNetwork(w, b, n) PROVE OnlyAsked
    <3>1. <<"network", b, n>> \in Checked  BY DEF Checked
    <3> QED  BY <1>1, <2>1, <3>1 DEF ValidateNetwork
  <2>2. ASSUME NEW b \in Bgpvpn, NEW r \in Router, ValidateRouter(w, b, r) PROVE OnlyAsked
    <3>1. <<"router", b, r>> \in Checked  BY DEF Checked
    <3> QED  BY <1>1, <2>2, <3>1 DEF ValidateRouter
  <2>3. ASSUME NEW r \in Router, NEW n \in Network, ValidateInterface(w, r, n) PROVE OnlyAsked
    <3>1. <<"interface", r, n>> \in Checked  BY DEF Checked
    <3> QED  BY <1>1, <2>3, <3>1 DEF ValidateInterface
  <2> QED  BY <1>3, <2>1, <2>2, <2>3 DEF Validate
<1> QED  BY <1>2, <1>3

LEMMA AskedTypes ==
  ASSUME TInv, OnlyAsked
  PROVE  TInv' /\ Todo' = Todo
BY DEF TInv, TypeOK, OnlyAsked, OnItsBgpvpns, Todo, GatewaysAreFinite, GatewaysOf

LEMMA ToggleAdminTypes ==
  ASSUME TInv, NEW p \in Port, ToggleAdmin(p)
  PROVE  TInv' /\ Todo' = Todo
<1>1. TypeOK'  BY DEF TInv, TypeOK, ToggleAdmin, assocVars
<1>2. OnItsBgpvpns' /\ Todo' = Todo  BY DEF TInv, ToggleAdmin, OnItsBgpvpns, Todo
<1> QED  BY <1>1, <1>2 DEF TInv, ToggleAdmin, GatewaysAreFinite, GatewaysOf

LEMMA ProceedTypes ==
  ASSUME TInv, NEW w \in Worker, Proceed(w)
  PROVE  TInv'
<1>1. PICK s \in job[w].left :
        \/ SendRpc(w, s) \/ RaiseOnRpc(w, s)
        \/ ReadForAttach(w, s) \/ RaiseOnAttach(w, s) \/ Attach(w, s) \/ Detach(w, s)
  BY DEF Proceed
<1>2. CASE RaiseOnRpc(w, s)
  <2>1. MayDo(w, s, RpcKinds) /\ Raise(w, job[w].on)  BY <1>2 DEF RaiseOnRpc
  <2>2. job[w] # Idle /\ job[w].on \in SUBSET (Bgpvpn \cup Port)  BY <2>1, TaskOf
  <2> QED  BY <2>1, <2>2, RaiseTypes
<1>3. CASE RaiseOnAttach(w, s)
  <2>1. MayDo(w, s, {"attach"}) /\ Raise(w, {s.port})  BY <1>3 DEF RaiseOnAttach
  <2>2. job[w] # Idle /\ {s.port} \in SUBSET (Bgpvpn \cup Port)  BY <2>1, TaskOf DEF RpcKinds
  <2> QED  BY <2>1, <2>2, RaiseTypes
<1> QED  BY <1>1, <1>2, <1>3, SendRpcTypes, PortStepTypes

LEMMA InitTypes == Init => TInv /\ Todo = {}
<1> SUFFICES ASSUME Init PROVE TInv /\ Todo = {}  OBVIOUS
<1>0. NoVpn \in Info  BY DEF NoVpn, Info
<1>1. TypeOK
  <2>1. seen \in [Port -> Info \cup {None}]  BY <1>0 DEF Init
  <2>2. vpns \in [Bgpvpn -> RT \cup {None, "deleted"}]  BY DEF Init
  <2>3. status \in [Port -> {"off", "DOWN", "ACTIVE", "gone"}]  BY DEF Init
  <2> QED  BY <2>1, <2>2, <2>3, SubsetAssumption DEF Init, TypeOK
<1>2. OnItsBgpvpns /\ Todo = {}  BY DEF Init, OnItsBgpvpns, Todo
<1>3. \A n \in Network : GatewaysOf(n) = {}  BY DEF Init, GatewaysOf
<1> QED  BY <1>1, <1>2, <1>3, FS_EmptySet DEF TInv, GatewaysAreFinite

LEMMA SameTypes ==
  ASSUME TInv, UNCHANGED vars
  PROVE  TInv' /\ Todo' = Todo
BY DEF TInv, TypeOK, vars, assocVars, OnItsBgpvpns, Todo, GatewaysAreFinite, GatewaysOf

LEMMA NextTypes ==
  ASSUME TInv, [Next]_vars
  PROVE  TInv'
<1>1. CASE Next
  BY <1>1, BeginTypes, ProceedTypes, ToggleAdminTypes, ChecksOnly, AskedTypes DEF Next
<1> QED  BY <1>1, SameTypes

\* Requests keep the tables in order, and what is left to send after them is RPCs
\* on their BGPVPNs or the step of one port; a route target that is sent is never
\* that of a BGPVPN that is gone: it is read as such, and raises (bagpipe.py:265-501).
THEOREM TypeCorrect == Spec => []TypeOK
<1>1. TInv /\ [Next]_vars => TInv'  BY NextTypes
<1>2. TInv => TypeOK  BY DEF TInv
<1> QED  BY InitTypes, <1>1, <1>2, PTL DEF Spec

-----------------------------------------------------------------------------
(***************************************************************************)
(* Ports that are to hold nothing.                                         *)
(***************************************************************************)

\* Where nothing overlaps, a request finds only RPCs about other BGPVPNs left.
LEMMA Alone ==
  ASSUME TInv, NEW w \in Worker, NEW bs, Serve(w, bs), NEW b \in Bgpvpn, b \in bs, b \notin raced',
         NEW s \in Todo
  PROVE  IsRpc(s) /\ s.bgpvpn # b
<1>1. PICK v \in Worker : job[v] # Idle /\ s \in job[v].left  BY DEF Todo
<1>2. b \notin job[v].on  BY <1>1 DEF Serve
<1>3. TypeOK  BY DEF TInv
<1>4. IsRpc(s)  BY <1>1, <1>2, <1>3, Tasks
<1> QED  BY <1>1, <1>2, <1>4 DEF TInv, OnItsBgpvpns

LEMMA TodoTypes ==
  ASSUME TInv, NEW s \in Todo
  PROVE  /\ IsRpc(s) => s \in Rpc
         /\ ~ IsRpc(s) => s \in PortTask /\ s.port \in Port
<1>1. PICK v \in Worker : job[v] # Idle /\ s \in job[v].left  BY DEF Todo
<1>2. TypeOK  BY DEF TInv
<1> QED  BY <1>1, <1>2, Tasks, PortTaskIsNoRpc

PortsInv == TInv /\ IgnoredHaveNothing /\ DownHaveNothing

LEMMA BeginPorts ==
  ASSUME Bgpvpn # {}, PortsInv, NEW w \in Worker, Begin(w)
  PROVE  IgnoredHaveNothing' /\ DownHaveNothing'
<1>1. TInv /\ IgnoredHaveNothing /\ DownHaveNothing  BY DEF PortsInv
<1>2. PICK bs, left : Requested(w, bs, left)  BY <1>1, BeginRequests
<1>3. /\ job[w] = Idle /\ seen' = seen /\ raced \subseteq raced' /\ Serve(w, bs)
      /\ MayLeave(bs, left) /\ Then(w, bs, left)
      /\ OnlyRpcs(left) \/ \E p \in Port : PortChanged(p, bs, left)
  BY <1>2 DEF Requested, Serve
<1>4. Todo' = Todo \cup left  BY <1>1, <1>3, ThenTodo
<1>5. CASE OnlyRpcs(left)
  <2>1. status' = status /\ \A s \in left : IsRpc(s)  BY <1>5 DEF OnlyRpcs
  <2>2. IgnoredHaveNothing'
    BY <1>1, <1>3, <1>4, <2>1 DEF IgnoredHaveNothing, IgnorePort, IsRpc
  <2>3. DownHaveNothing'
    BY <1>1, <1>3, <1>4, <2>1 DEF DownHaveNothing, IsRpc, RpcKinds
  <2> QED  BY <2>2, <2>3
<1>6. ASSUME NEW p \in Port, PortChanged(p, bs, left)
      PROVE  IgnoredHaveNothing' /\ DownHaveNothing'
  <2>1. /\ bs = Bgpvpn
        /\ \A q \in Port \ {p} : status'[q] = status[q]
        /\ IgnorePort(p) => left = {}
        /\ \A s \in left :
             s \in PortTask /\ s.port = p
               /\ s.kind = IF status'[p] = "ACTIVE" THEN "attach" ELSE "detach"
        /\ ~ IgnorePort(p) => left # {}
    BY <1>6 DEF PortChanged
  <2>2. IgnoredHaveNothing'
    BY <1>1, <1>3, <1>4, <2>1 DEF IgnoredHaveNothing, IgnorePort, IsRpc
  <2>3. ASSUME raced' = {}
        PROVE  Todo = {}
    <3>1. PICK b \in Bgpvpn : TRUE  OBVIOUS
    <3>2. SUFFICES ASSUME NEW s \in Todo PROVE FALSE  OBVIOUS
    <3>3. IsRpc(s)  BY <1>1, <1>3, <2>1, <2>3, <3>1, Alone
    <3>4. s.bgpvpn \in Bgpvpn  BY <1>1, <3>3, TodoTypes DEF Rpc
    <3> QED  BY <1>1, <1>3, <2>1, <2>3, <3>4, Alone
  <2>4. ASSUME raced' = {}
        PROVE  /\ \A q \in Port :
                    \/ status'[q] = "ACTIVE" \/ seen'[q] = None
                    \/ \E s \in Todo' : s.kind = "detach" /\ s.port = q
               /\ \A s \in Todo' : s.kind \in {"attach", "send"} => status'[s.port] = "ACTIVE"
    <3>1. Todo = {} /\ Todo' = left /\ raced = {}  BY <1>3, <1>4, <2>3, <2>4
    <3>2. \A q \in Port : status[q] = "ACTIVE" \/ seen[q] = None
      BY <1>1, <3>1 DEF DownHaveNothing
    <3>3. IgnorePort(p) => seen[p] = None  BY <1>1 DEF IgnoredHaveNothing
    <3>4. \A s \in left : s.kind \in {"attach", "send"} => status'[s.port] = "ACTIVE"
      BY <2>1
    <3>5. ASSUME NEW q \in Port
          PROVE  \/ status'[q] = "ACTIVE" \/ seen'[q] = None
                 \/ \E s \in left : s.kind = "detach" /\ s.port = q
      BY <1>3, <2>1, <3>2, <3>3
    <3> QED  BY <3>1, <3>4, <3>5
  <2>5. DownHaveNothing'  BY <2>4 DEF DownHaveNothing
  <2> QED  BY <2>2, <2>5
<1> QED  BY <1>3, <1>5, <1>6

LEMMA ProceedPorts ==
  ASSUME PortsInv, NEW w \in Worker, Proceed(w)
  PROVE  IgnoredHaveNothing' /\ DownHaveNothing'
<1>1. TInv /\ IgnoredHaveNothing /\ DownHaveNothing /\ TypeOK  BY DEF PortsInv, TInv
<1>2. PICK s \in job[w].left :
        \/ SendRpc(w, s) \/ RaiseOnRpc(w, s)
        \/ ReadForAttach(w, s) \/ RaiseOnAttach(w, s) \/ Attach(w, s) \/ Detach(w, s)
  BY DEF Proceed
<1>3. raced' = raced /\ status' = status
  BY <1>2 DEF SendRpc, RaiseOnRpc, ReadForAttach, RaiseOnAttach, Attach, Detach, Raise
<1>4. CASE SendRpc(w, s)
  <2>1. MayDo(w, s, RpcKinds) /\ Onwards(w, s, {})  BY <1>4 DEF SendRpc
  <2>2. Todo' \subseteq Todo /\ Todo \ {s} \subseteq Todo'  BY <1>1, <2>1, OnwardsTodo
  <2>3. IsRpc(s)  BY <1>1, <2>1, TaskOf DEF IsRpc
  <2>4. \A p \in Port : seen[p] = None => seen'[p] = None  BY <1>4 DEF SendRpc, Told
  <2>5. IgnoredHaveNothing'
    BY <1>1, <2>2, <2>4 DEF IgnoredHaveNothing, IgnorePort, IsRpc
  <2>6. DownHaveNothing'
    BY <1>1, <1>3, <2>2, <2>3, <2>4 DEF DownHaveNothing, IsRpc, RpcKinds
  <2> QED  BY <2>5, <2>6
<1>5. CASE RaiseOnRpc(w, s) \/ RaiseOnAttach(w, s)
  <2>1. PICK about, kinds : Raise(w, about) /\ MayDo(w, s, kinds) /\ "detach" \notin kinds
    BY <1>5 DEF RaiseOnRpc, RaiseOnAttach, RpcKinds
  <2>2. job[w] # Idle /\ seen' = seen  BY <2>1 DEF Raise, MayDo
  <2>3. Todo' \subseteq Todo /\ Todo \ job[w].left \subseteq Todo'  BY <1>1, <2>1, <2>2, RaiseTodo
  <2>4. ASSUME NEW t \in job[w].left
        PROVE  t.kind # "detach"
    <3>1. CASE IsRpc(t)  BY <3>1 DEF IsRpc, RpcKinds
    <3>2. CASE ~ IsRpc(t)
      <4>1. t = s  BY <1>1, <2>2, <3>2, Tasks
      <4> QED  BY <2>1, <4>1 DEF MayDo
    <3> QED  BY <3>1, <3>2
  <2>5. IgnoredHaveNothing'
    BY <1>1, <2>2, <2>3 DEF IgnoredHaveNothing, IgnorePort, IsRpc
  <2>6. DownHaveNothing'
    BY <1>1, <1>3, <2>2, <2>3, <2>4 DEF DownHaveNothing
  <2> QED  BY <2>5, <2>6
<1>6. CASE ReadForAttach(w, s)
  <2> DEFINE send == [kind |-> "send", port |-> s.port, info |-> PortInfo(s.port)]
  <2>1. PICK more \in {{}, {send}} : MayDo(w, s, {"attach"}) /\ Onwards(w, s, more)
    BY <1>6 DEF ReadForAttach
  <2>2. s \in Todo /\ s.kind = "attach" /\ s.port \in Port /\ ~ IsRpc(s)
    BY <1>1, <2>1, TaskOf DEF RpcKinds, IsRpc
  <2>3. send \in PortTask /\ send.kind = "send" /\ send.port = s.port
    BY <1>1, <2>2, PortInfoType, SendType
  <2> HIDE DEF send
  <2>4. Todo' \subseteq Todo \cup {send} /\ Todo \ {s} \subseteq Todo'
    BY <1>1, <2>1, <2>2, <2>3, OnwardsTodo
  <2>5. seen' = seen  BY <1>6 DEF ReadForAttach
  <2>6. IgnoredHaveNothing'
    BY <1>1, <2>2, <2>3, <2>4, <2>5 DEF IgnoredHaveNothing, IgnorePort, IsRpc
  <2>7. DownHaveNothing'
    BY <1>1, <1>3, <2>2, <2>3, <2>4, <2>5 DEF DownHaveNothing
  <2> QED  BY <2>6, <2>7
<1>7. CASE Attach(w, s) \/ Detach(w, s)
  <2>1. PICK kind \in {"send", "detach"} : MayDo(w, s, {kind}) /\ Onwards(w, s, {})
    BY <1>7 DEF Attach, Detach
  <2>2. s \in Todo /\ s.port \in Port /\ ~ IsRpc(s) /\ s.kind = kind
    BY <1>1, <2>1, TaskOf DEF RpcKinds, IsRpc
  <2>3. Todo' \subseteq Todo /\ Todo \ {s} \subseteq Todo'  BY <1>1, <2>1, OnwardsTodo
  <2>4. /\ \A p \in Port \ {s.port} : seen'[p] = seen[p]
        /\ s.kind = "detach" => seen'[s.port] = None
    BY <1>1, <1>7, <2>2 DEF Attach, Detach, MayDo, TypeOK
  <2>5. IgnoredHaveNothing'
    BY <1>1, <2>2, <2>3, <2>4 DEF IgnoredHaveNothing, IgnorePort, IsRpc
  <2>6. DownHaveNothing'
    BY <1>1, <1>3, <2>2, <2>3, <2>4 DEF DownHaveNothing
  <2> QED  BY <2>5, <2>6
<1> QED  BY <1>2, <1>4, <1>5, <1>6, <1>7

LEMMA NextPorts ==
  ASSUME Bgpvpn # {}, PortsInv, [Next]_vars
  PROVE  PortsInv'
<1>1. TInv'  BY NextTypes DEF PortsInv
<1>2. CASE Next
  <2>1. ASSUME NEW w \in Worker, Begin(w) \/ Proceed(w)
        PROVE  IgnoredHaveNothing' /\ DownHaveNothing'
    BY <2>1, BeginPorts, ProceedPorts
  <2>2. ASSUME NEW p \in Port, ToggleAdmin(p)
        PROVE  IgnoredHaveNothing' /\ DownHaveNothing'
    <3>1. Todo' = Todo /\ seen' = seen /\ raced' = raced
      BY <2>2, ToggleAdminTypes DEF ToggleAdmin, PortsInv
    <3>2. \A q \in Port : status'[q] = status[q] \/ (status[q] # "ACTIVE" /\ status'[q] # "ACTIVE")
      BY <2>2 DEF ToggleAdmin, PortsInv, TInv, TypeOK
    <3>3. \A s \in Todo : s.kind \in {"attach", "send"} => s.port \in Port
      BY TodoTypes DEF PortsInv, IsRpc, RpcKinds
    <3>4. IgnoredHaveNothing'
      BY <3>1 DEF PortsInv, IgnoredHaveNothing, IgnorePort, IsRpc
    <3>5. DownHaveNothing'
      BY <3>1, <3>2, <3>3 DEF PortsInv, DownHaveNothing
    <3> QED  BY <3>4, <3>5
  <2>3. ASSUME OnlyAsked
        PROVE  IgnoredHaveNothing' /\ DownHaveNothing'
    <3>1. Todo' = Todo /\ seen' = seen /\ raced' = raced /\ status' = status
      BY <2>3, AskedTypes DEF OnlyAsked, PortsInv
    <3>2. IgnoredHaveNothing'
      BY <3>1 DEF PortsInv, IgnoredHaveNothing, IgnorePort, IsRpc
    <3>3. DownHaveNothing'  BY <3>1 DEF PortsInv, DownHaveNothing
    <3> QED  BY <3>2, <3>3
  <2> QED  BY <1>1, <1>2, <2>1, <2>2, <2>3, ChecksOnly DEF Next, PortsInv
<1>3. CASE UNCHANGED vars
  <2>1. Todo' = Todo /\ seen' = seen /\ raced' = raced /\ status' = status
    BY <1>3, SameTypes DEF vars, PortsInv
  <2>2. IgnoredHaveNothing'
    BY <2>1 DEF PortsInv, IgnoredHaveNothing, IgnorePort, IsRpc
  <2>3. DownHaveNothing'  BY <2>1 DEF PortsInv, DownHaveNothing
  <2> QED  BY <1>1, <2>2, <2>3 DEF PortsInv
<1> QED  BY <1>1, <1>2, <1>3 DEF PortsInv

\* When nobody is busy, nothing is left to do.
LEMMA NothingLeft ==
  ASSUME TInv, Bgpvpn # {}, Busy = {}
  PROVE  Todo = {}
<1> SUFFICES ASSUME NEW s \in Todo PROVE FALSE  OBVIOUS
<1>1. PICK v \in Worker : job[v] # Idle /\ s \in job[v].left  BY DEF Todo
<1>2. job[v].on = {}  BY <1>1 DEF Busy
<1>3. TypeOK  BY DEF TInv
<1>4. IsRpc(s)  BY <1>1, <1>2, <1>3, Tasks
<1> QED  BY <1>1, <1>2, <1>4 DEF TInv, OnItsBgpvpns

LEMMA PortsInvImplies ==
  ASSUME Bgpvpn # {}, PortsInv
  PROVE  OtherPortsHaveNothing
<1> SUFFICES ASSUME NEW p \in Port,
                    \/ Excluded(p)
                    \/ status[p] # "ACTIVE" /\ Busy \cup raced = {}
             PROVE  seen[p] = None
  BY DEF OtherPortsHaveNothing
<1>1. CASE Excluded(p)
  BY <1>1 DEF Excluded, PortsInv, IgnoredHaveNothing, IgnorePort
<1>2. CASE status[p] # "ACTIVE" /\ Busy \cup raced = {}
  <2>1. Todo = {} /\ raced = {}  BY <1>2, NothingLeft DEF PortsInv
  <2> QED  BY <1>2, <2>1 DEF PortsInv, DownHaveNothing
<1> QED  BY <1>1, <1>2

\* If there are BGPVPNs at all, what an agent holds of a port goes with the port,
\* whatever is read and sent in the meantime: an attach that is received after it
\* was read finds the port still ACTIVE, unless events overlapped; and no request,
\* event or RPC ever gives anything to a port the documentation excludes
\* (bagpipe.py:381-447).
THEOREM OtherPortsHaveNothingCorrect ==
  ASSUME Bgpvpn # {}
  PROVE  Spec => []OtherPortsHaveNothing
<1>1. Init => PortsInv
  <2> SUFFICES ASSUME Init PROVE PortsInv  OBVIOUS
  <2>1. TInv /\ Todo = {}  BY InitTypes
  <2>2. \A p \in Port : seen[p] # None => status[p] = "ACTIVE" /\ ~ IgnorePort(p)
    BY DEF Init, Excluded, IgnorePort
  <2> QED  BY <2>1, <2>2 DEF PortsInv, IgnoredHaveNothing, DownHaveNothing
<1>2. PortsInv /\ [Next]_vars => PortsInv'  BY NextPorts
<1>3. PortsInv => OtherPortsHaveNothing  BY PortsInvImplies
<1> QED  BY <1>1, <1>2, <1>3, PTL DEF Spec

-----------------------------------------------------------------------------
(***************************************************************************)
(* Networks and the routers on them: what is bound twice.                  *)
(***************************************************************************)

LEMMA TwoGateways ==
  ASSUME TInv, NEW n \in Network, NEW r \in GatewaysOf(n), NEW t \in GatewaysOf(n), r # t
  PROVE  ~ OneGateway(n)
<1>1. IsFiniteSet(GatewaysOf(n))  BY DEF TInv, GatewaysAreFinite
<1>2. Cardinality(GatewaysOf(n)) \in Nat  BY <1>1, FS_CardinalityType
<1>3. Cardinality(GatewaysOf(n)) # 0  BY <1>1, FS_EmptySet
<1>4. Cardinality(GatewaysOf(n)) # 1
  <2>1. SUFFICES ASSUME Cardinality(GatewaysOf(n)) = 1 PROVE FALSE  OBVIOUS
  <2>2. PICK x : GatewaysOf(n) = {x}  BY <1>1, <2>1, FS_Singleton
  <2> QED  BY <2>2
<1> QED  BY <1>2, <1>3, <1>4 DEF OneGateway

\* Only a write binds more, and then what is bound twice is noted.
LEMMA TwiceStep ==
  ASSUME TInv, TwiceKnown, NEW w \in Worker, Begin(w)
  PROVE  twice \subseteq twice' /\ TwiceKnown'
<1>0. TypeOK  BY DEF TInv
<1>1. ASSUME twice' = twice, plugged' \subseteq plugged,
             \A b \in Bgpvpn : nets'[b] \subseteq nets[b] /\ routers'[b] \subseteq routers[b]
      PROVE  TwiceKnown'
  BY <1>1 DEF TwiceKnown, BoundTwice, AssociatedNetworks
<1>2. ASSUME NEW request, Write(w, request)
      PROVE  twice \subseteq twice' /\ TwiceKnown'
  BY <1>2 DEF TwiceKnown, Write
<1>3. ASSUME NEW b \in Bgpvpn, NEW rt \in RT, CreateBgpvpn(w, b, rt) \/ UpdateBgpvpn(w, b, rt)
      PROVE  twice \subseteq twice' /\ TwiceKnown'
  BY <1>1, <1>3 DEF CreateBgpvpn, UpdateBgpvpn
<1>4. ASSUME NEW b \in Bgpvpn, DeleteBgpvpn(w, b)
      PROVE  twice \subseteq twice' /\ TwiceKnown'
  BY <1>0, <1>1, <1>4 DEF DeleteBgpvpn, TypeOK
<1>5. ASSUME NEW b \in Bgpvpn, NEW n \in Network, DeleteNetAssoc(w, b, n)
      PROVE  twice \subseteq twice' /\ TwiceKnown'
  BY <1>0, <1>1, <1>5 DEF DeleteNetAssoc, TypeOK
<1>6. ASSUME NEW b \in Bgpvpn, NEW r \in Router, DeleteRouterAssoc(w, b, r)
      PROVE  twice \subseteq twice' /\ TwiceKnown'
  BY <1>0, <1>1, <1>6 DEF DeleteRouterAssoc, TypeOK
<1>7. ASSUME NEW r \in Router, NEW n \in Network, RemoveInterface(w, r, n)
      PROVE  twice \subseteq twice' /\ TwiceKnown'
  BY <1>1, <1>7 DEF RemoveInterface, assocVars
<1>8. ASSUME NEW p \in Port, PortUp(w, p) \/ PortDown(w, p) \/ DeletePort(w, p)
      PROVE  twice \subseteq twice' /\ TwiceKnown'
  BY <1>1, <1>8 DEF PortUp, PortDown, DeletePort, PortEvent, assocVars
<1> QED
  BY <1>2, <1>3, <1>4, <1>5, <1>6, <1>7, <1>8
     DEF Begin, CreateNetAssoc, CreateRouterAssoc, AddInterface

LEMMA BothIsTwice ==
  ASSUME TInv, TwiceKnown, NEW n,
         NEW b \in Bgpvpn, n \in nets[b], NEW c \in Bgpvpn, NEW r \in routers[c], <<r, n>> \in plugged
  PROVE  n \in twice
BY DEF TwiceKnown, BoundTwice, AssociatedNetworks

\* The BGPVPNs of a network, by associations of networks or else of routers, are
\* those it is bound to, unless it is bound twice.
LEMMA BgpvpnsAreBound ==
  ASSUME TInv, TwiceKnown, NEW n \in Network, NEW b \in Bgpvpn
  PROVE  /\ b \in BgpvpnsForNetwork(n, plugged) => Bound(b, n)
         /\ Bound(b, n) => b \in BgpvpnsForNetwork(n, plugged) \/ n \in twice
BY BothIsTwice DEF BgpvpnsForNetwork, Bound

LEMMA InfoFits ==
  ASSUME TInv, TwiceKnown, NEW p \in Port, NEW b \in Bgpvpn
  PROVE  Fits(PortInfo(p), p, b)
<1> DEFINE n == NetworkOf[p]
<1>1. n \in Network  BY PortAssumption
<1>2. /\ b \in BgpvpnsForNetwork(n, plugged) => Bound(b, n)
      /\ Bound(b, n) => b \in BgpvpnsForNetwork(n, plugged) \/ n \in twice
  BY <1>1, BgpvpnsAreBound
<1>3. /\ PortInfo(p).vpn[b] = IF b \in BgpvpnsForNetwork(n, plugged) THEN vpns[b] ELSE None
      /\ PortInfo(p).gateway = (GatewaysOf(n) # {})
  BY DEF PortInfo
<1> QED  BY <1>2, <1>3 DEF Fits

-----------------------------------------------------------------------------
(***************************************************************************)
(* What a request or an event leaves to settle, BGPVPN by BGPVPN.          *)
(***************************************************************************)

\* All is settled for b, but for what is left.
Settled(b) ==
  /\ \A s \in Todo : IsRpc(s) /\ s.bgpvpn # b
  /\ \A p \in Port : Served(p) => HasVpn(p, b)
  /\ \A n \in Network : \A r, t \in routers[b] \cap GatewaysOf(n) : r = t

LEMMA SettledAtFirst ==
  ASSUME TInv, NEW w \in Worker, NEW bs, Serve(w, bs), NEW b \in Bgpvpn, b \in bs, b \notin raced',
         Settling(b)
  PROVE  Settled(b)
<1>1. \A s \in Todo : IsRpc(s) /\ s.bgpvpn # b  BY Alone
<1>2. \A p \in Port : Served(p) => HasVpn(p, b)
  BY <1>1 DEF Settling, PortsSettle, Settles, HasVpn, IsAbout, IsRpc, RpcKinds
<1>3. \A n \in Network : \A r, t \in routers[b] \cap GatewaysOf(n) : r = t
  BY <1>1 DEF Settling, SecondRouterRaises, IsAbout
<1> QED  BY <1>1, <1>2, <1>3 DEF Settled

\* Nothing changes for b on network n.
SameOn(b, n) ==
  /\ Bound(b, n)' <=> Bound(b, n)
  /\ Bound(b, n) => vpns'[b] = vpns[b] /\ (GatewaysOf(n)' # {} <=> GatewaysOf(n) # {})
  /\ routers'[b] \cap GatewaysOf(n)' \subseteq routers[b] \cap GatewaysOf(n)

\* The RPCs a request leaves are right, and cover the networks it changes.
Covers(left, b) ==
  /\ \A s \in left : IsRpc(s)
  /\ \A s \in left : Right(s, b)'
  /\ \A n \in Network : (\E s \in left : IsAbout(s, b, n)) \/ SameOn(b, n)

LEMMA FitsStill ==
  ASSUME NEW p \in Port, NEW b \in Bgpvpn, NEW info, Fits(info, p, b), twice \subseteq twice', SameOn(b, NetworkOf[p])
  PROVE  Fits(info, p, b)'
BY DEF Fits, SameOn

LEMMA RequestSettles ==
  ASSUME TInv, NEW b \in Bgpvpn, Settled(b), NEW left, Todo' = Todo \cup left, Covers(left, b),
         twice \subseteq twice', status' = status, seen' = seen, failed' = failed
  PROVE  Settling(b)'
<1>1. ASSUME NEW s \in Todo'
      PROVE  Right(s, b)'
  <2>1. CASE s \in left  BY <2>1 DEF Covers
  <2>2. CASE s \in Todo  BY <2>2 DEF Settled, Right, IsRpc, RpcKinds
  <2> QED  BY <1>1, <2>1, <2>2
<1>2. SecondRouterRaises(b)'
  <2>1. ASSUME NEW n \in Network, NEW r \in routers'[b] \cap GatewaysOf(n)',
               NEW t \in routers'[b] \cap GatewaysOf(n)', r # t
        PROVE  \E s \in Todo' : IsAbout(s, b, n)
    <3>1. ~ SameOn(b, n)  BY <2>1 DEF SameOn, Settled
    <3> QED  BY <3>1 DEF Covers
  <2> QED  BY <2>1 DEF SecondRouterRaises, IsAbout, IsRpc
<1>3. PortsSettle(b)'
  <2>1. SUFFICES ASSUME NEW p \in Port, Served(p)'
                 PROVE  Settles(p, b)'
    BY DEF PortsSettle
  <2>2. seen[p] # None /\ Fits(seen[p], p, b)
    BY <2>1 DEF Served, Settled, HasVpn
  <2>3. NetworkOf[p] \in Network  BY PortAssumption
  <2>4. CASE \E s \in left : IsAbout(s, b, NetworkOf[p])
    BY <2>2, <2>4 DEF Settles, IsAbout, IsRpc
  <2>5. CASE SameOn(b, NetworkOf[p])
    <3>1. Fits(seen[p], p, b)'  BY <2>2, <2>5, FitsStill DEF Fits
    <3> QED  BY <2>2, <3>1 DEF Settles
  <2> QED  BY <2>3, <2>4, <2>5 DEF Covers
<1> QED  BY <1>1, <1>2, <1>3 DEF Settling, TasksAreRight

\* A request on other BGPVPNs changes nothing for b.
LEMMA OthersSettle ==
  ASSUME NEW b \in Bgpvpn, Settling(b), NEW left, Todo' = Todo \cup left,
         \A s \in left : IsRpc(s) /\ s.bgpvpn # b,
         vpns'[b] = vpns[b], nets'[b] = nets[b], routers'[b] = routers[b], plugged' = plugged,
         twice \subseteq twice', status' = status, seen' = seen, failed' = failed
  PROVE  Settling(b)'
<1>1. \A n : Bound(b, n)' <=> Bound(b, n)  BY DEF Bound
<1>2. \A n : GatewaysOf(n)' = GatewaysOf(n)  BY DEF GatewaysOf
<1>3. \A info, p : Fits(info, p, b) => Fits(info, p, b)'  BY <1>1, <1>2 DEF Fits
<1>4. \A s \in Todo' : Right(s, b)'
  BY <1>1, <1>3 DEF Settling, TasksAreRight, Right, IsRpc, RpcKinds
<1>5. SecondRouterRaises(b)'
  BY <1>2 DEF Settling, SecondRouterRaises, IsAbout, IsRpc
<1>6. PortsSettle(b)'
  BY <1>3 DEF Settling, PortsSettle, Settles, Served, IsAbout, IsRpc
<1> QED  BY <1>4, <1>5, <1>6 DEF Settling, TasksAreRight

LEMMA CoversNetworks ==
  ASSUME NEW kind \in {"update", "delete"}, NEW b, NEW ns, NEW rt,
         kind = "update" => rt[b] \in {None, vpns'[b]},
         \A n \in ns : IF kind = "delete" THEN ~ Bound(b, n)' \/ n \in twice' ELSE Bound(b, n)',
         \A n \in Network : n \in ns \/ SameOn(b, n)
  PROVE  Covers(Rpcs(kind, {b} \X ns, rt), b)
<1> DEFINE pairs == {b} \X ns
           left == Rpcs(kind, pairs, rt)
<1>0. Spans(pairs, b, ns)  BY DEF Spans
<1> HIDE DEF pairs
<1>1. \A s \in left : s.kind = kind /\ s.bgpvpn = b /\ s.network \in ns /\ s.rt = rt[b]
  BY <1>0, RpcsAbout
<1>5. ASSUME NEW n \in ns
      PROVE  \E s \in left : s.network = n
  BY <1>0, RpcsReach
<1> HIDE DEF left
<1>2. \A s \in left : IsRpc(s)  BY <1>1 DEF IsRpc, RpcKinds
<1>3. ASSUME NEW s \in left
      PROVE  Right(s, b)'
  <2>1. s.kind = kind /\ s.bgpvpn = b /\ s.network \in ns /\ s.rt = rt[b]  BY <1>1
  <2>2. IF s.kind = "delete" THEN ~ Bound(b, s.network)' \/ s.network \in twice'
        ELSE Bound(b, s.network)' /\ s.rt \in {None, vpns'[b]}
    BY <2>1
  <2> QED  BY <2>1, <2>2 DEF Right
<1>4. \A n \in Network : (\E s \in left : IsAbout(s, b, n)) \/ SameOn(b, n)
  BY <1>1, <1>2, <1>5 DEF IsAbout
<1> QED  BY <1>2, <1>3, <1>4 DEF Covers, left, pairs

LEMMA CreateBgpvpnCovers ==
  ASSUME TInv, NEW w \in Worker, NEW b \in Bgpvpn, NEW rt \in RT, CreateBgpvpn(w, b, rt)
  PROVE  Covers({}, b)
<1>1. nets' = nets /\ routers' = routers /\ plugged' = plugged  BY DEF CreateBgpvpn
<1>2. vpns[b] \notin RT  BY NoneAssumption DEF CreateBgpvpn
<1>3. nets[b] = {} /\ routers[b] = {}  BY <1>2 DEF TInv, TypeOK
<1> QED  BY <1>1, <1>3 DEF Covers, SameOn, Bound

LEMMA UpdateBgpvpnCovers ==
  ASSUME TInv, NEW w \in Worker, NEW b \in Bgpvpn, NEW rt \in RT, UpdateBgpvpn(w, b, rt)
  PROVE  Covers(Rpcs("update", {b} \X NetworksForBgpvpn(b), vpns'), b)
<1>1. nets' = nets /\ routers' = routers /\ plugged' = plugged  BY DEF UpdateBgpvpn
<1>2. \A n : (Bound(b, n)' <=> Bound(b, n)) /\ GatewaysOf(n)' = GatewaysOf(n)
  BY <1>1 DEF Bound, GatewaysOf
<1>3. \A n \in NetworksForBgpvpn(b) : Bound(b, n)'
  BY <1>2, NetworksAreBound
<1>4. \A n \in Network : n \in NetworksForBgpvpn(b) \/ SameOn(b, n)
  BY <1>1, <1>2, NetworksAreBound DEF SameOn
<1> QED  BY <1>3, <1>4, CoversNetworks

LEMMA DeleteBgpvpnCovers ==
  ASSUME TInv, NEW w \in Worker, NEW b \in Bgpvpn, DeleteBgpvpn(w, b)
  PROVE  Covers(Rpcs("delete", {b} \X NetworksForBgpvpn(b), vpns), b)
<1>1. nets'[b] = {} /\ routers'[b] = {}  BY DEF DeleteBgpvpn, TInv, TypeOK
<1>2. \A n : ~ Bound(b, n)'  BY <1>1 DEF Bound
<1>3. \A n \in Network : n \in NetworksForBgpvpn(b) \/ SameOn(b, n)
  BY <1>1, <1>2, NetworksAreBound DEF SameOn
<1> QED  BY <1>2, <1>3, CoversNetworks

LEMMA NetAssocCovers ==
  ASSUME TInv, TwiceKnown,
         NEW w \in Worker, NEW b \in Bgpvpn, NEW n \in Network
  PROVE  /\ CreateNetAssoc(w, b, n) => Covers(Rpcs("update", {b} \X {n}, Reread), b)
         /\ DeleteNetAssoc(w, b, n) => Covers(Rpcs("delete", {b} \X {n}, Reread), b)
<1>1. Reread[b] = None  BY RereadType
<1>2. ASSUME CreateNetAssoc(w, b, n)
      PROVE  Covers(Rpcs("update", {b} \X {n}, Reread), b)
  <2>1. /\ nets'[b] = nets[b] \cup {n} /\ routers' = routers /\ plugged' = plugged /\ vpns' = vpns
    BY <1>2 DEF CreateNetAssoc, TInv, TypeOK
  <2>2. Bound(b, n)'  BY <2>1 DEF Bound
  <2>3. \A m \in Network : m \in {n} \/ SameOn(b, m)
    BY <2>1 DEF SameOn, Bound, GatewaysOf
  <2> QED  BY <1>1, <2>2, <2>3, CoversNetworks
<1>3. ASSUME DeleteNetAssoc(w, b, n)
      PROVE  Covers(Rpcs("delete", {b} \X {n}, Reread), b)
  <2>1. /\ nets'[b] = nets[b] \ {n} /\ routers' = routers /\ plugged' = plugged /\ vpns' = vpns
        /\ n \in nets[b]
    BY <1>3 DEF DeleteNetAssoc, TInv, TypeOK
  <2>2. ~ Bound(b, n)' \/ n \in twice'
    <3>1. twice' = twice  BY <1>3 DEF DeleteNetAssoc
    <3> QED  BY <2>1, <3>1, BothIsTwice DEF Bound
  <2>3. \A m \in Network : m \in {n} \/ SameOn(b, m)
    BY <2>1 DEF SameOn, Bound, GatewaysOf
  <2> QED  BY <1>1, <2>2, <2>3, CoversNetworks
<1> QED  BY <1>2, <1>3

LEMMA RouterAssocCovers ==
  ASSUME TInv, TwiceKnown,
         NEW w \in Worker, NEW b \in Bgpvpn, Settled(b), NEW r \in Router
  PROVE  /\ CreateRouterAssoc(w, b, r) =>
              Covers(Rpcs("update", {b} \X NetworksForRouter(r), Reread), b)
         /\ DeleteRouterAssoc(w, b, r) =>
              Covers(Rpcs("delete", {b} \X NetworksForRouter(r), Reread), b)
<1>1. Reread[b] = None  BY RereadType
<1>2. ASSUME CreateRouterAssoc(w, b, r)
      PROVE  Covers(Rpcs("update", {b} \X NetworksForRouter(r), Reread), b)
  <2>1. routers'[b] = routers[b] \cup {r} /\ nets' = nets /\ plugged' = plugged /\ vpns' = vpns
    BY <1>2 DEF CreateRouterAssoc, TInv, TypeOK
  <2>2. \A m \in NetworksForRouter(r) : Bound(b, m)'  BY <2>1 DEF Bound, NetworksForRouter
  <2>3. \A m \in Network : m \in NetworksForRouter(r) \/ SameOn(b, m)
    BY <2>1 DEF SameOn, Bound, GatewaysOf, NetworksForRouter
  <2> QED  BY <1>1, <2>2, <2>3, CoversNetworks
<1>3. ASSUME DeleteRouterAssoc(w, b, r)
      PROVE  Covers(Rpcs("delete", {b} \X NetworksForRouter(r), Reread), b)
  <2>1. /\ routers'[b] = routers[b] \ {r} /\ nets' = nets /\ plugged' = plugged /\ vpns' = vpns
        /\ r \in routers[b]
    BY <1>3 DEF DeleteRouterAssoc, TInv, TypeOK
  <2>2. ASSUME NEW m \in NetworksForRouter(r)
        PROVE  ~ Bound(b, m)' \/ m \in twice'
    <3>1. m \in Network /\ <<r, m>> \in plugged  BY DEF NetworksForRouter
    <3>2. m \notin nets[b] \/ m \in twice'
      <4>1. twice' = twice  BY <1>3 DEF DeleteRouterAssoc
      <4> QED  BY <2>1, <3>1, <4>1, BothIsTwice
    <3>3. \A t \in routers[b] : <<t, m>> \in plugged => t = r
      BY <2>1, <3>1 DEF Settled, GatewaysOf, TInv, TypeOK
    <3> QED  BY <2>1, <3>2, <3>3 DEF Bound
  <2>3. \A m \in Network : m \in NetworksForRouter(r) \/ SameOn(b, m)
    BY <2>1 DEF SameOn, Bound, GatewaysOf, NetworksForRouter
  <2> QED  BY <1>1, <2>2, <2>3, CoversNetworks
<1> QED  BY <1>2, <1>3

\* The RPCs of an event of the interface of r on n: a refresh or the RPC itself,
\* and one at least for each BGPVPN of r, or found by the network.
OnInterface(left, kind, r, n, interfaces) ==
  /\ \A s \in left :
       /\ IsRpc(s) /\ s.network = n
       /\ \/ /\ s.kind = "refresh" /\ s.rt = vpns[s.bgpvpn]
             /\ s.bgpvpn \in BgpvpnsForNetwork(n, interfaces)
          \/ s.kind = kind /\ r \in routers[s.bgpvpn] /\ s.rt = None
  /\ \A b \in Bgpvpn :
       \/ r \in routers[b]
       \/ /\ b \in BgpvpnsForNetwork(n, interfaces)
          /\ \E c \in Bgpvpn : n \in nets[c] \/ r \in routers[c]
       => \E s \in left : IsAbout(s, b, n)

LEMMA InterfaceRpcsAbout ==
  ASSUME NEW kind \in {"update", "delete"}, NEW r, NEW n, NEW interfaces
  PROVE  OnInterface(InterfaceRpcs(kind, r, n, interfaces), kind, r, n, interfaces)
<1> DEFINE left == InterfaceRpcs(kind, r, n, interfaces)
           bound == \E c \in Bgpvpn : n \in nets[c] \/ r \in routers[c]
<1>1. ASSUME NEW s \in left
      PROVE  /\ IsRpc(s) /\ s.network = n
             /\ \/ /\ s.kind = "refresh" /\ s.rt = vpns[s.bgpvpn]
                   /\ s.bgpvpn \in BgpvpnsForNetwork(n, interfaces)
                \/ s.kind = kind /\ r \in routers[s.bgpvpn] /\ s.rt = None
  <2>1. CASE \E b \in Bgpvpn :
               b \in BgpvpnsForNetwork(n, interfaces) /\ s = RpcOf("refresh", b, n, vpns[b])
    BY <2>1 DEF RpcOf, IsRpc, RpcKinds
  <2>2. CASE \E b \in Bgpvpn : r \in routers[b] /\ s = RpcOf(kind, b, n, None)
    BY <2>2 DEF RpcOf, IsRpc, RpcKinds
  <2> QED  BY <2>1, <2>2, InterfaceRpcsOf
<1>2. ASSUME NEW b \in Bgpvpn, r \in routers[b]
      PROVE  \E s \in left : IsAbout(s, b, n)
  <2>1. RpcOf(kind, b, n, None) \in left  BY <1>2, InterfaceRpcsOf
  <2>2. IsAbout(RpcOf(kind, b, n, None), b, n)  BY DEF RpcOf, IsAbout, IsRpc, RpcKinds
  <2> QED  BY <2>1, <2>2
<1>3. ASSUME NEW b \in Bgpvpn, b \in BgpvpnsForNetwork(n, interfaces), bound
      PROVE  \E s \in left : IsAbout(s, b, n)
  <2>1. RpcOf("refresh", b, n, vpns[b]) \in left  BY <1>3, InterfaceRpcsOf
  <2>2. IsAbout(RpcOf("refresh", b, n, vpns[b]), b, n)
    BY DEF RpcOf, IsAbout, IsRpc, RpcKinds
  <2> QED  BY <2>1, <2>2
<1> QED  BY <1>1, <1>2, <1>3 DEF OnInterface

\* The BGPVPNs of the network are told again, but for those whose routers stay.
LEMMA InterfaceCovers ==
  ASSUME TInv, TwiceKnown, NEW b \in Bgpvpn, Settled(b),
         NEW r \in Router, NEW n \in Network, NEW kind \in {"update", "delete"},
         vpns' = vpns, nets' = nets, routers' = routers, twice \subseteq twice',
         IF kind = "update" THEN plugged' = plugged \cup {<<r, n>>}
         ELSE <<r, n>> \in plugged /\ plugged' = plugged \ {<<r, n>>}
  PROVE  Covers(InterfaceRpcs(kind, r, n, plugged'), b)
<1> DEFINE left == InterfaceRpcs(kind, r, n, plugged')
           bound == \E c \in Bgpvpn : n \in nets[c] \/ r \in routers[c]
<1>1. /\ \A s \in left :
           /\ IsRpc(s) /\ s.network = n
           /\ \/ /\ s.kind = "refresh" /\ s.rt = vpns[s.bgpvpn]
                 /\ s.bgpvpn \in BgpvpnsForNetwork(n, plugged')
              \/ s.kind = kind /\ r \in routers[s.bgpvpn] /\ s.rt = None
      /\ \/ r \in routers[b]
         \/ b \in BgpvpnsForNetwork(n, plugged') /\ bound
         => \E s \in left : IsAbout(s, b, n)
  <2>1. OnInterface(InterfaceRpcs(kind, r, n, plugged'), kind, r, n, plugged')
    BY InterfaceRpcsAbout
  <2> HIDE DEF left
  <2>2. OnInterface(left, kind, r, n, plugged')  BY <2>1 DEF left
  <2> QED  BY <2>2 DEF OnInterface
<1> HIDE DEF left
<1>2. \A m : Bound(b, m)' <=> m \in nets[b] \/ \E t \in routers[b] : <<t, m>> \in plugged'
  BY DEF Bound
<1>3. b \in BgpvpnsForNetwork(n, plugged') => Bound(b, n)'
  BY <1>2 DEF BgpvpnsForNetwork
<1>4. r \in routers[b] =>
        IF kind = "delete" THEN ~ Bound(b, n)' \/ n \in twice' ELSE Bound(b, n)'
  <2>1. CASE kind = "update"  BY <1>2, <2>1
  <2>2. CASE kind = "delete" /\ r \in routers[b]
    <3>1. <<r, n>> \in plugged /\ plugged' = plugged \ {<<r, n>>}  BY <2>2
    <3>2. n \notin nets[b] \/ n \in twice'  BY <2>2, <3>1, BothIsTwice
    <3>3. \A t \in routers[b] : <<t, n>> \in plugged => t = r
      BY <2>2, <3>1 DEF Settled, GatewaysOf, TInv, TypeOK
    <3> QED  BY <1>2, <2>2, <3>1, <3>2, <3>3
  <2> QED  BY <2>1, <2>2
<1>5. ASSUME NEW s \in left
      PROVE  Right(s, b)'
  <2>1. IsRpc(s) /\ s.network = n  BY <1>1
  <2>2. s.bgpvpn = b => IF s.kind = "delete" THEN ~ Bound(b, n)' \/ n \in twice'
                        ELSE Bound(b, n)' /\ s.rt \in {None, vpns'[b]}
    BY <1>1, <1>3, <1>4
  <2> QED  BY <2>1, <2>2 DEF Right, IsRpc, RpcKinds
<1>6. ASSUME NEW m \in Network
      PROVE  (\E s \in left : IsAbout(s, b, m)) \/ SameOn(b, m)
  <2>1. CASE m # n
    <3>1. \A t : <<t, m>> \in plugged' <=> <<t, m>> \in plugged  BY <2>1
    <3> QED  BY <1>2, <3>1 DEF SameOn, Bound, GatewaysOf
  <2>2. CASE m = n /\ r \in routers[b]  BY <1>1, <2>2
  <2>3. CASE m = n /\ n \in nets[b]
    <3>1. b \in BgpvpnsForNetwork(n, plugged') /\ bound  BY <2>3 DEF BgpvpnsForNetwork
    <3> QED  BY <1>1, <2>3, <3>1
  <2>4. CASE m = n /\ r \notin routers[b] /\ n \notin nets[b]
    <3>1. \A t \in routers[b] : <<t, n>> \in plugged' <=> <<t, n>> \in plugged  BY <2>4
    <3>2. CASE ~ \E t \in routers[b] : <<t, n>> \in plugged
      BY <1>2, <2>4, <3>1, <3>2 DEF SameOn, Bound, GatewaysOf
    <3>3. CASE \E t \in routers[b] : <<t, n>> \in plugged
      <4>1. PICK t \in routers[b] : <<t, n>> \in plugged  BY <3>3
      <4>2. t \in Router /\ <<t, n>> \in plugged'  BY <3>1, <4>1 DEF TInv, TypeOK
      <4>3. Bound(b, n) /\ Bound(b, n)'  BY <1>2, <4>1, <4>2 DEF Bound
      <4>4. GatewaysOf(n) # {} /\ GatewaysOf(n)' # {}  BY <4>1, <4>2 DEF GatewaysOf
      <4>5. routers'[b] \cap GatewaysOf(n)' \subseteq routers[b] \cap GatewaysOf(n)
        BY <3>1 DEF GatewaysOf
      <4> QED  BY <2>4, <4>3, <4>4, <4>5 DEF SameOn
    <3> QED  BY <3>2, <3>3
  <2> QED  BY <2>1, <2>2, <2>3, <2>4
<1> QED  BY <1>1, <1>5, <1>6 DEF Covers, left

\* Only the tables of c change.
OnlyOn(c) ==
  /\ plugged' = plugged /\ twice \subseteq twice'
  /\ \A b \in Bgpvpn \ {c} :
       vpns'[b] = vpns[b] /\ nets'[b] = nets[b] /\ routers'[b] = routers[b]

LEMMA OneBgpvpnSettles ==
  ASSUME TInv, NEW w \in Worker, NEW c \in Bgpvpn, NEW left,
         Serve(w, {c}), MayLeave({c}, left), Then(w, {c}, left), OnlyRpcs(left), OnlyOn(c),
         NEW b \in Bgpvpn, b \notin raced', Settling(b),
         b = c /\ Settled(b) => Covers(left, b)
  PROVE  Settling(b)'
<1>1. job[w] = Idle /\ seen' = seen /\ failed' = failed  BY DEF Serve
<1>2. Todo' = Todo \cup left  BY <1>1, ThenTodo
<1>3. \A s \in left : IsRpc(s) /\ s.bgpvpn = c
  BY PortTaskIsNoRpc DEF OnlyRpcs, MayLeave
<1>4. status' = status  BY DEF OnlyRpcs
<1>5. CASE b = c
  <2>1. Settled(b)  BY <1>5, SettledAtFirst
  <2> QED  BY <1>1, <1>2, <1>4, <1>5, <2>1, RequestSettles DEF OnlyOn
<1>6. CASE b # c
  <2>1. /\ vpns'[b] = vpns[b] /\ nets'[b] = nets[b] /\ routers'[b] = routers[b]
        /\ plugged' = plugged /\ twice \subseteq twice'
    BY <1>6 DEF OnlyOn
  <2>2. \A s \in left : IsRpc(s) /\ s.bgpvpn # b  BY <1>3, <1>6
  <2> QED  BY <1>1, <1>2, <1>4, <2>1, <2>2, OthersSettle
<1> QED  BY <1>5, <1>6

LEMMA BgpvpnSettles ==
  ASSUME TInv, NEW w \in Worker, NEW c \in Bgpvpn,
         \/ \E rt \in RT : CreateBgpvpn(w, c, rt) \/ UpdateBgpvpn(w, c, rt)
         \/ DeleteBgpvpn(w, c),
         NEW b \in Bgpvpn, b \notin raced', Settling(b)
  PROVE  Settling(b)'
<1>0. TypeOK  BY DEF TInv
<1>1. ASSUME NEW rt \in RT, CreateBgpvpn(w, c, rt)
      PROVE  Settling(b)'
  <2>1. Serve(w, {c}) /\ OnlyOn(c) /\ OnlyRpcs({})
    BY <1>0, <1>1 DEF CreateBgpvpn, OnlyOn, OnlyRpcs, TypeOK
  <2>2. MayLeave({c}, {}) /\ Then(w, {c}, {}) /\ Covers({}, c)
    BY <1>1, CreateBgpvpnLeaves, CreateBgpvpnCovers
  <2> QED  BY <2>1, <2>2, OneBgpvpnSettles
<1>2. ASSUME NEW rt \in RT, UpdateBgpvpn(w, c, rt)
      PROVE  Settling(b)'
  <2> DEFINE left == Rpcs("update", {c} \X NetworksForBgpvpn(c), vpns')
  <2>1. Serve(w, {c}) /\ OnlyOn(c) /\ status' = status
    BY <1>0, <1>2 DEF UpdateBgpvpn, OnlyOn, TypeOK
  <2>2. MayLeave({c}, left) /\ Then(w, {c}, left) /\ Covers(left, c)
    BY <1>2, UpdateBgpvpnLeaves, UpdateBgpvpnCovers
  <2> HIDE DEF left
  <2>3. OnlyRpcs(left)  BY <2>1, <2>2 DEF OnlyRpcs, Covers
  <2> QED  BY <2>1, <2>2, <2>3, OneBgpvpnSettles
<1>3. ASSUME DeleteBgpvpn(w, c)
      PROVE  Settling(b)'
  <2> DEFINE left == Rpcs("delete", {c} \X NetworksForBgpvpn(c), vpns)
  <2>1. Serve(w, {c}) /\ OnlyOn(c) /\ status' = status
    BY <1>0, <1>3 DEF DeleteBgpvpn, OnlyOn, TypeOK
  <2>2. MayLeave({c}, left) /\ Then(w, {c}, left) /\ Covers(left, c)
    BY <1>3, DeleteBgpvpnLeaves, DeleteBgpvpnCovers
  <2> HIDE DEF left
  <2>3. OnlyRpcs(left)  BY <2>1, <2>2 DEF OnlyRpcs, Covers
  <2> QED  BY <2>1, <2>2, <2>3, OneBgpvpnSettles
<1> QED  BY <1>1, <1>2, <1>3

LEMMA NetAssocSettles ==
  ASSUME TInv, TwiceKnown, NEW w \in Worker, NEW c \in Bgpvpn, NEW n \in Network,
         CreateNetAssoc(w, c, n) \/ DeleteNetAssoc(w, c, n),
         NEW b \in Bgpvpn, b \notin raced', Settling(b)
  PROVE  Settling(b)'
<1>0. TypeOK  BY DEF TInv
<1> DEFINE left(kind) == Rpcs(kind, {c} \X {n}, Reread)
<1>1. Serve(w, {c}) /\ OnlyOn(c) /\ status' = status
  BY <1>0 DEF CreateNetAssoc, DeleteNetAssoc, Write, OnlyOn, TypeOK
<1>2. PICK kind \in RpcKinds :
        MayLeave({c}, left(kind)) /\ Then(w, {c}, left(kind)) /\ Covers(left(kind), c)
  BY NetAssocLeaves, NetAssocCovers DEF RpcKinds
<1> HIDE DEF left
<1>3. OnlyRpcs(left(kind))  BY <1>1, <1>2 DEF OnlyRpcs, Covers
<1> QED  BY <1>1, <1>2, <1>3, OneBgpvpnSettles

LEMMA RouterAssocSettles ==
  ASSUME TInv, TwiceKnown, NEW w \in Worker, NEW c \in Bgpvpn, NEW r \in Router,
         CreateRouterAssoc(w, c, r) \/ DeleteRouterAssoc(w, c, r),
         NEW b \in Bgpvpn, b \notin raced', Settling(b)
  PROVE  Settling(b)'
<1>0. TypeOK  BY DEF TInv
<1> DEFINE left(kind) == Rpcs(kind, {c} \X NetworksForRouter(r), Reread)
<1>1. Serve(w, {c}) /\ OnlyOn(c) /\ status' = status
  BY <1>0 DEF CreateRouterAssoc, DeleteRouterAssoc, Write, OnlyOn, TypeOK
<1>2. PICK kind \in {"update", "delete"} :
        /\ MayLeave({c}, left(kind)) /\ Then(w, {c}, left(kind))
        /\ Settled(c) => Covers(left(kind), c)
  BY RouterAssocLeaves, RouterAssocCovers
<1>3. OnlyRpcs(left(kind))
  BY <1>1, RpcsOnly DEF OnlyRpcs, RpcKinds
<1> HIDE DEF left
<1> QED  BY <1>1, <1>2, <1>3, OneBgpvpnSettles

LEMMA InterfaceSettles ==
  ASSUME TInv, TwiceKnown, NEW w \in Worker, NEW r \in Router, NEW n \in Network,
         AddInterface(w, r, n) \/ RemoveInterface(w, r, n),
         NEW b \in Bgpvpn, b \notin raced', Settling(b)
  PROVE  Settling(b)'
<1> DEFINE left(kind) == InterfaceRpcs(kind, r, n, plugged')
<1>1. /\ Serve(w, Bgpvpn) /\ status' = status
      /\ vpns' = vpns /\ nets' = nets /\ routers' = routers /\ twice \subseteq twice'
  BY DEF AddInterface, RemoveInterface, Write, assocVars
<1>2. Settled(b)  BY <1>1, SettledAtFirst
<1>3. PICK kind \in {"update", "delete"} :
        /\ MayLeave(Bgpvpn, left(kind)) /\ Then(w, Bgpvpn, left(kind))
        /\ IF kind = "update" THEN plugged' = plugged \cup {<<r, n>>}
           ELSE <<r, n>> \in plugged /\ plugged' = plugged \ {<<r, n>>}
  <2>1. CASE AddInterface(w, r, n)
    <3>1. plugged' = plugged \cup {<<r, n>>}  BY <2>1 DEF AddInterface
    <3> QED  BY <2>1, <3>1, InterfaceLeaves
  <2>2. CASE RemoveInterface(w, r, n)
    <3>1. <<r, n>> \in plugged /\ plugged' = plugged \ {<<r, n>>}  BY <2>2 DEF RemoveInterface
    <3> QED  BY <2>2, <3>1, InterfaceLeaves
  <2> QED  BY <2>1, <2>2
<1>4. Covers(left(kind), b)  BY <1>1, <1>2, <1>3, InterfaceCovers
<1> HIDE DEF left
<1>5. job[w] = Idle /\ seen' = seen /\ failed' = failed  BY <1>1 DEF Serve
<1>6. Todo' = Todo \cup left(kind)  BY <1>3, <1>5, ThenTodo
<1> QED  BY <1>1, <1>2, <1>4, <1>5, <1>6, RequestSettles

LEMMA PortEventSettles ==
  ASSUME TInv, NEW w \in Worker, NEW p \in Port, PortUp(w, p) \/ PortDown(w, p) \/ DeletePort(w, p),
         NEW b \in Bgpvpn, b \notin raced', Settling(b)
  PROVE  Settling(b)'
<1>1. PICK kind \in {"attach", "detach"}, new \in {"DOWN", "ACTIVE", "gone"} :
        /\ status' = [status EXCEPT ![p] = new] /\ PortEvent(w, p, kind)
        /\ kind = IF new = "ACTIVE" THEN "attach" ELSE "detach"
  BY DEF PortUp, PortDown, DeletePort
<1> DEFINE left == IF IgnorePort(p) THEN {} ELSE PortStep(kind, p)
<1>2. /\ Serve(w, Bgpvpn) /\ job[w] = Idle /\ seen' = seen /\ failed' = failed
      /\ vpns' = vpns /\ nets' = nets /\ routers' = routers /\ plugged' = plugged
      /\ twice' = twice
  BY <1>1 DEF PortEvent, Serve, assocVars
<1>3. MayLeave(Bgpvpn, left) /\ Then(w, Bgpvpn, left)  BY <1>1, PortEventLeaves
<1>4. IF IgnorePort(p) THEN left = {}
      ELSE \E s \in PortTask : left = {s} /\ s.kind = kind /\ s.port = p
  BY <1>1, PortStepType
<1> HIDE DEF left
<1>5. Todo' = Todo \cup left  BY <1>2, <1>3, ThenTodo
<1>6. Settled(b)  BY <1>2, SettledAtFirst
<1>7. status'[p] = new /\ \A q \in Port \ {p} : status'[q] = status[q]
  BY <1>1 DEF TInv, TypeOK
<1>8. /\ \A n : Bound(b, n)' <=> Bound(b, n)
      /\ \A n : GatewaysOf(n)' = GatewaysOf(n)
  BY <1>2 DEF Bound, GatewaysOf
<1>9. \A s \in Todo' : Right(s, b)'
  <2>1. ASSUME NEW s \in Todo
        PROVE  Right(s, b)'
    BY <1>6 DEF Settled, Right, IsRpc, RpcKinds
  <2>2. ASSUME NEW s \in left
        PROVE  Right(s, b)'
    <3>1. s.kind = kind /\ s.port = p  BY <1>4
    <3> QED  BY <1>1, <1>7, <3>1 DEF Right, IsRpc, RpcKinds
  <2> QED  BY <1>5, <2>1, <2>2
<1>10. SecondRouterRaises(b)'
  BY <1>2, <1>6, <1>8 DEF Settled, SecondRouterRaises
<1>11. PortsSettle(b)'
  <2>1. SUFFICES ASSUME NEW q \in Port, Served(q)' PROVE Settles(q, b)'
    BY DEF PortsSettle
  <2>2. CASE q = p
    <3>1. ~ IgnorePort(p) /\ kind = "attach"
      BY <1>1, <1>7, <2>1, <2>2 DEF Served, Excluded, IgnorePort
    <3>2. \E s \in Todo' : s.kind = "attach" /\ s.port = p  BY <1>4, <1>5, <3>1
    <3> QED  BY <2>2, <3>2 DEF Settles
  <2>3. CASE q # p
    <3>1. Served(q)  BY <1>2, <1>7, <2>1, <2>3 DEF Served
    <3>2. seen[q] # None /\ Fits(seen[q], q, b)  BY <1>6, <3>1 DEF Settled, HasVpn
    <3>3. Fits(seen[q], q, b)'  BY <1>2, <1>8, <3>2 DEF Fits
    <3> QED  BY <1>2, <3>2, <3>3 DEF Settles
  <2> QED  BY <2>2, <2>3
<1> QED  BY <1>9, <1>10, <1>11 DEF Settling, TasksAreRight

-----------------------------------------------------------------------------
(***************************************************************************)
(* How it settles: what is sent.                                           *)
(***************************************************************************)

\* What the agent of a port holds after an RPC on its network.
LEMMA ToldHolds ==
  ASSUME TypeOK, NEW s \in Rpc, RtOf(s) \in RT, NEW p \in Port, seen[p] # None,
         seen' = Told(s.kind, s.bgpvpn, s.network, RtOf(s))
  PROVE  /\ NetworkOf[p] # s.network => seen'[p] = seen[p]
         /\ seen'[p] # None
         /\ \A b \in Bgpvpn \ {s.bgpvpn} : seen'[p].vpn[b] = seen[p].vpn[b]
         /\ NetworkOf[p] = s.network =>
              IF s.kind = "delete"
              THEN seen'[p].vpn[s.bgpvpn] = None /\ seen'[p].gateway = seen[p].gateway
              ELSE /\ seen'[p].vpn[s.bgpvpn] = RtOf(s)
                   /\ seen'[p].gateway = (GatewaysOf(s.network) # {})
<1> DEFINE c == s.bgpvpn
           n == s.network
           rt == RtOf(s)
<1>1. seen[p] \in Info /\ c \in Bgpvpn  BY DEF TypeOK, Rpc
<1>2. seen[p].vpn \in [Bgpvpn -> RT \cup {None}]  BY <1>1 DEF Info
<1>3. seen'[p] = IF NetworkOf[p] # n THEN seen[p]
                 ELSE IF s.kind # "delete"
                 THEN [vpn |-> [seen[p].vpn EXCEPT ![c] = rt], gateway |-> GatewaysOf(n) # {}]
                 ELSE [seen[p] EXCEPT !.vpn[c] = None]
  BY DEF Told
<1>4. seen'[p] # None
  <2>1. seen'[p] \in Info
    <3>1. CASE NetworkOf[p] # n  BY <1>1, <1>3, <3>1
    <3>2. CASE NetworkOf[p] = n /\ s.kind # "delete"
      <4>1. [seen[p].vpn EXCEPT ![c] = rt] \in [Bgpvpn -> RT \cup {None}]  BY <1>2
      <4> QED  BY <1>3, <3>2, <4>1 DEF Info
    <3>3. CASE NetworkOf[p] = n /\ s.kind = "delete"
      <4>1. [seen[p].vpn EXCEPT ![c] = None] \in [Bgpvpn -> RT \cup {None}]  BY <1>2
      <4>2. [seen[p] EXCEPT !.vpn[c] = None] \in Info  BY <1>1, <4>1 DEF Info
      <4> QED  BY <1>3, <3>3, <4>2
    <3> QED  BY <3>1, <3>2, <3>3
  <2> QED  BY <2>1, NoneAssumption
<1>5. CASE NetworkOf[p] # n  BY <1>3, <1>4, <1>5
<1>6. CASE NetworkOf[p] = n /\ s.kind # "delete"
  <2>1. seen'[p] = [vpn |-> [seen[p].vpn EXCEPT ![c] = rt], gateway |-> GatewaysOf(n) # {}]
    BY <1>3, <1>6
  <2>2. seen'[p].vpn = [seen[p].vpn EXCEPT ![c] = rt] /\ seen'[p].gateway = (GatewaysOf(n) # {})
    BY <2>1
  <2> QED  BY <1>1, <1>2, <1>4, <1>6, <2>2
<1>7. CASE NetworkOf[p] = n /\ s.kind = "delete"
  <2>1. seen'[p] = [seen[p] EXCEPT !.vpn[c] = None]  BY <1>3, <1>7
  <2>2. seen'[p].vpn = [seen[p].vpn EXCEPT ![c] = None] /\ seen'[p].gateway = seen[p].gateway
    BY <1>1, <2>1 DEF Info
  <2> QED  BY <1>1, <1>2, <1>4, <1>7, <2>2
<1> QED  BY <1>5, <1>6, <1>7

\* Sending changes no tables: what is right stays so.
LEMMA RightStays ==
  ASSUME NEW b, UNCHANGED <<assocVars, plugged, status>>
  PROVE  /\ \A s : Right(s, b)' <=> Right(s, b)
         /\ \A info, p : Fits(info, p, b)' <=> Fits(info, p, b)
         /\ routers' = routers
         /\ \A n : GatewaysOf(n)' = GatewaysOf(n)
<1>1. \A n : (Bound(b, n)' <=> Bound(b, n)) /\ GatewaysOf(n)' = GatewaysOf(n)
  BY DEF assocVars, Bound, GatewaysOf
<1>2. \A info, p : Fits(info, p, b)' <=> Fits(info, p, b)
  BY <1>1 DEF Fits, assocVars
<1>3. \A s : Right(s, b)' <=> Right(s, b)
  BY <1>1, <1>2 DEF Right, assocVars, IsRpc, RpcKinds
<1> QED  BY <1>1, <1>2, <1>3 DEF assocVars

LEMMA SendRpcSettles ==
  ASSUME TInv, NEW w \in Worker, NEW s, SendRpc(w, s), NEW b \in Bgpvpn, Settling(b)
  PROVE  Settling(b)'
<1> DEFINE c == s.bgpvpn
           n == s.network
<1>1. MayDo(w, s, RpcKinds) /\ Onwards(w, s, {}) /\ ~ Raises(s)  BY DEF SendRpc
<1>2. s \in Todo /\ IsRpc(s) /\ s \in Rpc  BY <1>1, TaskOf DEF IsRpc
<1>3. Todo' \subseteq Todo /\ Todo \ {s} \subseteq Todo'  BY <1>1, OnwardsTodo
<1>4. UNCHANGED <<assocVars, plugged, status>> /\ failed' = failed  BY DEF SendRpc
<1>5. /\ \A t : Right(t, b)' <=> Right(t, b)
      /\ \A info, p : Fits(info, p, b)' <=> Fits(info, p, b)
      /\ routers' = routers
      /\ \A m : GatewaysOf(m)' = GatewaysOf(m)
  BY <1>4, RightStays
<1>6. TasksAreRight(b)'  BY <1>3, <1>5 DEF Settling, TasksAreRight
<1>7. Skips(s) \/ OneGateway(n)  BY <1>1 DEF Raises
<1>8. SecondRouterRaises(b)'
  <2>1. ASSUME NEW m \in Network, NEW r \in routers[b] \cap GatewaysOf(m),
               NEW t \in routers[b] \cap GatewaysOf(m), r # t
        PROVE  \E u \in Todo' : IsAbout(u, b, m)
    <3>1. PICK u \in Todo : IsAbout(u, b, m)
      BY <2>1 DEF Settling, SecondRouterRaises
    <3>2. ~ OneGateway(m) /\ HasPorts(m)  BY <2>1, TwoGateways DEF HasPorts
    <3>3. u # s  BY <1>7, <3>1, <3>2 DEF IsAbout, Skips
    <3> QED  BY <1>3, <3>1, <3>3
  <2> QED  BY <1>5, <2>1 DEF SecondRouterRaises, IsAbout, IsRpc
<1>9. PortsSettle(b)'
  <2>1. SUFFICES ASSUME NEW p \in Port, Served(p) PROVE Settles(p, b)'
    BY <1>4 DEF PortsSettle, Served
  <2>2. Settles(p, b)  BY <2>1 DEF Settling, PortsSettle
  <2>3. CASE \E t \in Todo : t.kind \in {"attach", "send"} /\ t.port = p
    <3>1. PICK t \in Todo : t.kind \in {"attach", "send"} /\ t.port = p  BY <2>3
    <3>2. t \in Todo'  BY <1>2, <1>3, <3>1 DEF IsRpc, RpcKinds
    <3> QED  BY <3>1, <3>2 DEF Settles
  <2>4. CASE seen[p] # None /\ (Fits(seen[p], p, b) \/ \E t \in Todo : IsAbout(t, b, NetworkOf[p]))
    <3>1. HasPorts(NetworkOf[p])  BY <2>1 DEF Served, HasPorts
    <3>2. CASE NetworkOf[p] # n
      <4>1. seen'[p] = seen[p]
        BY <2>4, <3>2 DEF SendRpc, Told
      <4>2. \A t \in Todo : IsAbout(t, b, NetworkOf[p]) => t \in Todo'
        BY <1>3, <3>2 DEF IsAbout
      <4> QED  BY <1>5, <2>4, <4>1, <4>2 DEF Settles, IsAbout, IsRpc
    <3>3. CASE NetworkOf[p] = n
      <4>1. ~ Skips(s)  BY <3>1, <3>3 DEF Skips
      <4>2. RtOf(s) \in RT  BY <1>1, <4>1 DEF Raises
      <4>3. seen' = Told(s.kind, c, n, RtOf(s))  BY <4>1 DEF SendRpc
      <4>4. TypeOK  BY DEF TInv
      <4>5. /\ seen'[p] # None
            /\ b # c => seen'[p].vpn[b] = seen[p].vpn[b]
            /\ IF s.kind = "delete"
               THEN seen'[p].vpn[c] = None /\ seen'[p].gateway = seen[p].gateway
               ELSE /\ seen'[p].vpn[c] = RtOf(s)
                    /\ seen'[p].gateway = (GatewaysOf(n) # {})
        BY <1>2, <2>4, <3>3, <4>2, <4>3, <4>4, ToldHolds
      <4>6. CASE b = c
        <5>1. IF s.kind = "delete" THEN ~ Bound(b, n) \/ n \in twice
              ELSE Bound(b, n) /\ s.rt \in {None, vpns[b]}
          BY <1>2, <4>6 DEF Settling, TasksAreRight, Right
        <5>2. s.kind # "delete" => RtOf(s) = vpns[b]  BY <4>6, <5>1 DEF RtOf
        <5>3. Fits(seen'[p], p, b)  BY <3>3, <4>5, <4>6, <5>1, <5>2 DEF Fits
        <5> QED  BY <1>5, <4>5, <5>3 DEF Settles
      <4>7. CASE b # c
        <5>1. Fits(seen[p], p, b) => Fits(seen'[p], p, b)
          BY <3>3, <4>5, <4>7 DEF Fits
        <5>2. \A t \in Todo : IsAbout(t, b, NetworkOf[p]) => t \in Todo'
          BY <1>3, <4>7 DEF IsAbout
        <5> QED  BY <1>5, <2>4, <4>5, <5>1, <5>2 DEF Settles, IsAbout, IsRpc
      <4> QED  BY <4>6, <4>7
    <3> QED  BY <3>2, <3>3
  <2> QED  BY <2>2, <2>3, <2>4 DEF Settles
<1> QED  BY <1>6, <1>8, <1>9 DEF Settling

\* For b, the step may lose the tasks Gone and change what the agents of Ports
\* hold, and adds the tasks more.
Touches(b, Gone, Ports, more) ==
  /\ UNCHANGED <<assocVars, plugged, status>> /\ failed \subseteq failed'
  /\ Todo' \subseteq Todo \cup more /\ Todo \ Gone \subseteq Todo'
  /\ \A s \in more : Right(s, b)
  /\ \A s \in Gone : IF IsRpc(s) THEN s.bgpvpn # b ELSE s.port \in Ports
  /\ \A p \in Port \ Ports : seen'[p] = seen[p]
  /\ \A p \in Ports : p \in Port /\ Served(p)' => Settles(p, b)'

LEMMA StepSettles ==
  ASSUME TInv, NEW b \in Bgpvpn, Settling(b), NEW Gone, NEW Ports, NEW more,
         Touches(b, Gone, Ports, more)
  PROVE  Settling(b)'
<1>0. /\ UNCHANGED <<assocVars, plugged, status>> /\ failed \subseteq failed'
      /\ Todo' \subseteq Todo \cup more /\ Todo \ Gone \subseteq Todo'
      /\ \A s \in more : Right(s, b)
      /\ \A s \in Gone : IF IsRpc(s) THEN s.bgpvpn # b ELSE s.port \in Ports
      /\ \A p \in Port \ Ports : seen'[p] = seen[p]
      /\ \A p \in Ports : p \in Port /\ Served(p)' => Settles(p, b)'
  BY DEF Touches
<1>1. /\ \A s : Right(s, b)' <=> Right(s, b)
      /\ \A info, p : Fits(info, p, b)' <=> Fits(info, p, b)
      /\ routers' = routers
      /\ \A n : GatewaysOf(n)' = GatewaysOf(n)
  BY <1>0, RightStays
<1>2. TasksAreRight(b)'  BY <1>0, <1>1 DEF Settling, TasksAreRight
<1>3. \A n : \A s \in Todo : IsAbout(s, b, n) => s \in Todo'  BY <1>0 DEF IsAbout
<1>4. SecondRouterRaises(b)'
  BY <1>0, <1>1, <1>3 DEF Settling, SecondRouterRaises, IsAbout, IsRpc
<1>5. PortsSettle(b)'
  <2>1. SUFFICES ASSUME NEW p \in Port \ Ports, Served(p)' PROVE Settles(p, b)'
    BY <1>0 DEF PortsSettle
  <2>2. Served(p)  BY <1>0, <2>1 DEF Served
  <2>3. Settles(p, b) /\ seen'[p] = seen[p]  BY <1>0, <2>1, <2>2 DEF Settling, PortsSettle
  <2>4. \A s \in Todo : s.kind \in {"attach", "send"} /\ s.port = p => s \in Todo'
    BY <1>0, <2>1 DEF IsRpc, RpcKinds
  <2> QED  BY <1>0, <1>1, <1>3, <2>3, <2>4 DEF Settles, IsAbout, IsRpc
<1> QED  BY <1>2, <1>4, <1>5 DEF Settling

LEMMA RaiseOnRpcSettles ==
  ASSUME TInv, NEW w \in Worker, NEW s, RaiseOnRpc(w, s),
         NEW b \in Bgpvpn, b \notin failed', Settling(b)
  PROVE  Settling(b)'
<1>1. MayDo(w, s, RpcKinds) /\ Raise(w, job[w].on)  BY DEF RaiseOnRpc
<1>2. job[w] # Idle /\ s \in job[w].left /\ IsRpc(s)  BY <1>1, TaskOf DEF IsRpc
<1>3. Todo' \subseteq Todo /\ Todo \ job[w].left \subseteq Todo'  BY <1>1, <1>2, RaiseTodo
<1>4. TypeOK  BY DEF TInv
<1>5. \A t \in job[w].left : IsRpc(t) /\ t.bgpvpn \in job[w].on
  BY <1>2, <1>4, Tasks DEF TInv, OnItsBgpvpns, IsRpc, Rpc
<1>6. b \notin job[w].on  BY <1>1 DEF Raise
<1>7. UNCHANGED <<assocVars, plugged, status>> /\ failed \subseteq failed' /\ seen' = seen
  BY <1>1 DEF Raise
<1>8. Touches(b, job[w].left, {}, {})  BY <1>3, <1>5, <1>6, <1>7 DEF Touches
<1> QED  BY <1>8, StepSettles

LEMMA RaiseOnAttachSettles ==
  ASSUME TInv, NEW w \in Worker, NEW s, RaiseOnAttach(w, s), NEW b \in Bgpvpn, Settling(b)
  PROVE  Settling(b)'
<1>1. MayDo(w, s, {"attach"}) /\ Raise(w, {s.port})  BY DEF RaiseOnAttach
<1>2. job[w] # Idle /\ job[w].left = {s} /\ ~ IsRpc(s) /\ s.port \in Port
  BY <1>1, TaskOf DEF RpcKinds, IsRpc
<1>3. Todo' \subseteq Todo /\ Todo \ {s} \subseteq Todo'  BY <1>1, <1>2, RaiseTodo
<1>4. /\ UNCHANGED <<assocVars, plugged, status>> /\ failed \subseteq failed'
      /\ \A p \in Port \ {s.port} : seen'[p] = seen[p]
      /\ s.port \in failed'
  BY <1>1 DEF Raise
<1>5. ~ Served(s.port)'  BY <1>4 DEF Served
<1>6. Touches(b, {s}, {s.port}, {})  BY <1>2, <1>3, <1>4, <1>5 DEF Touches
<1> QED  BY <1>6, StepSettles

LEMMA ReadForAttachSettles ==
  ASSUME TInv, TwiceKnown,
         NEW w \in Worker, NEW s, ReadForAttach(w, s), NEW b \in Bgpvpn, Settling(b)
  PROVE  Settling(b)'
<1> DEFINE send == [kind |-> "send", port |-> s.port, info |-> PortInfo(s.port)]
           more == IF Addresses[s.port] = 0 THEN {} ELSE {send}
<1>1. MayDo(w, s, {"attach"}) /\ Onwards(w, s, more)  BY DEF ReadForAttach
<1>2. s \in Todo /\ ~ IsRpc(s) /\ s.port \in Port  BY <1>1, TaskOf DEF RpcKinds, IsRpc
<1>3. TypeOK  BY DEF TInv
<1>4. send \in PortTask  BY <1>2, <1>3, PortInfoType, SendType
<1>5. more = {} \/ \E t \in PortTask : more = {t}  BY <1>4
<1>6. Fits(PortInfo(s.port), s.port, b)  BY <1>2, InfoFits
<1>7. Right(send, b)  BY <1>6 DEF Right, IsRpc, RpcKinds
<1>8. \A t \in more : Right(t, b)  BY <1>7
<1>9. send.kind = "send" /\ send.port = s.port  OBVIOUS
<1>10. Addresses[s.port] = 1 => send \in more  OBVIOUS
<1> HIDE DEF more, send
<1>11. Todo' \subseteq Todo \cup more /\ Todo \ {s} \subseteq Todo' /\ more \subseteq Todo'
  BY <1>1, <1>2, <1>5, OnwardsTodo
<1>12. /\ UNCHANGED <<assocVars, plugged, status>> /\ failed \subseteq failed'
       /\ \A p \in Port \ {s.port} : seen'[p] = seen[p]
  BY DEF ReadForAttach
<1>13. Served(s.port)' => Settles(s.port, b)'
  BY <1>9, <1>10, <1>11 DEF Served, Settles
<1>14. Touches(b, {s}, {s.port}, more)
  BY <1>2, <1>8, <1>11, <1>12, <1>13 DEF Touches
<1> QED  BY <1>14, StepSettles

LEMMA AttachSettles ==
  ASSUME TInv, NEW w \in Worker, NEW s, Attach(w, s) \/ Detach(w, s),
         NEW b \in Bgpvpn, Settling(b)
  PROVE  Settling(b)'
<1>1. PICK kind \in {"send", "detach"} : MayDo(w, s, {kind}) /\ Onwards(w, s, {})
  BY DEF Attach, Detach
<1>2. s \in Todo /\ ~ IsRpc(s) /\ s \in PortTask /\ s.port \in Port /\ s.kind = kind
  BY <1>1, TaskOf DEF RpcKinds, IsRpc
<1>3. Todo' \subseteq Todo /\ Todo \ {s} \subseteq Todo'  BY <1>1, OnwardsTodo
<1>4. /\ UNCHANGED <<assocVars, plugged, status>> /\ failed \subseteq failed'
      /\ \A p \in Port \ {s.port} : seen'[p] = seen[p]
  BY DEF Attach, Detach, TInv, TypeOK
<1>5. Right(s, b)  BY <1>2 DEF Settling, TasksAreRight
<1>6. Served(s.port)' => Settles(s.port, b)'
  <2>1. CASE kind = "send"
    <3>1. s.info \in Info /\ seen'[s.port] = s.info
      BY <1>1, <1>2, <2>1 DEF PortTask, Attach, Detach, MayDo, TInv, TypeOK
    <3>2. s.info # None  BY <3>1, NoneAssumption
    <3>3. Fits(s.info, s.port, b)  BY <1>2, <1>5, <2>1 DEF Right
    <3>4. Fits(s.info, s.port, b)'  BY <1>4, <3>3, RightStays
    <3> QED  BY <3>1, <3>2, <3>4 DEF Settles
  <2>2. CASE kind = "detach"
    <3>1. status'[s.port] # "ACTIVE"  BY <1>2, <1>4, <1>5, <2>2 DEF Right
    <3> QED  BY <3>1 DEF Served
  <2> QED  BY <2>1, <2>2
<1>7. Touches(b, {s}, {s.port}, {})  BY <1>2, <1>3, <1>4, <1>6 DEF Touches
<1> QED  BY <1>7, StepSettles

LEMMA ToggleAdminSettles ==
  ASSUME TInv, NEW q \in Port, ToggleAdmin(q), NEW b \in Bgpvpn, Settling(b)
  PROVE  Settling(b)'
<1>1. Todo' = Todo  BY ToggleAdminTypes
<1>2. /\ vpns' = vpns /\ nets' = nets /\ routers' = routers /\ plugged' = plugged
      /\ twice' = twice /\ seen' = seen /\ failed' = failed
  BY DEF ToggleAdmin, assocVars
<1>3. \A p \in Port : status'[p] = "ACTIVE" <=> status[p] = "ACTIVE"
  BY DEF ToggleAdmin, TInv, TypeOK
<1>4. /\ \A n : Bound(b, n)' <=> Bound(b, n)
      /\ \A n : GatewaysOf(n)' = GatewaysOf(n)
  BY <1>2 DEF Bound, GatewaysOf
<1>5. \A info, p : Fits(info, p, b)' <=> Fits(info, p, b)  BY <1>2, <1>4 DEF Fits
<1>6. ASSUME NEW s \in Todo
      PROVE  Right(s, b)'
  <2>1. Right(s, b)  BY DEF Settling, TasksAreRight
  <2>2. s.kind = "detach" => s.port \in Port  BY TodoTypes DEF IsRpc, RpcKinds
  <2> QED  BY <1>2, <1>3, <1>4, <1>5, <2>1, <2>2 DEF Right, IsRpc, RpcKinds
<1>7. SecondRouterRaises(b)'
  BY <1>1, <1>2, <1>4 DEF Settling, SecondRouterRaises, IsAbout, IsRpc
<1>8. PortsSettle(b)'
  BY <1>1, <1>2, <1>3, <1>5 DEF Settling, PortsSettle, Settles, Served, IsAbout, IsRpc
<1> QED  BY <1>1, <1>6, <1>7, <1>8 DEF Settling, TasksAreRight

LEMMA BeginSettles ==
  ASSUME IInv, NEW w \in Worker, Begin(w), NEW b \in Bgpvpn, b \in Clear'
  PROVE  Settling(b)'
<1>1. TInv /\ TwiceKnown  BY DEF IInv
<1>2. \E bs, left : Requested(w, bs, left)  BY <1>1, BeginRequests
<1>3. raced \subseteq raced' /\ failed' = failed  BY <1>2 DEF Requested, Serve
<1>4. b \notin raced' /\ Settling(b)  BY <1>3 DEF IInv, Clear
<1>5. ASSUME NEW c \in Bgpvpn,
             \/ \E rt \in RT : CreateBgpvpn(w, c, rt) \/ UpdateBgpvpn(w, c, rt)
             \/ DeleteBgpvpn(w, c)
      PROVE  Settling(b)'
  BY <1>1, <1>4, <1>5, BgpvpnSettles
<1>6. ASSUME NEW c \in Bgpvpn, NEW n \in Network, CreateNetAssoc(w, c, n) \/ DeleteNetAssoc(w, c, n)
      PROVE  Settling(b)'
  BY <1>1, <1>4, <1>6, NetAssocSettles
<1>7. ASSUME NEW c \in Bgpvpn, NEW r \in Router,
             CreateRouterAssoc(w, c, r) \/ DeleteRouterAssoc(w, c, r)
      PROVE  Settling(b)'
  BY <1>1, <1>4, <1>7, RouterAssocSettles
<1>8. ASSUME NEW r \in Router, NEW n \in Network, AddInterface(w, r, n) \/ RemoveInterface(w, r, n)
      PROVE  Settling(b)'
  BY <1>1, <1>4, <1>8, InterfaceSettles
<1>9. ASSUME NEW p \in Port, PortUp(w, p) \/ PortDown(w, p) \/ DeletePort(w, p)
      PROVE  Settling(b)'
  BY <1>1, <1>4, <1>9, PortEventSettles
<1> QED  BY <1>5, <1>6, <1>7, <1>8, <1>9 DEF Begin

LEMMA ProceedSettles ==
  ASSUME IInv, NEW w \in Worker, Proceed(w), NEW b \in Bgpvpn, b \in Clear'
  PROVE  Settling(b)'
<1>1. TInv /\ TwiceKnown  BY DEF IInv
<1>2. PICK s \in job[w].left :
        \/ SendRpc(w, s) \/ RaiseOnRpc(w, s)
        \/ ReadForAttach(w, s) \/ RaiseOnAttach(w, s) \/ Attach(w, s) \/ Detach(w, s)
  BY DEF Proceed
<1>3. raced' = raced /\ failed \subseteq failed'
  BY <1>2 DEF SendRpc, RaiseOnRpc, ReadForAttach, RaiseOnAttach, Attach, Detach, Raise
<1>4. b \notin failed' /\ Settling(b)  BY <1>3 DEF IInv, Clear
<1>5. CASE SendRpc(w, s)  BY <1>1, <1>4, <1>5, SendRpcSettles
<1>6. CASE RaiseOnRpc(w, s)  BY <1>1, <1>4, <1>6, RaiseOnRpcSettles
<1>7. CASE ReadForAttach(w, s)  BY <1>1, <1>4, <1>7, ReadForAttachSettles
<1>8. CASE RaiseOnAttach(w, s)  BY <1>1, <1>4, <1>8, RaiseOnAttachSettles
<1>9. CASE Attach(w, s) \/ Detach(w, s)  BY <1>1, <1>4, <1>9, AttachSettles
<1> QED  BY <1>2, <1>5, <1>6, <1>7, <1>8, <1>9

LEMMA NextSettles ==
  ASSUME IInv, [Next]_vars
  PROVE  IInv'
<1>1. TInv'  BY NextTypes DEF IInv
<1>2. ASSUME nets' = nets, routers' = routers, plugged' = plugged, twice' = twice
      PROVE  TwiceKnown'
  BY <1>2 DEF IInv, TwiceKnown, BoundTwice, AssociatedNetworks
<1>3. ASSUME Todo' = Todo, vpns' = vpns, nets' = nets, routers' = routers, plugged' = plugged,
             twice' = twice, status' = status, seen' = seen, raced' = raced, failed' = failed
      PROVE  TwiceKnown' /\ \A b \in Bgpvpn : b \in Clear' => Settling(b)'
  <2>1. \A b \in Bgpvpn : b \in Clear' => Settling(b)  BY <1>3 DEF IInv, Clear
  <2>2. ASSUME NEW b \in Bgpvpn, Settling(b)
        PROVE  Settling(b)'
    <3> DEFINE left == {}
    <3>1. Todo' = Todo \cup left /\ \A s \in left : IsRpc(s) /\ s.bgpvpn # b  BY <1>3
    <3> HIDE DEF left
    <3> QED  BY <1>3, <2>2, <3>1, OthersSettle
  <2> QED  BY <1>2, <1>3, <2>1, <2>2
<1>4. TwiceKnown' /\ \A b \in Bgpvpn : b \in Clear' => Settling(b)'
  <2>1. ASSUME NEW w \in Worker, Begin(w)
        PROVE  TwiceKnown' /\ \A b \in Bgpvpn : b \in Clear' => Settling(b)'
    BY <2>1, BeginSettles, TwiceStep DEF IInv
  <2>2. ASSUME NEW w \in Worker, Proceed(w)
        PROVE  TwiceKnown' /\ \A b \in Bgpvpn : b \in Clear' => Settling(b)'
    <3>1. nets' = nets /\ routers' = routers /\ plugged' = plugged /\ twice' = twice
      BY <2>2 DEF Proceed, SendRpc, RaiseOnRpc, ReadForAttach, RaiseOnAttach, Attach, Detach,
                  Raise, assocVars
    <3> QED  BY <1>2, <2>2, <3>1, ProceedSettles
  <2>3. ASSUME NEW p \in Port, ToggleAdmin(p)
        PROVE  TwiceKnown' /\ \A b \in Bgpvpn : b \in Clear' => Settling(b)'
    <3>1. /\ nets' = nets /\ routers' = routers /\ plugged' = plugged /\ twice' = twice
          /\ raced' = raced /\ failed' = failed
      BY <2>3 DEF ToggleAdmin, assocVars
    <3>2. \A b \in Bgpvpn : b \in Clear' => Settling(b)  BY <3>1 DEF IInv, Clear
    <3> QED  BY <1>2, <2>3, <3>1, <3>2, ToggleAdminSettles DEF IInv
  <2>4. ASSUME OnlyAsked
        PROVE  TwiceKnown' /\ \A b \in Bgpvpn : b \in Clear' => Settling(b)'
    <3>1. Todo' = Todo  BY <2>4, AskedTypes DEF IInv
    <3> QED  BY <1>3, <2>4, <3>1 DEF OnlyAsked
  <2>5. CASE UNCHANGED vars
    <3>1. Todo' = Todo  BY <2>5, SameTypes DEF IInv
    <3> QED  BY <1>3, <2>5, <3>1 DEF vars, assocVars
  <2> QED  BY <2>1, <2>2, <2>3, <2>4, <2>5, ChecksOnly DEF Next, IInv
<1> QED  BY <1>1, <1>4 DEF IInv, Clear

LEMMA IInvImplies ==
  ASSUME IInv
  PROVE  PortsHaveTheirVpns
<1> SUFFICES ASSUME NEW p \in Port, NEW b \in Bgpvpn, Served(p), b \notin Busy \cup raced \cup failed
             PROVE  HasVpn(p, b)
  BY DEF PortsHaveTheirVpns
<1>1. TInv /\ Settling(b)  BY DEF IInv, Clear
<1>2. Settles(p, b)  BY <1>1 DEF Settling, PortsSettle
<1>3. ASSUME NEW s \in Todo
      PROVE  IsRpc(s) /\ s.bgpvpn # b
  <2>1. PICK v \in Worker : job[v] # Idle /\ s \in job[v].left  BY DEF Todo
  <2>2. b \notin job[v].on  BY <2>1 DEF Busy
  <2>3. TypeOK  BY <1>1 DEF TInv
  <2>4. IsRpc(s)  BY <2>1, <2>2, <2>3, Tasks
  <2> QED  BY <1>1, <2>1, <2>2, <2>4 DEF TInv, OnItsBgpvpns
<1> QED  BY <1>2, <1>3 DEF Settles, HasVpn, IsAbout, IsRpc, RpcKinds

\* However many workers, ports, networks and routers there are, of whatever types
\* the BGPVPNs and whatever was written between the plugin's checks and the write:
\* when the work on a BGPVPN is done the agent of an ACTIVE port holds nothing of
\* it unless it is bound to the port's network, and then with its route targets
\* and gateway of now, or, where the network was bound twice, not at all; but for
\* BGPVPNs whose requests overlapped, and BGPVPNs and ports whose hooks an
\* exception cut short (plugin.py:80-162, bagpipe.py:265-501).
THEOREM PortsHaveTheirVpnsCorrect == Spec => []PortsHaveTheirVpns
<1>1. Init => IInv
  <2> SUFFICES ASSUME Init PROVE IInv  OBVIOUS
  <2>1. TInv /\ Todo = {}  BY InitTypes
  <2>2. \A n \in Network : GatewaysOf(n) = {}  BY DEF Init, GatewaysOf
  <2>3. TwiceKnown  BY DEF Init, TwiceKnown, BoundTwice, AssociatedNetworks
  <2>4. ASSUME NEW p \in Port, NEW b \in Bgpvpn, Served(p)
        PROVE  seen[p] # None /\ Fits(seen[p], p, b)
    <3>1. seen[p] = NoVpn  BY <2>4 DEF Init, Served
    <3>2. NoVpn \in Info /\ NoVpn.vpn[b] = None  BY DEF NoVpn, Info
    <3>3. \A n : ~ Bound(b, n)  BY DEF Init, Bound
    <3> QED  BY <3>1, <3>2, <3>3, NoneAssumption DEF Fits
  <2>5. \A b \in Bgpvpn : Settling(b)
    BY <2>1, <2>2, <2>4 DEF Settling, TasksAreRight, SecondRouterRaises, PortsSettle, Settles
  <2> QED  BY <2>1, <2>3, <2>5 DEF IInv, Clear
<1>2. IInv /\ [Next]_vars => IInv'  BY NextSettles
<1>3. IInv => PortsHaveTheirVpns  BY IInvImplies
<1> QED  BY <1>1, <1>2, <1>3, PTL DEF Spec

=============================================================================
