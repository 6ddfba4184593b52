-------------------------- MODULE BagpipeV2Proofs --------------------------
(***************************************************************************)
(* Theorems about BagpipeV2, for every value of its constants: any number  *)
(* of workers, every fault.                                                *)
(***************************************************************************)
EXTENDS BagpipeV2, SequenceTheorems, TLAPS

-----------------------------------------------------------------------------
(***************************************************************************)
(* The inductive invariant: what jobs and notices may carry.               *)
(***************************************************************************)

\* An object that agents may hold: its route targets were committed, and it is
\* not about an external network.
GoodObjects ==
  {o \in Objects : o.rt \in committed[o.bgpvpn] /\ o.on \notin External}

NoticeObjects == UNION {[S -> GoodObjects] : S \in SUBSET Assoc}

GoodNotices ==
  [event: {"created", "updated", "deleted"}, objects: NoticeObjects]

GoodJob(j) ==
  /\ j \in Job \cup {Idle}
  /\ j # Idle /\ j.step = "push" => j.notice \in GoodNotices

\* The tables, and the route targets they ever had.
TablesOK ==
  /\ vpns \in [Bgpvpn -> Row \cup {None}]
  /\ assocs \in [Assoc -> AssocRow \cup {None}]
  /\ unused \subseteq Bgpvpn \cup Assoc
  /\ \A a \in Rows : vpns[assocs[a].bgpvpn] # None /\ Exists(assocs[a].on)
  /\ \A a \in Rows : assocs[a].on \notin External

CommittedOK ==
  /\ committed \in [Bgpvpn -> SUBSET RT]
  /\ \A b \in Bgpvpn : vpns[b] # None => vpns[b].rt \in committed[b]

NeutronOK == plugged \subseteq Router \X Network /\ gone \subseteq Mortal

JobsOK ==
  /\ job \in [Worker -> Job \cup {Idle}]
  /\ \A w \in Worker : GoodJob(job[w])

AgentsOK ==
  /\ wire \in [Worker -> Seq(GoodNotices)]
  /\ known \in [Assoc -> GoodObjects \cup {None}]

HistoryOK == served \in 0..MaxRequests /\ raced \subseteq Bgpvpn

IInv ==
  /\ TablesOK /\ NoRouteDistinguishers /\ CommittedOK /\ NeutronOK
  /\ JobsOK /\ AgentsOK /\ HistoryOK

-----------------------------------------------------------------------------
(***************************************************************************)
(* Objects and notices.                                                    *)
(***************************************************************************)

\* The object built for a row is one that agents may hold.
LEMMA ObjectGood ==
  ASSUME TablesOK, CommittedOK, NeutronOK, NEW a \in Rows
  PROVE  Object(a) \in GoodObjects
<1>1. assocs[a] \in AssocRow /\ vpns[assocs[a].bgpvpn] \in Row
  BY DEF TablesOK, Rows, AssocRow
<1>2. assocs[a].on \in Resource \ External
  BY <1>1 DEF TablesOK, AssocRow
<1>3. NetsOf(assocs[a].on) \subseteq Network
  BY <1>2, NetworkOfAssumption DEF NetsOf, Resource
<1>4. Object(a) \in Objects
  BY <1>1, <1>2, <1>3 DEF Object, Objects, AssocRow, Row, Flag
<1>5. vpns[assocs[a].bgpvpn].rt \in committed[assocs[a].bgpvpn]
  BY <1>1 DEF TablesOK, CommittedOK, AssocRow
<1>. QED
  BY <1>2, <1>4, <1>5 DEF GoodObjects, Object

\* A function to good objects from some associations makes a good notice.
LEMMA NoticeMade ==
  ASSUME NEW S \in SUBSET Assoc, NEW f \in [S -> GoodObjects],
         NEW e \in {"created", "updated", "deleted"}
  PROVE  [event |-> e, objects |-> f] \in GoodNotices
<1>1. f \in NoticeObjects
  BY DEF NoticeObjects
<1>. QED
  BY <1>1 DEF GoodNotices

\* A notice about rows is good.
LEMMA NoticeGood ==
  ASSUME TablesOK, CommittedOK, NeutronOK, NEW S \in SUBSET Rows,
         NEW e \in {"created", "updated", "deleted"}
  PROVE  Notice(e, S) \in GoodNotices
<1>1. [a \in S |-> Object(a)] \in [S -> GoodObjects]
  BY ObjectGood
<1>2. S \in SUBSET Assoc
  BY DEF Rows
<1>. QED
  BY <1>1, <1>2, NoticeMade DEF Notice

\* So is one whose objects lost a gateway.
LEMMA WithoutGatewayGood ==
  ASSUME TablesOK, CommittedOK, NeutronOK, NEW S \in SUBSET Rows, NEW n
  PROVE  NoticeWithoutGateway(S, n) \in GoodNotices
<1>1. ASSUME NEW a \in S
      PROVE  [Object(a) EXCEPT !.gateways = @ \ {n}] \in GoodObjects
  BY ObjectGood DEF GoodObjects, Objects
<1>2. [a \in S |-> [Object(a) EXCEPT !.gateways = @ \ {n}]] \in [S -> GoodObjects]
  BY <1>1
<1>3. S \in SUBSET Assoc
  BY DEF Rows
<1>. QED
  BY <1>2, <1>3, NoticeMade DEF NoticeWithoutGateway

\* The objects of a good notice.
LEMMA NoticeShape ==
  ASSUME NEW notice \in GoodNotices
  PROVE  /\ notice.event \in {"created", "updated", "deleted"}
         /\ DOMAIN notice.objects \subseteq Assoc
         /\ \A a \in DOMAIN notice.objects : notice.objects[a] \in GoodObjects
<1>1. PICK S \in SUBSET Assoc : notice.objects \in [S -> GoodObjects]
  BY DEF GoodNotices, NoticeObjects
<1>. QED
  BY <1>1 DEF GoodNotices

\* What a job carries at each step.
LEMMA JobShape ==
  ASSUME NEW j \in Job
  PROVE  /\ j # Idle /\ j.on \subseteq Bgpvpn
         /\ j.step = "update" => j.bgpvpn \in Bgpvpn /\ j.body \in Body /\ j.old \in Row
         /\ j.step \in {"tell_bgpvpn", "delete_bgpvpn"} => j.bgpvpn \in Bgpvpn
         /\ j.step \in {"tell_assoc", "delete_assoc"} => j.assoc \in Assoc
         /\ j.step = "tell_assoc" => j.event \in {"created", "updated"}
         /\ j.step = "tell_network" => j.network \in Network
         /\ j.step = "unplug" => j.interface \in Router \X Network
         /\ j.step = "push" => j.notice \in Notices /\ j.next \in FinalStep \cup {Idle}
         /\ j.step \in {"update", "tell_bgpvpn", "delete_bgpvpn", "tell_assoc", "delete_assoc",
                        "tell_network", "unplug", "push"}
<1>1. j # Idle
  BY IdleAssumption
<1>2. CASE j \in FinalStep
  BY <1>1, <1>2 DEF FinalStep
<1>3. CASE j \notin FinalStep
  BY <1>1, <1>3 DEF Job
<1>. QED
  BY <1>2, <1>3

LEMMA FinalShape ==
  ASSUME NEW j \in FinalStep
  PROVE  /\ j \in Job /\ j.step # "push"
         /\ j.step \in {"delete_bgpvpn", "delete_assoc", "unplug"}
BY DEF FinalStep, Job

\* A job that carries no notice is good if it is a job.
LEMMA SimpleIsGood ==
  /\ \A b \in Bgpvpn :
       GoodJob([step |-> "tell_bgpvpn", on |-> {b}, bgpvpn |-> b])
  /\ \A b \in Bgpvpn, a \in Assoc, event \in {"created", "updated"} :
       GoodJob([step |-> "tell_assoc", on |-> {b}, assoc |-> a, event |-> event])
  /\ \A n \in Network : GoodJob([step |-> "tell_network", on |-> Bgpvpn, network |-> n])
<1>1. ASSUME NEW b \in Bgpvpn
      PROVE  GoodJob([step |-> "tell_bgpvpn", on |-> {b}, bgpvpn |-> b])
  BY DEF GoodJob, Job
<1>2. ASSUME NEW b \in Bgpvpn, NEW a \in Assoc, NEW event \in {"created", "updated"}
      PROVE  GoodJob([step |-> "tell_assoc", on |-> {b}, assoc |-> a, event |-> event])
  BY DEF GoodJob, Job
<1>3. ASSUME NEW n \in Network
      PROVE  GoodJob([step |-> "tell_network", on |-> Bgpvpn, network |-> n])
  BY DEF GoodJob, Job
<1>. QED
  BY <1>1, <1>2, <1>3

\* A good notice is a notice.
LEMMA GoodIsNotice ==
  ASSUME NEW notice \in GoodNotices
  PROVE  notice \in Notices
<1>1. GoodObjects \subseteq Objects
  BY DEF GoodObjects
<1>2. PICK S \in SUBSET Assoc : notice.objects \in [S -> GoodObjects]
  BY DEF GoodNotices, NoticeObjects
<1>3. notice.objects \in [S -> Objects]
  BY <1>1, <1>2
<1>4. notice.objects \in UNION {[which -> Objects] : which \in SUBSET Assoc}
  BY <1>3
<1>. QED
  BY <1>4 DEF GoodNotices, Notices

\* Pushing a good notice and going on with a final step is a good job.
LEMMA PushingGood ==
  ASSUME NEW notice \in GoodNotices, NEW rest \in FinalStep \cup {Idle}
  PROVE  GoodJob(Pushing(notice, rest))
<1>1. CASE DOMAIN notice.objects = {}
  BY <1>1, FinalShape, JobShape DEF Pushing, GoodJob
<1>2. CASE DOMAIN notice.objects # {}
  <2>. DEFINE on == {notice.objects[a].bgpvpn : a \in DOMAIN notice.objects}
                      \cup (IF rest = Idle THEN {} ELSE rest.on)
              j == [step |-> "push", notice |-> notice, next |-> rest, on |-> on]
  <2>1. on \subseteq Bgpvpn
    BY NoticeShape, FinalShape, JobShape DEF GoodObjects, Objects
  <2>. HIDE DEF on
  <2>2. j \in Job
    BY <2>1, GoodIsNotice DEF Job
  <2>3. GoodJob(j)
    BY <2>2 DEF GoodJob
  <2>. QED
    BY <1>2, <2>3 DEF Pushing, on
<1>. QED
  BY <1>1, <1>2

\* What is committed only grows, and what was good stays so.
LEMMA Grows ==
  ASSUME TablesOK, CommittedOK, \A b \in Bgpvpn : committed[b] \subseteq committed'[b]
  PROVE  /\ GoodObjects \subseteq GoodObjects'
         /\ GoodNotices \subseteq GoodNotices'
<1>1. GoodObjects \subseteq GoodObjects'
  BY DEF GoodObjects, Objects
<1>2. NoticeObjects \subseteq NoticeObjects'
  <2>1. SUFFICES ASSUME NEW S \in SUBSET Assoc, NEW f \in [S -> GoodObjects]
                 PROVE  f \in NoticeObjects'
    BY DEF NoticeObjects
  <2>2. f \in [S -> GoodObjects']
    BY <1>1
  <2>. QED
    BY <2>2 DEF NoticeObjects
<1>. QED
  BY <1>1, <1>2 DEF GoodNotices

-----------------------------------------------------------------------------
(***************************************************************************)
(* The tables: every step keeps them well formed, without route            *)
(* distinguishers and off external networks, and only adds to what was     *)
(* committed.                                                              *)
(***************************************************************************)

TablesKept ==
  /\ TablesOK' /\ NoRouteDistinguishers' /\ CommittedOK'
  /\ \A b \in Bgpvpn : committed[b] \subseteq committed'[b]

LEMMA CreateBgpvpnTables ==
  ASSUME IInv, NEW w \in Worker, NEW b \in Bgpvpn, NEW name \in Name, NEW rt \in RT,
         NEW rd \in Rd, CreateBgpvpn(w, b, name, rt, rd)
  PROVE  TablesKept
<1>. DEFINE row == [name |-> name, rt |-> rt, rd |-> rd]
<1>1. row \in Row /\ row # None /\ row.rd = "none" /\ row.rt = rt
  BY NoneAssumption DEF Row, CreateBgpvpn, CommonPrecommitChecks
<1>2. /\ vpns' = [vpns EXCEPT ![b] = row] /\ assocs' = assocs /\ gone' = gone
      /\ unused' \subseteq unused
      /\ committed' = [committed EXCEPT ![b] = @ \cup {rt}]
  BY DEF CreateBgpvpn, neutronVars
<1>. HIDE DEF row
<1>3. TablesOK'
  BY <1>1, <1>2 DEF IInv, TablesOK, Rows, Exists, AssocRow
<1>4. NoRouteDistinguishers' /\ CommittedOK'
  BY <1>1, <1>2 DEF IInv, TablesOK, NoRouteDistinguishers, CommittedOK
<1>. QED
  BY <1>2, <1>3, <1>4 DEF TablesKept, IInv, CommittedOK

\* The merge of a body without route distinguishers and a row without any.
LEMMA CommitUpdateTables ==
  ASSUME IInv, NEW w \in Worker, CommitUpdate(w)
  PROVE  TablesKept
<1>. DEFINE b == job[w].bgpvpn
            body == job[w].body
            new == Merged(vpns[b], body)
<1>1. b \in Bgpvpn /\ body \in Body
  BY JobShape DEF IInv, JobsOK, CommitUpdate
<1>2. vpns[b] \in Row /\ vpns[b].rd = "none"
  BY <1>1 DEF CommitUpdate, IInv, TablesOK, NoRouteDistinguishers
<1>3. /\ body.name \in Name \cup {None} /\ body.rt \in RT \cup {None}
      /\ body.rd \in {None, "set"}
  BY <1>1 DEF Body
<1>4. new \in Row
  BY <1>2, <1>3 DEF Merged, Row, Rd
<1>5. body.rd = None
  BY <1>3 DEF CommitUpdate, CommonPrecommitChecks, Merged
<1>6. new.rd = "none" /\ new # None
  BY <1>2, <1>4, <1>5, NoneAssumption DEF Merged, Row
<1>7. /\ vpns' = [vpns EXCEPT ![b] = new] /\ assocs' = assocs /\ gone' = gone
      /\ unused' = unused
      /\ committed' = [committed EXCEPT ![b] = @ \cup {new.rt}]
  BY DEF CommitUpdate, neutronVars
<1>8. new.rt \in RT
  BY <1>4 DEF Row
<1>. HIDE DEF b, body, new
<1>9. TablesOK'
  BY <1>1, <1>4, <1>6, <1>7 DEF IInv, TablesOK, Rows, Exists, AssocRow
<1>10. NoRouteDistinguishers' /\ CommittedOK'
  BY <1>1, <1>6, <1>7, <1>8 DEF IInv, TablesOK, NoRouteDistinguishers, CommittedOK
<1>. QED
  BY <1>1, <1>7, <1>9, <1>10 DEF TablesKept, IInv, CommittedOK

\* The associations of a BGPVPN go with it.
LEMMA CommitDeleteBgpvpnTables ==
  ASSUME IInv, NEW w \in Worker, CommitDeleteBgpvpn(w)
  PROVE  TablesKept
<1>. DEFINE b == job[w].bgpvpn
<1>1. b \in Bgpvpn
  BY JobShape DEF IInv, JobsOK, CommitDeleteBgpvpn
<1>2. /\ vpns' = [vpns EXCEPT ![b] = None]
      /\ assocs' = [a \in Assoc |-> IF a \in AssociationsOf(b) THEN None ELSE assocs[a]]
      /\ unused' = unused /\ gone' = gone /\ committed' = committed
  BY DEF CommitDeleteBgpvpn, neutronVars
<1>. HIDE DEF b
<1>3. TablesOK'
  BY <1>1, <1>2 DEF IInv, TablesOK, Rows, AssociationsOf, Exists, AssocRow
<1>4. NoRouteDistinguishers' /\ CommittedOK'
  BY <1>1, <1>2 DEF IInv, TablesOK, NoRouteDistinguishers, CommittedOK
<1>. QED
  BY <1>2, <1>3, <1>4 DEF TablesKept

LEMMA CreateAssocTables ==
  ASSUME IInv, NEW w \in Worker, NEW a \in Assoc, NEW b \in Bgpvpn, NEW on \in Resource,
         NEW flag \in Flag, CreateAssoc(w, a, b, on, flag)
  PROVE  TablesKept
<1>. DEFINE row == [bgpvpn |-> b, on |-> on, flag |-> flag]
<1>1. row \in AssocRow /\ row.bgpvpn = b /\ row.on = on
  BY DEF AssocRow
<1>2. /\ vpns[b] # None /\ Exists(on) /\ on \notin External
      /\ assocs' = [assocs EXCEPT ![a] = row] /\ unused' \subseteq unused
      /\ vpns' = vpns /\ gone' = gone /\ committed' = committed
  BY DEF CreateAssoc, AssocPrecommit, neutronVars
<1>. HIDE DEF row
<1>3. TablesOK'
  BY <1>1, <1>2 DEF IInv, TablesOK, Rows, Exists
<1>. QED
  BY <1>2, <1>3 DEF TablesKept, IInv, NoRouteDistinguishers, CommittedOK

\* An association that only changes its flag, or goes.
LEMMA AssocChanged ==
  ASSUME IInv, NEW a \in Assoc, NEW row \in AssocRow \cup {None},
         row # None => a \in Rows /\ row.bgpvpn = assocs[a].bgpvpn /\ row.on = assocs[a].on,
         assocs' = [assocs EXCEPT ![a] = row],
         UNCHANGED <<vpns, unused, neutronVars, committed>>
  PROVE  TablesKept
<1>1. TablesOK'
  BY DEF IInv, TablesOK, Rows, Exists, neutronVars
<1>. QED
  BY <1>1 DEF TablesKept, IInv, NoRouteDistinguishers, CommittedOK

LEMMA UpdateAssocTables ==
  ASSUME IInv, NEW w \in Worker, NEW a \in Assoc, NEW flag \in Flag,
         UpdatePortAssoc(w, a, flag) \/ UpdateRouterAssoc(w, a, flag)
  PROVE  TablesKept
<1>. DEFINE row == [assocs[a] EXCEPT !.flag = flag]
<1>1. a \in Rows /\ assocs[a] \in AssocRow
  BY DEF UpdatePortAssoc, UpdateRouterAssoc, Rows, IInv, TablesOK
<1>2. row \in AssocRow /\ row.bgpvpn = assocs[a].bgpvpn /\ row.on = assocs[a].on
  BY <1>1 DEF AssocRow
<1>3. /\ assocs' = [assocs EXCEPT ![a] = row]
      /\ UNCHANGED <<vpns, unused, neutronVars, committed>>
  BY DEF UpdatePortAssoc, UpdateRouterAssoc
<1>. HIDE DEF row
<1>. QED
  BY <1>1, <1>2, <1>3, AssocChanged

LEMMA DeleteResourceTables ==
  ASSUME IInv, NEW x \in Resource, DeleteResource(x)
  PROVE  TablesKept
<1>1. /\ gone' = gone \cup {x}
      /\ assocs' = [a \in Assoc |-> IF a \in Rows /\ assocs[a].on = x THEN None ELSE assocs[a]]
      /\ vpns' = vpns /\ unused' = unused /\ committed' = committed
  BY DEF DeleteResource
<1>2. TablesOK'
  BY <1>1 DEF IInv, TablesOK, Rows, Exists
<1>. QED
  BY <1>1, <1>2 DEF TablesKept, IInv, NoRouteDistinguishers, CommittedOK

\* Every other step leaves the tables alone.
LEMMA SameTables ==
  ASSUME IInv, UNCHANGED <<vpns, assocs, unused, gone, committed>>
  PROVE  TablesKept
BY DEF TablesKept, IInv, TablesOK, Rows, Exists, NoRouteDistinguishers, CommittedOK

LEMMA TablesStep ==
  ASSUME IInv, [Next]_vars
  PROVE  TablesKept
<1>1. ASSUME NEW w \in Worker, Begin(w)
      PROVE  TablesKept
  <2>1. ASSUME NEW b \in Bgpvpn, NEW name \in Name, NEW rt \in RT, NEW rd \in Rd,
               CreateBgpvpn(w, b, name, rt, rd)
        PROVE  TablesKept
    BY <2>1, CreateBgpvpnTables
  <2>2. ASSUME NEW b \in Bgpvpn, NEW a \in Assoc, NEW on \in Resource,
               CreateAssoc(w, a, b, on, "on")
        PROVE  TablesKept
    BY <2>2, CreateAssocTables DEF Flag
  <2>3. ASSUME NEW a \in Assoc, NEW flag \in Flag,
               UpdatePortAssoc(w, a, flag) \/ UpdateRouterAssoc(w, a, flag)
        PROVE  TablesKept
    BY <2>3, UpdateAssocTables
  <2>4. ASSUME \/ \E b \in Bgpvpn : \/ \E body \in Body : BeginUpdate(w, b, body)
                                    \/ BeginDeleteBgpvpn(w, b)
               \/ \E a \in Assoc : BeginDeleteAssoc(w, a)
               \/ \E r \in Router, n \in Network :
                    AddInterface(w, r, n) \/ BeginRemoveInterface(w, r, n)
        PROVE  TablesKept
    <3>1. UNCHANGED <<vpns, assocs, unused, gone, committed>>
      BY <2>4 DEF BeginUpdate, BeginDeleteBgpvpn, BeginDeleteAssoc, AddInterface,
                  BeginRemoveInterface, neutronVars
    <3>. QED
      BY <3>1, SameTables
  <2>. QED
    BY <1>1, <2>1, <2>2, <2>3, <2>4 DEF Begin
<1>2. ASSUME NEW w \in Worker, CommitUpdate(w) PROVE TablesKept
  BY <1>2, CommitUpdateTables
<1>3. ASSUME NEW w \in Worker, CommitDeleteBgpvpn(w) PROVE TablesKept
  BY <1>3, CommitDeleteBgpvpnTables
<1>4. ASSUME NEW w \in Worker, CommitDeleteAssoc(w) PROVE TablesKept
  <2>1. job[w].assoc \in Assoc
    BY <1>4, JobShape DEF CommitDeleteAssoc, IInv, JobsOK
  <2>. QED
    BY <1>4, <2>1, AssocChanged DEF CommitDeleteAssoc
<1>5. ASSUME NEW w \in Worker,
             \/ RefuseUpdate(w) \/ CommitRemoveInterface(w) \/ Build(w) \/ Push(w)
             \/ Deliver(w) \/ Rollback(w) \/ Crash(w) \/ Swallow(w)
      PROVE  TablesKept
  <2>1. UNCHANGED <<vpns, assocs, unused, gone, committed>>
    BY <1>5 DEF RefuseUpdate, CommitRemoveInterface, Build, Push, Deliver, Rollback,
                Crash, Swallow, neutronVars
  <2>. QED
    BY <2>1, SameTables
<1>6. ASSUME NEW x \in Resource, DeleteResource(x) PROVE TablesKept
  BY <1>6, DeleteResourceTables
<1>7. CASE UNCHANGED vars
  BY <1>7, SameTables DEF vars
<1>. QED
  BY <1>1, <1>2, <1>3, <1>4, <1>5, <1>6, <1>7 DEF Next, Proceed

-----------------------------------------------------------------------------
(***************************************************************************)
(* Neutron and the history.                                                *)
(***************************************************************************)

LEMMA ServeKeeps ==
  ASSUME IInv, NEW w \in Worker, NEW bs \in SUBSET Bgpvpn, Serve(w, bs)
  PROVE  HistoryOK'
<1>1. served' \in 0..MaxRequests
  BY BoundAssumption DEF Serve, IInv, HistoryOK
<1>2. raced' \subseteq Bgpvpn
  BY DEF Serve, IInv, HistoryOK
<1>. QED
  BY <1>1, <1>2 DEF HistoryOK

LEMMA HistoryStep ==
  ASSUME IInv, [Next]_vars
  PROVE  HistoryOK'
<1>1. ASSUME NEW w \in Worker, Begin(w)
      PROVE  HistoryOK'
  <2>1. \A a \in Rows : {assocs[a].bgpvpn} \in SUBSET Bgpvpn
    BY DEF IInv, TablesOK, Rows, AssocRow
  <2>2. \A bs \in SUBSET Bgpvpn : Serve(w, bs) => HistoryOK'
    BY ServeKeeps
  <2>3. ASSUME NEW b \in Bgpvpn,
               \/ \E name \in Name, rt \in RT, rd \in Rd : CreateBgpvpn(w, b, name, rt, rd)
               \/ \E body \in Body : BeginUpdate(w, b, body)
               \/ BeginDeleteBgpvpn(w, b)
               \/ \E a \in Assoc, on \in Resource : CreateAssoc(w, a, b, on, "on")
        PROVE  HistoryOK'
    <3>1. Serve(w, {b})
      BY <2>3 DEF CreateBgpvpn, BeginUpdate, BeginDeleteBgpvpn, CreateAssoc
    <3>. QED
      BY <2>2, <3>1
  <2>4. ASSUME NEW a \in Assoc,
               \/ \E flag \in Flag : UpdatePortAssoc(w, a, flag) \/ UpdateRouterAssoc(w, a, flag)
               \/ BeginDeleteAssoc(w, a)
        PROVE  HistoryOK'
    <3>1. a \in Rows /\ Serve(w, {assocs[a].bgpvpn})
      BY <2>4 DEF UpdatePortAssoc, UpdateRouterAssoc, BeginDeleteAssoc
    <3>. QED
      BY <2>1, <2>2, <3>1
  <2>5. ASSUME NEW r \in Router, NEW n \in Network,
               AddInterface(w, r, n) \/ BeginRemoveInterface(w, r, n)
        PROVE  HistoryOK'
    <3>1. Serve(w, Bgpvpn)
      BY <2>5 DEF AddInterface, BeginRemoveInterface
    <3>. QED
      BY <2>2, <3>1
  <2>. QED
    BY <1>1, <2>3, <2>4, <2>5 DEF Begin
<1>2. ASSUME NEW w \in Worker, Rollback(w) \/ Crash(w) \/ Swallow(w)
      PROVE  HistoryOK'
  <2>1. job[w].on \subseteq Bgpvpn
    BY <1>2, JobShape DEF Rollback, Crash, Swallow, IInv, JobsOK
  <2>. QED
    BY <1>2, <2>1 DEF Rollback, Crash, Swallow, IInv, HistoryOK
<1>3. ASSUME \/ \E w \in Worker : Proceed(w) \/ Deliver(w)
             \/ \E x \in Resource : DeleteResource(x)
             \/ UNCHANGED vars
      PROVE  HistoryOK'
  <2>1. UNCHANGED <<served, raced>>
    BY <1>3 DEF Proceed, CommitUpdate, RefuseUpdate, CommitDeleteBgpvpn, CommitDeleteAssoc,
                CommitRemoveInterface, Build, Push, Deliver, DeleteResource, vars
  <2>. QED
    BY <2>1 DEF IInv, HistoryOK
<1>. QED
  BY <1>1, <1>2, <1>3 DEF Next

LEMMA NeutronStep ==
  ASSUME IInv, [Next]_vars
  PROVE  NeutronOK'
<1>1. ASSUME NEW w \in Worker, NEW r \in Router, NEW n \in Network, AddInterface(w, r, n)
      PROVE  NeutronOK'
  BY <1>1 DEF AddInterface, IInv, NeutronOK
<1>2. ASSUME NEW w \in Worker, CommitRemoveInterface(w)
      PROVE  NeutronOK'
  BY <1>2 DEF CommitRemoveInterface, IInv, NeutronOK
<1>3. ASSUME NEW x \in Resource, DeleteResource(x)
      PROVE  NeutronOK'
  BY <1>3 DEF DeleteResource, IInv, NeutronOK
<1>4. ASSUME UNCHANGED <<plugged, gone>>
      PROVE  NeutronOK'
  BY <1>4 DEF IInv, NeutronOK
<1>5. ASSUME NEW w \in Worker, Begin(w)
      PROVE  NeutronOK'
  <2>1. \/ UNCHANGED <<plugged, gone>>
        \/ \E r \in Router, n \in Network : AddInterface(w, r, n)
    BY <1>5 DEF Begin, CreateBgpvpn, BeginUpdate, BeginDeleteBgpvpn, CreateAssoc,
                UpdatePortAssoc, UpdateRouterAssoc, BeginDeleteAssoc,
                BeginRemoveInterface, neutronVars
  <2>. QED
    BY <1>1, <1>4, <2>1
<1>6. ASSUME NEW w \in Worker, Proceed(w) \/ Deliver(w) \/ Rollback(w) \/ Crash(w)
             \/ Swallow(w)
      PROVE  NeutronOK'
  <2>1. UNCHANGED <<plugged, gone>> \/ CommitRemoveInterface(w)
    BY <1>6 DEF Proceed, CommitUpdate, RefuseUpdate, CommitDeleteBgpvpn,
                CommitDeleteAssoc, Build, Push, Deliver, Rollback, Crash, Swallow,
                neutronVars
  <2>. QED
    BY <1>2, <1>4, <2>1
<1>7. CASE UNCHANGED vars
  BY <1>4, <1>7 DEF vars
<1>. QED
  BY <1>3, <1>5, <1>6, <1>7 DEF Next

-----------------------------------------------------------------------------
(***************************************************************************)
(* Jobs and notices.                                                       *)
(***************************************************************************)

LEMMA GrowsStep ==
  ASSUME IInv, [Next]_vars
  PROVE  /\ GoodObjects \subseteq GoodObjects'
         /\ GoodNotices \subseteq GoodNotices'
BY TablesStep, Grows DEF TablesKept, IInv

\* A worker goes on with a good job; the others keep theirs.
LEMMA JobChanged ==
  ASSUME IInv, [Next]_vars, NEW w \in Worker, NEW j, GoodJob(j),
         job' = [job EXCEPT ![w] = j]
  PROVE  JobsOK'
<1>1. job' = [v \in Worker |-> IF v = w THEN j ELSE job[v]]
  BY DEF IInv, JobsOK
<1>. QED
  BY <1>1, GrowsStep DEF IInv, JobsOK, GoodJob

LEMMA SameJobs ==
  ASSUME IInv, [Next]_vars, UNCHANGED job
  PROVE  JobsOK'
BY GrowsStep DEF IInv, JobsOK, GoodJob

LEMMA IdleIsGood == GoodJob(Idle)
BY DEF GoodJob

LEMMA BeginJobs ==
  ASSUME IInv, [Next]_vars, NEW w \in Worker, Begin(w)
  PROVE  JobsOK'
<1>1. ASSUME NEW b \in Bgpvpn, NEW body \in Body, BeginUpdate(w, b, body)
      PROVE  JobsOK'
  <2>. DEFINE j == [step |-> "update", on |-> {b}, bgpvpn |-> b, body |-> body,
                    old |-> vpns[b], spanned |-> {assocs[a].on : a \in AssociationsOf(b)}]
  <2>1. vpns[b] \in Row
    BY <1>1 DEF BeginUpdate, IInv, TablesOK
  <2>2. {assocs[a].on : a \in AssociationsOf(b)} \subseteq Resource
    BY DEF AssociationsOf, Rows, IInv, TablesOK, AssocRow
  <2>3. GoodJob(j)
    BY <2>1, <2>2 DEF GoodJob, Job
  <2>4. job' = [job EXCEPT ![w] = j]
    BY <1>1 DEF BeginUpdate
  <2>. HIDE DEF j
  <2>. QED
    BY <2>3, <2>4, JobChanged
<1>2. ASSUME NEW b \in Bgpvpn, BeginDeleteBgpvpn(w, b)
      PROVE  JobsOK'
  <2>. DEFINE rest == [step |-> "delete_bgpvpn", on |-> {b}, bgpvpn |-> b]
              notice == Notice("deleted", PushedWith(b))
  <2>1. notice \in GoodNotices
    BY NoticeGood DEF PushedWith, AssociationsOf, IInv
  <2>2. rest \in FinalStep
    BY DEF FinalStep
  <2>3. job' = [job EXCEPT ![w] = Pushing(notice, rest)]
    BY <1>2 DEF BeginDeleteBgpvpn
  <2>. HIDE DEF rest, notice
  <2>. QED
    BY <2>1, <2>2, <2>3, PushingGood, JobChanged
<1>3. ASSUME NEW a \in Assoc, NEW b \in Bgpvpn, NEW on \in Resource,
             CreateAssoc(w, a, b, on, "on")
      PROVE  JobsOK'
  <2>. DEFINE j == [step |-> "tell_assoc", on |-> {b}, assoc |-> a, event |-> "created"]
  <2>1. GoodJob(j)
    BY SimpleIsGood
  <2>2. job' = [job EXCEPT ![w] = j]
    BY <1>3 DEF CreateAssoc
  <2>. HIDE DEF j
  <2>. QED
    BY <2>1, <2>2, JobChanged
<1>4. ASSUME NEW a \in Assoc, NEW flag \in Flag, UpdatePortAssoc(w, a, flag)
      PROVE  JobsOK'
  <2>. DEFINE j == [step |-> "tell_assoc", on |-> {assocs[a].bgpvpn}, assoc |-> a,
                    event |-> "updated"]
  <2>1. assocs[a].bgpvpn \in Bgpvpn
    BY <1>4 DEF UpdatePortAssoc, Rows, IInv, TablesOK, AssocRow
  <2>2. GoodJob(j)
    BY <2>1, SimpleIsGood
  <2>3. job' = [job EXCEPT ![w] = j]
    BY <1>4 DEF UpdatePortAssoc
  <2>. HIDE DEF j
  <2>. QED
    BY <2>2, <2>3, JobChanged
<1>5. ASSUME NEW a \in Assoc, BeginDeleteAssoc(w, a)
      PROVE  JobsOK'
  <2>. DEFINE rest == [step |-> "delete_assoc", on |-> {assocs[a].bgpvpn}, assoc |-> a]
              notice == Notice("deleted", {a})
  <2>1. a \in Rows /\ assocs[a].bgpvpn \in Bgpvpn
    BY <1>5 DEF BeginDeleteAssoc, Rows, IInv, TablesOK, AssocRow
  <2>2. notice \in GoodNotices
    BY <2>1, NoticeGood DEF IInv
  <2>3. rest \in FinalStep
    BY <2>1 DEF FinalStep
  <2>4. job' = [job EXCEPT ![w] = Pushing(notice, rest)]
    BY <1>5 DEF BeginDeleteAssoc
  <2>. HIDE DEF rest, notice
  <2>. QED
    BY <2>2, <2>3, <2>4, PushingGood, JobChanged
<1>6. ASSUME NEW r \in Router, NEW n \in Network, AddInterface(w, r, n)
      PROVE  JobsOK'
  <2>. DEFINE j == [step |-> "tell_network", on |-> Bgpvpn, network |-> n]
  <2>1. GoodJob(j)
    BY SimpleIsGood
  <2>2. job' = [job EXCEPT ![w] = j]
    BY <1>6 DEF AddInterface
  <2>. HIDE DEF j
  <2>. QED
    BY <2>1, <2>2, JobChanged
<1>7. ASSUME NEW r \in Router, NEW n \in Network, BeginRemoveInterface(w, r, n)
      PROVE  JobsOK'
  <2>. DEFINE rest == [step |-> "unplug", on |-> Bgpvpn, interface |-> <<r, n>>]
              notice == NoticeWithoutGateway(OfInterface(r, n), n)
  <2>1. notice \in GoodNotices
    BY WithoutGatewayGood DEF OfInterface, IInv
  <2>2. rest \in FinalStep
    BY DEF FinalStep
  <2>3. job' = [job EXCEPT ![w] = Pushing(notice, rest)]
    BY <1>7 DEF BeginRemoveInterface, RemovedNotice
  <2>. HIDE DEF rest, notice
  <2>. QED
    BY <2>1, <2>2, <2>3, PushingGood, JobChanged
<1>8. ASSUME \/ \E b \in Bgpvpn, name \in Name, rt \in RT, rd \in Rd :
                  CreateBgpvpn(w, b, name, rt, rd)
             \/ \E a \in Assoc, flag \in Flag : UpdateRouterAssoc(w, a, flag)
      PROVE  JobsOK'
  BY <1>8, SameJobs DEF CreateBgpvpn, UpdateRouterAssoc
<1>. QED
  BY <1>1, <1>2, <1>3, <1>4, <1>5, <1>6, <1>7, <1>8 DEF Begin

LEMMA BuildJobs ==
  ASSUME IInv, [Next]_vars, NEW w \in Worker, Build(w)
  PROVE  JobsOK'
<1>. DEFINE notice == ToldOf(job[w])
<1>1. PushedWith(job[w].bgpvpn) \subseteq Rows /\ OnNetwork(job[w].network) \subseteq Rows
  BY DEF PushedWith, AssociationsOf, OnNetwork
<1>2. CASE job[w].step = "tell_assoc"
  <2>1. job[w].event \in {"created", "updated"}
    BY <1>2, JobShape DEF Build, IInv, JobsOK
  <2>2. Notice(job[w].event, {job[w].assoc} \cap Rows) \in GoodNotices
    BY <2>1, NoticeGood DEF IInv
  <2>. QED
    BY <1>2, <2>2, PushingGood, IdleIsGood, JobChanged DEF Build, ToldOf
<1>3. CASE job[w].step \in {"tell_bgpvpn", "tell_network"}
  <2>1. notice \in GoodNotices
    BY <1>1, <1>3, NoticeGood DEF IInv, ToldOf
  <2>. HIDE DEF notice
  <2>2. job' = [job EXCEPT ![w] = Pushing(notice, Idle)]
    BY DEF Build, notice
  <2>. QED
    BY <2>1, <2>2, PushingGood, IdleIsGood, JobChanged
<1>. QED
  BY <1>2, <1>3 DEF Build

LEMMA JobsStep ==
  ASSUME IInv, [Next]_vars
  PROVE  JobsOK'
<1>1. ASSUME NEW w \in Worker, CommitUpdate(w) PROVE JobsOK'
  <2>. DEFINE j == [step |-> "tell_bgpvpn", on |-> {job[w].bgpvpn}, bgpvpn |-> job[w].bgpvpn]
  <2>1. job' = [job EXCEPT ![w] = j] \/ job' = [job EXCEPT ![w] = Idle]
    BY <1>1 DEF CommitUpdate
  <2>2. GoodJob(j)
    BY <1>1, JobShape, SimpleIsGood DEF CommitUpdate, IInv, JobsOK
  <2>. HIDE DEF j
  <2>. QED
    BY <2>1, <2>2, IdleIsGood, JobChanged
<1>2. ASSUME NEW w \in Worker,
             \/ RefuseUpdate(w) \/ CommitDeleteBgpvpn(w) \/ CommitDeleteAssoc(w)
             \/ CommitRemoveInterface(w) \/ Rollback(w) \/ Crash(w)
      PROVE  JobsOK'
  <2>1. job' = [job EXCEPT ![w] = Idle]
    BY <1>2 DEF RefuseUpdate, CommitDeleteBgpvpn, CommitDeleteAssoc,
                CommitRemoveInterface, Rollback, Crash
  <2>. QED
    BY <2>1, IdleIsGood, JobChanged
<1>3. ASSUME NEW w \in Worker, Push(w) \/ Swallow(w) PROVE JobsOK'
  <2>1. job[w] \in Job /\ job[w].next \in FinalStep \cup {Idle}
    BY <1>3, JobShape DEF Push, Swallow, IInv, JobsOK
  <2>2. GoodJob(job[w].next)
    BY <2>1, FinalShape, IdleIsGood DEF GoodJob
  <2>. QED
    BY <1>3, <2>2, JobChanged DEF Push, Swallow
<1>4. ASSUME \/ \E w \in Worker : Deliver(w)
             \/ \E x \in Resource : DeleteResource(x)
             \/ UNCHANGED vars
      PROVE  JobsOK'
  BY <1>4, SameJobs DEF Deliver, DeleteResource, vars
<1>. QED
  BY <1>1, <1>2, <1>3, <1>4, BeginJobs, BuildJobs DEF Next, Proceed

\* What is on its way and what agents hold is good, and stays so.
LEMMA AgentsStep ==
  ASSUME IInv, [Next]_vars
  PROVE  AgentsOK'
<1>1. /\ GoodObjects \subseteq GoodObjects'
      /\ \A q \in Seq(GoodNotices) : q \in Seq(GoodNotices')
  BY GrowsStep, SeqMonotonic
<1>2. ASSUME NEW w \in Worker, Push(w) PROVE AgentsOK'
  <2>1. job[w].notice \in GoodNotices
    BY <1>2 DEF Push, IInv, JobsOK, GoodJob
  <2>2. Append(wire[w], job[w].notice) \in Seq(GoodNotices)
    BY <2>1 DEF IInv, AgentsOK
  <2>3. wire' \in [Worker -> Seq(GoodNotices')]
    BY <1>1, <1>2, <2>2 DEF Push, IInv, AgentsOK
  <2>. QED
    BY <1>1, <1>2, <2>3 DEF Push, IInv, AgentsOK
<1>3. ASSUME NEW w \in Worker, Deliver(w) PROVE AgentsOK'
  <2>1. wire[w] \in Seq(GoodNotices) /\ wire[w] # <<>>
    BY <1>3 DEF Deliver, IInv, AgentsOK
  <2>2. Head(wire[w]) \in GoodNotices /\ Tail(wire[w]) \in Seq(GoodNotices)
    BY <2>1
  <2>3. Learn(Head(wire[w])) \in [Assoc -> GoodObjects \cup {None}]
    BY <2>2, NoticeShape DEF Learn, IInv, AgentsOK
  <2>4. wire' \in [Worker -> Seq(GoodNotices')]
    BY <1>1, <1>3, <2>2 DEF Deliver, IInv, AgentsOK
  <2>. QED
    BY <1>1, <1>3, <2>3, <2>4 DEF Deliver, AgentsOK
<1>4. ASSUME UNCHANGED <<wire, known>> PROVE AgentsOK'
  <2>1. wire \in [Worker -> Seq(GoodNotices')]
    BY <1>1 DEF IInv, AgentsOK
  <2>. QED
    BY <1>1, <1>4, <2>1 DEF IInv, AgentsOK
<1>5. ASSUME NEW w \in Worker, Begin(w) PROVE AgentsOK'
  <2>1. UNCHANGED <<wire, known>>
    BY <1>5 DEF Begin, CreateBgpvpn, BeginUpdate, BeginDeleteBgpvpn, CreateAssoc,
                UpdatePortAssoc, UpdateRouterAssoc, BeginDeleteAssoc, AddInterface,
                BeginRemoveInterface
  <2>. QED
    BY <1>4, <2>1
<1>6. ASSUME NEW w \in Worker,
             \/ CommitUpdate(w) \/ RefuseUpdate(w) \/ CommitDeleteBgpvpn(w)
             \/ CommitDeleteAssoc(w) \/ CommitRemoveInterface(w) \/ Build(w)
             \/ Rollback(w) \/ Crash(w) \/ Swallow(w)
      PROVE  AgentsOK'
  <2>1. UNCHANGED <<wire, known>>
    BY <1>6 DEF CommitUpdate, RefuseUpdate, CommitDeleteBgpvpn, CommitDeleteAssoc,
                CommitRemoveInterface, Build, Rollback, Crash, Swallow
  <2>. QED
    BY <1>4, <2>1
<1>7. ASSUME \/ \E x \in Resource : DeleteResource(x)
             \/ UNCHANGED vars
      PROVE  AgentsOK'
  BY <1>4, <1>7 DEF DeleteResource, vars
<1>. QED
  BY <1>2, <1>3, <1>5, <1>6, <1>7 DEF Next, Proceed

-----------------------------------------------------------------------------
(***************************************************************************)
(* The theorems.                                                           *)
(***************************************************************************)

\* The tables, the jobs and the notices are well formed: agents can only come to
\* hold what was read from rows that were committed, whatever overlaps and
\* whatever fails.
THEOREM InvariantCorrect == Spec => []IInv
<1>1. Init => IInv
  <2>. SUFFICES ASSUME Init PROVE IInv
    OBVIOUS
  <2>1. TablesOK /\ NoRouteDistinguishers /\ CommittedOK /\ NeutronOK
    BY DEF Init, TablesOK, Rows, NoRouteDistinguishers, CommittedOK, NeutronOK
  <2>2. JobsOK
    BY IdleIsGood DEF Init, JobsOK
  <2>3. AgentsOK
    BY DEF Init, AgentsOK
  <2>4. HistoryOK
    BY BoundAssumption DEF Init, HistoryOK
  <2>. QED
    BY <2>1, <2>2, <2>3, <2>4 DEF IInv
<1>2. IInv /\ [Next]_vars => IInv'
  BY TablesStep, HistoryStep, NeutronStep, JobsStep, AgentsStep DEF TablesKept, IInv
<1>. QED
  BY <1>1, <1>2, PTL DEF Spec

\* Every table, notice and view of the agents is well typed.
THEOREM TypeCorrect == Spec => []TypeOK
<1>1. ASSUME IInv PROVE TypeOK
  <2>1. known \in [Assoc -> Objects \cup {None}]
    BY <1>1 DEF IInv, AgentsOK, GoodObjects
  <2>2. GoodNotices \subseteq Notices
    BY GoodIsNotice
  <2>3. \A q \in Seq(GoodNotices) : q \in Seq(Notices)
    BY <2>2, SeqMonotonic
  <2>4. wire \in [Worker -> Seq(Notices)]
    BY <1>1, <2>3 DEF IInv, AgentsOK
  <2>. QED
    BY <1>1, <2>1, <2>4 DEF IInv, TypeOK, TablesOK, NeutronOK, JobsOK, HistoryOK
<1>. QED
  BY <1>1, InvariantCorrect, PTL

\* Agents never hold route targets that were never committed for the BGPVPN.
THEOREM NothingInventedCorrect == Spec => []NothingInvented
<1>1. IInv => NothingInvented
  BY DEF IInv, AgentsOK, GoodObjects, NothingInvented
<1>. QED
  BY <1>1, InvariantCorrect, PTL

\* Agents never hold an association of an external network.
THEOREM NoExternalNetworkCorrect == Spec => []NoExternalNetwork
<1>1. IInv => NoExternalNetwork
  BY DEF IInv, AgentsOK, GoodObjects, NoExternalNetwork
<1>. QED
  BY <1>1, InvariantCorrect, PTL

\* No BGPVPN has route distinguishers, however updates overlap: a body that
\* passes the check sets none, whatever row it was checked against.
THEOREM NoRouteDistinguishersCorrect == Spec => []NoRouteDistinguishers
<1>1. IInv => NoRouteDistinguishers
  BY DEF IInv
<1>. QED
  BY <1>1, InvariantCorrect, PTL

=============================================================================
