------------------------ MODULE BagpipeV2AgreeProofs ------------------------
(***************************************************************************)
(* That agents and database agree (AgentsAgree of BagpipeV2), for every    *)
(* value of the constants: any number of workers, every fault.             *)
(*                                                                         *)
(* The argument: unless requests overlapped on a BGPVPN, one worker at     *)
(* most works on it, and its notices arrive in order.  What agents will    *)
(* hold of an association once everything on its way has arrived either    *)
(* fits the database, or the worker is about to put it right.              *)
(*                                                                         *)
(* And that the driver implements EventualView (KeepsPromise): this comes  *)
(* from the same invariant, seen from each association rather than from    *)
(* its BGPVPN.                                                             *)
(***************************************************************************)
EXTENDS BagpipeV2Proofs, FiniteSetTheorems

-----------------------------------------------------------------------------
(***************************************************************************)
(* What is coming to the agents.                                           *)
(***************************************************************************)

Pushes(j) == j # Idle /\ j.step = "push"

\* What is left of a request, its push apart.
Rest(j) == IF Pushes(j) THEN j.next ELSE j

\* The notices of w on their way, the one it is about to push included.
Coming(w) == IF Pushes(job[w]) THEN Append(wire[w], job[w].notice) ELSE wire[w]

IsAbout(notice, a) == a \in DOMAIN notice.objects
Effect(notice, a) == IF notice.event = "deleted" THEN None ELSE notice.objects[a]

AboutIn(q, a) == \E i \in DOMAIN q : IsAbout(q[i], a)

LastIn(q, i, a) == IsAbout(q[i], a) /\ \A k \in DOMAIN q : k > i => ~ IsAbout(q[k], a)

\* What agents hold of a after the notices of q, if one is about a.
Given(q, a) == {Effect(q[i], a) : i \in {k \in DOMAIN q : LastIn(q, k, a)}}

\* What they may hold of a once everything has arrived.
Futures(a) ==
  (IF \E w \in Worker : AboutIn(Coming(w), a) THEN {} ELSE {known[a]})
    \cup UNION {Given(Coming(w), a) : w \in Worker}

-----------------------------------------------------------------------------
(***************************************************************************)
(* The inductive invariant.                                                *)
(***************************************************************************)

Matches(o, b, on) == o.bgpvpn = b /\ o.on = on

Carries(q, a, b, on) == \E i \in DOMAIN q : IsAbout(q[i], a) /\ Matches(q[i].objects[a], b, on)

\* Somewhere, a is an association of b and on.
Mentions(a, b, on) ==
  \/ assocs[a] # None /\ Matches(assocs[a], b, on)
  \/ known[a] # None /\ Matches(known[a], b, on)
  \/ \E w \in Worker : Carries(Coming(w), a, b, on)

\* An association is one of the same BGPVPN and resource wherever it is
\* mentioned, also after it is gone, and a UUID that is mentioned was used.
Identity ==
  /\ \A a \in Assoc, b, c \in Bgpvpn, on, at \in Resource :
       Mentions(a, b, on) /\ Mentions(a, c, at) => b = c /\ on = at
  /\ \A a \in Assoc, b \in Bgpvpn, on \in Resource :
       Mentions(a, b, on) => a \notin unused /\ b \notin unused
  /\ \A b \in Bgpvpn : vpns[b] # None => b \notin unused

\* The BGPVPNs a job is on are those of the associations it is about.
OnItsBgpvpns(j) ==
  j # Idle =>
    /\ j.step \in {"update", "tell_bgpvpn", "delete_bgpvpn"} => j.bgpvpn \in j.on
    /\ j.step \in {"tell_assoc", "delete_assoc"} =>
         /\ j.assoc \notin unused
         /\ assocs[j.assoc] # None => assocs[j.assoc].bgpvpn \in j.on
    /\ j.step \in {"tell_network", "unplug"} => j.on = Bgpvpn

\* So is what is left after a push of notices.
JobOn(j) ==
  /\ OnItsBgpvpns(Rest(j))
  /\ Pushes(j) =>
       /\ \A a \in DOMAIN j.notice.objects : j.notice.objects[a].bgpvpn \in j.on
       /\ j.next = Idle \/ j.next.on = j.on

JobsOn == \A w \in Worker : JobOn(job[w])

\* Two workers are busy with one BGPVPN only if it raced.
OneWorker ==
  \A b \in Bgpvpn \ raced : \A v, w \in Worker : b \in BusyWith(v) \cap BusyWith(w) => v = w

\* What an update has read is still so.
OldIsCurrent ==
  \A w \in Worker :
    job[w] # Idle /\ job[w].step = "update" /\ job[w].bgpvpn \notin raced =>
      vpns[job[w].bgpvpn] = job[w].old

WorksOn(w, b) == job[w] # Idle /\ b \in job[w].on

\* x is what the database will hold of row a once an interface on n is gone.
Withdrawn(a, x, n) ==
  /\ x # None
  /\ x.bgpvpn = Object(a).bgpvpn /\ x.on = Object(a).on
  /\ x.rt = Object(a).rt /\ x.flag = Object(a).flag /\ x.nets = Object(a).nets
  /\ x.gateways = Object(a).gateways \ {n}

\* What agents will hold of a, x, is what a worker needs it to be that has j
\* left to do: it will tell them of a, or it has told them already.
Awaits(j, a, x) ==
  IF a \notin AboutStep(j) THEN Fits(a, x)
  ELSE /\ j.step \in {"delete_bgpvpn", "delete_assoc"} => x = None
       /\ j.step = "unplug" => Withdrawn(a, x, j.interface[2])

Settled(a, b, x) ==
  /\ \A w \in Worker : WorksOn(w, b) => Awaits(Rest(job[w]), a, x)
  /\ (\A w \in Worker : ~ WorksOn(w, b)) => Fits(a, x)

Settling ==
  \A a \in Assoc, b \in Bgpvpn \ raced, on \in Resource \ gone :
    Mentions(a, b, on) => \A x \in Futures(a) : Settled(a, b, x)

Agreement == Identity /\ JobsOn /\ OneWorker /\ OldIsCurrent /\ Settling

-----------------------------------------------------------------------------
(***************************************************************************)
(* Queues of notices.                                                      *)
(***************************************************************************)

\* What a notice at the end of a queue adds.
LEMMA AppendNotice ==
  ASSUME NEW S, NEW q \in Seq(S), NEW notice \in S, NEW a
  PROVE  /\ AboutIn(Append(q, notice), a) <=> AboutIn(q, a) \/ IsAbout(notice, a)
         /\ IsAbout(notice, a) => Given(Append(q, notice), a) = {Effect(notice, a)}
         /\ ~ IsAbout(notice, a) => Given(Append(q, notice), a) = Given(q, a)
         /\ \A b, on : Carries(Append(q, notice), a, b, on) <=>
              \/ Carries(q, a, b, on)
              \/ IsAbout(notice, a) /\ Matches(notice.objects[a], b, on)
<1>. DEFINE n == Len(q)
            r == Append(q, notice)
<1>1. /\ n \in Nat /\ DOMAIN q = 1..n /\ DOMAIN r = 1..(n + 1)
      /\ \A i \in 1..n : r[i] = q[i]
      /\ r[n + 1] = notice
  OBVIOUS
<1>. HIDE DEF n, r
<1>2. \A i \in DOMAIN r : i \in DOMAIN q \/ i = n + 1
  BY <1>1
<1>3. n + 1 \in DOMAIN r /\ \A i \in DOMAIN q : i \in DOMAIN r /\ n + 1 > i
  BY <1>1
<1>4. AboutIn(r, a) <=> AboutIn(q, a) \/ IsAbout(notice, a)
  BY <1>1, <1>2, <1>3 DEF AboutIn
<1>5. ASSUME IsAbout(notice, a) PROVE Given(r, a) = {Effect(notice, a)}
  <2>1. \A i \in DOMAIN r : LastIn(r, i, a) <=> i = n + 1
    BY <1>1, <1>2, <1>3, <1>5 DEF LastIn
  <2>. QED
    BY <1>1, <1>3, <2>1 DEF Given
<1>6. ASSUME ~ IsAbout(notice, a) PROVE Given(r, a) = Given(q, a)
  <2>1. \A i \in DOMAIN q : LastIn(r, i, a) <=> LastIn(q, i, a)
    BY <1>1, <1>2, <1>3, <1>6 DEF LastIn
  <2>2. ~ LastIn(r, n + 1, a)
    BY <1>1, <1>6 DEF LastIn
  <2>3. \A i \in DOMAIN q : Effect(r[i], a) = Effect(q[i], a)
    BY <1>1
  <2>. QED
    BY <1>2, <1>3, <2>1, <2>2, <2>3 DEF Given
<1>7. ASSUME NEW b, NEW on
      PROVE  Carries(r, a, b, on) <=> \/ Carries(q, a, b, on)
                                      \/ IsAbout(notice, a) /\ Matches(notice.objects[a], b, on)
  BY <1>1, <1>2, <1>3 DEF Carries
<1>. QED
  BY <1>4, <1>5, <1>6, <1>7 DEF r

\* What is left when the notice at the head of a queue is taken.
LEMMA TakeNotice ==
  ASSUME NEW S, NEW q \in Seq(S), q # <<>>, NEW a
  PROVE  /\ AboutIn(q, a) <=> IsAbout(Head(q), a) \/ AboutIn(Tail(q), a)
         /\ Given(q, a) = IF IsAbout(Head(q), a) /\ ~ AboutIn(Tail(q), a)
                          THEN {Effect(Head(q), a)} ELSE Given(Tail(q), a)
         /\ \A b, on : Carries(q, a, b, on) <=>
              \/ Carries(Tail(q), a, b, on)
              \/ IsAbout(Head(q), a) /\ Matches(Head(q).objects[a], b, on)
<1>. DEFINE n == Len(q)
            r == Tail(q)
<1>1. /\ n \in Nat \ {0} /\ DOMAIN q = 1..n /\ DOMAIN r = 1..(n - 1)
      /\ \A i \in 1..(n - 1) : r[i] = q[i + 1]
      /\ Head(q) = q[1]
  OBVIOUS
<1>. HIDE DEF n, r
<1>2. 1 \in DOMAIN q /\ \A i \in DOMAIN r : i + 1 \in DOMAIN q /\ i + 1 # 1
  BY <1>1
<1>3. \A i \in DOMAIN q : i = 1 \/ (i > 1 /\ i - 1 \in DOMAIN r /\ i = (i - 1) + 1)
  BY <1>1
<1>4. \A i \in DOMAIN q : i = 1 \/ \E k \in DOMAIN r : i = k + 1
  BY <1>3
<1>5. \A i, k \in DOMAIN r : i + 1 > k + 1 <=> i > k
  BY <1>1
<1>6. AboutIn(q, a) <=> IsAbout(Head(q), a) \/ AboutIn(r, a)
  BY <1>1, <1>2, <1>4 DEF AboutIn
<1>7. \A i \in DOMAIN r : LastIn(q, i + 1, a) <=> LastIn(r, i, a)
  <2>1. ASSUME NEW i \in DOMAIN r PROVE LastIn(q, i + 1, a) <=> LastIn(r, i, a)
    <3>1. q[i + 1] = r[i] /\ ~ (1 > i + 1)
      BY <1>1
    <3>2. (\A k \in DOMAIN q : k > i + 1 => ~ IsAbout(q[k], a))
            <=> \A k \in DOMAIN r : k + 1 > i + 1 => ~ IsAbout(r[k], a)
      BY <1>1, <1>2, <1>4, <3>1
    <3>. QED
      BY <1>5, <3>1, <3>2 DEF LastIn
  <2>. QED
    BY <2>1
<1>8. LastIn(q, 1, a) <=> IsAbout(Head(q), a) /\ ~ AboutIn(r, a)
  <2>1. \A i \in DOMAIN r : i + 1 > 1
    BY <1>1
  <2>2. ~ (1 > 1)
    OBVIOUS
  <2>. QED
    BY <1>1, <1>2, <1>4, <2>1, <2>2 DEF LastIn, AboutIn
<1>9. ASSUME IsAbout(Head(q), a), ~ AboutIn(r, a)
      PROVE  Given(q, a) = {Effect(Head(q), a)}
  <2>1. \A i \in DOMAIN q : LastIn(q, i, a) <=> i = 1
    BY <1>4, <1>7, <1>8, <1>9 DEF LastIn, AboutIn
  <2>. QED
    BY <1>1, <1>2, <2>1 DEF Given
<1>10. ASSUME ~ IsAbout(Head(q), a) \/ AboutIn(r, a)
       PROVE  Given(q, a) = Given(r, a)
  <2>1. \A x : x \in Given(q, a) <=> \E i \in DOMAIN q : LastIn(q, i, a) /\ x = Effect(q[i], a)
    BY DEF Given
  <2>2. \A x : x \in Given(r, a) <=> \E i \in DOMAIN r : LastIn(r, i, a) /\ x = Effect(r[i], a)
    BY DEF Given
  <2>3. \A i \in DOMAIN r : Effect(q[i + 1], a) = Effect(r[i], a)
    BY <1>1
  <2>4. \A x : x \in Given(q, a) <=> x \in Given(r, a)
    BY <1>2, <1>4, <1>7, <1>8, <1>10, <2>1, <2>2, <2>3
  <2>. QED
    BY <2>4
<1>11. ASSUME NEW b, NEW on
       PROVE  Carries(q, a, b, on) <=> \/ Carries(r, a, b, on)
                                       \/ IsAbout(Head(q), a) /\ Matches(Head(q).objects[a], b, on)
  BY <1>1, <1>2, <1>4 DEF Carries
<1>. QED
  BY <1>6, <1>9, <1>10, <1>11 DEF r

-----------------------------------------------------------------------------
(***************************************************************************)
(* Jobs, and the notices that come of them.                                *)
(***************************************************************************)

LEMMA JobCases ==
  ASSUME IInv, NEW w \in Worker
  PROVE  /\ job[w] \in Job \cup {Idle}
         /\ Rest(job[w]) \in Job \cup {Idle} /\ ~ Pushes(Rest(job[w]))
         /\ Pushes(job[w]) => /\ job[w].notice \in GoodNotices
                              /\ job[w].next \in FinalStep \cup {Idle}
         /\ Coming(w) \in Seq(GoodNotices) /\ wire[w] \in Seq(GoodNotices)
<1>1. job[w] \in Job \cup {Idle} /\ GoodJob(job[w]) /\ wire[w] \in Seq(GoodNotices)
  BY DEF IInv, JobsOK, AgentsOK
<1>2. Pushes(job[w]) => /\ job[w].notice \in GoodNotices
                        /\ job[w].next \in FinalStep \cup {Idle}
  BY <1>1, JobShape DEF Pushes, GoodJob
<1>3. Coming(w) \in Seq(GoodNotices)
  BY <1>1, <1>2 DEF Coming
<1>4. Rest(job[w]) \in Job \cup {Idle} /\ ~ Pushes(Rest(job[w]))
  BY <1>1, <1>2, FinalShape DEF Rest, Pushes
<1>. QED
  BY <1>1, <1>2, <1>3, <1>4

\* The job that pushes a notice, if it is about anything, and goes on with next.
LEMMA PushingShape ==
  ASSUME NEW notice \in GoodNotices, NEW next \in FinalStep \cup {Idle}
  PROVE  /\ Rest(Pushing(notice, next)) = next
         /\ Pushes(Pushing(notice, next)) <=> DOMAIN notice.objects # {}
         /\ DOMAIN notice.objects # {} =>
              /\ Pushing(notice, next).notice = notice
              /\ Pushing(notice, next).next = next
              /\ Pushing(notice, next).on =
                   {notice.objects[a].bgpvpn : a \in DOMAIN notice.objects}
                     \cup (IF next = Idle THEN {} ELSE next.on)
<1>1. CASE DOMAIN notice.objects = {}
  <2>1. Pushing(notice, next) = next /\ ~ Pushes(next)
    BY <1>1, FinalShape DEF Pushing, Pushes
  <2>. QED
    BY <1>1, <2>1 DEF Rest
<1>2. CASE DOMAIN notice.objects # {}
  <2>. DEFINE j == [step |-> "push", notice |-> notice, next |-> next,
                    on |-> {notice.objects[a].bgpvpn : a \in DOMAIN notice.objects}
                             \cup (IF next = Idle THEN {} ELSE next.on)]
  <2>1. j # Idle
    <3>1. j \in Job
      <4>1. {notice.objects[a].bgpvpn : a \in DOMAIN notice.objects}
              \cup (IF next = Idle THEN {} ELSE next.on) \subseteq Bgpvpn
        BY NoticeShape, FinalShape, JobShape DEF GoodObjects, Objects
      <4>. QED
        BY <4>1, GoodIsNotice DEF Job
    <3>. QED
      BY <3>1, IdleAssumption
  <2>. QED
    BY <1>2, <2>1 DEF Pushing, Rest, Pushes
<1>. QED
  BY <1>1, <1>2

\* The objects of a notice are about the rows they were built from.
OfRows(notice) ==
  \A a \in DOMAIN notice.objects :
    a \in Rows /\ Matches(notice.objects[a], assocs[a].bgpvpn, assocs[a].on)

LEMMA NoticeOfRows ==
  ASSUME IInv, NEW S \in SUBSET Rows, NEW event \in {"created", "updated", "deleted"}
  PROVE  /\ Notice(event, S) \in GoodNotices /\ OfRows(Notice(event, S))
         /\ DOMAIN Notice(event, S).objects = S
         /\ \A a \in S : /\ Notice(event, S).objects[a] = Object(a)
                         /\ event = "deleted" => Effect(Notice(event, S), a) = None
                         /\ event # "deleted" => Effect(Notice(event, S), a) = Object(a)
<1>1. Notice(event, S) \in GoodNotices
  BY NoticeGood DEF IInv
<1>2. DOMAIN Notice(event, S).objects = S /\ Notice(event, S).event = event
  BY DEF Notice
<1>3. \A a \in S : Notice(event, S).objects[a] = Object(a)
  BY DEF Notice
<1>4. \A a \in S : Matches(Object(a), assocs[a].bgpvpn, assocs[a].on)
  BY DEF Matches, Object
<1>. QED
  BY <1>1, <1>2, <1>3, <1>4 DEF OfRows, Effect

LEMMA WithoutGatewayOfRows ==
  ASSUME IInv, NEW S \in SUBSET Rows, NEW n
  PROVE  /\ NoticeWithoutGateway(S, n) \in GoodNotices /\ OfRows(NoticeWithoutGateway(S, n))
         /\ DOMAIN NoticeWithoutGateway(S, n).objects = S
         /\ \A a \in S : Effect(NoticeWithoutGateway(S, n), a)
                           = [Object(a) EXCEPT !.gateways = @ \ {n}]
<1>. DEFINE notice == NoticeWithoutGateway(S, n)
<1>1. notice \in GoodNotices
  BY WithoutGatewayGood DEF IInv
<1>2. DOMAIN notice.objects = S /\ notice.event = "updated"
  BY DEF NoticeWithoutGateway
<1>3. \A a \in S : notice.objects[a] = [Object(a) EXCEPT !.gateways = @ \ {n}]
  BY DEF NoticeWithoutGateway
<1>4. \A a \in S : Matches([Object(a) EXCEPT !.gateways = @ \ {n}], assocs[a].bgpvpn, assocs[a].on)
  BY DEF Matches, Object
<1>. HIDE DEF notice
<1>. QED
  BY <1>1, <1>2, <1>3, <1>4 DEF OfRows, Effect, notice

-----------------------------------------------------------------------------
(***************************************************************************)
(* How a step changes what is coming.                                      *)
(***************************************************************************)

\* It does not.
Quiet == known' = known /\ \A w \in Worker : Coming(w)' = Coming(w)

\* Worker w is about to push a notice and to go on with next.
Adds(w, notice, next) ==
  /\ ~ Pushes(job[w])
  /\ notice \in GoodNotices /\ next \in FinalStep \cup {Idle}
  /\ OfRows(notice)
  /\ job' = [job EXCEPT ![w] = Pushing(notice, next)]
  /\ UNCHANGED <<wire, known>>

\* Worker w goes on with j, none of whose notices is coming, nor was of its job.
GoesOn(w, j) ==
  /\ ~ Pushes(job[w]) /\ ~ Pushes(j)
  /\ job' = [job EXCEPT ![w] = j]
  /\ UNCHANGED <<wire, known>>

LEMMA GoesOnQuiet ==
  ASSUME IInv, NEW w \in Worker, NEW j, GoesOn(w, j)
  PROVE  Quiet
<1>1. \A v \in Worker : job'[v] = IF v = w THEN j ELSE job[v]
  BY DEF GoesOn, IInv, JobsOK
<1>. QED
  BY <1>1 DEF GoesOn, Quiet, Coming

LEMMA PushQuiet ==
  ASSUME IInv, NEW w \in Worker, Push(w)
  PROVE  Quiet
<1>1. \A v \in Worker : job'[v] = IF v = w THEN job[w].next ELSE job[v]
  BY DEF Push, IInv, JobsOK
<1>2. \A v \in Worker : wire'[v] = IF v = w THEN Append(wire[w], job[w].notice) ELSE wire[v]
  BY DEF Push, IInv, AgentsOK
<1>3. Pushes(job[w]) /\ ~ Pushes(job[w].next)
  BY JobCases, FinalShape DEF Push, Pushes
<1>. QED
  BY <1>1, <1>2, <1>3 DEF Push, Quiet, Coming

\* What agents will hold, and the mentions, after a quiet step.
LEMMA QuietFutures ==
  ASSUME Quiet, NEW a \in Assoc
  PROVE  /\ Futures(a)' = Futures(a)
         /\ \A b, on : Mentions(a, b, on)' =>
              \/ Mentions(a, b, on)
              \/ assocs'[a] # None /\ Matches(assocs'[a], b, on)
<1>1. known' = known /\ \A w \in Worker : Coming(w)' = Coming(w)
  BY DEF Quiet
<1>2. \A w \in Worker : /\ AboutIn(Coming(w), a)' <=> AboutIn(Coming(w), a)
                        /\ Given(Coming(w), a)' = Given(Coming(w), a)
                        /\ \A b, on : Carries(Coming(w), a, b, on)' <=> Carries(Coming(w), a, b, on)
  BY <1>1 DEF AboutIn, Given, LastIn, IsAbout, Effect, Carries, Matches
<1>3. UNION {Given(Coming(w), a) : w \in Worker}' = UNION {Given(Coming(w), a) : w \in Worker}
  BY <1>2
<1>4. Futures(a)' = Futures(a)
  BY <1>1, <1>2, <1>3 DEF Futures
<1>. QED
  BY <1>1, <1>2, <1>4 DEF Mentions, Matches

\* After a notice was added.
LEMMA AddsFutures ==
  ASSUME IInv, NEW w \in Worker, NEW notice, NEW next, Adds(w, notice, next), NEW a \in Assoc
  PROVE  /\ ~ IsAbout(notice, a) => Futures(a)' = Futures(a)
         /\ IsAbout(notice, a) => \A x \in Futures(a)' :
              \/ x = Effect(notice, a)
              \/ \E v \in Worker \ {w} : AboutIn(Coming(v), a)
         /\ assocs' = assocs => \A b, on : Mentions(a, b, on)' => Mentions(a, b, on)
<1>1. \A v \in Worker : job'[v] = IF v = w THEN Pushing(notice, next) ELSE job[v]
  BY DEF Adds, IInv, JobsOK
<1>2. \A v \in Worker \ {w} : Coming(v)' = Coming(v)
  BY <1>1 DEF Adds, Coming
<1>3. Coming(w)' = IF DOMAIN notice.objects = {} THEN Coming(w) ELSE Append(Coming(w), notice)
  BY <1>1, PushingShape DEF Adds, Coming
<1>4. Coming(w) \in Seq(GoodNotices) /\ notice \in GoodNotices
  BY JobCases DEF Adds
<1>5. /\ AboutIn(Coming(w), a)' <=> AboutIn(Coming(w), a) \/ IsAbout(notice, a)
      /\ IsAbout(notice, a) => Given(Coming(w), a)' = {Effect(notice, a)}
      /\ ~ IsAbout(notice, a) => Given(Coming(w), a)' = Given(Coming(w), a)
      /\ \A b, on : Carries(Coming(w), a, b, on)' <=>
              \/ Carries(Coming(w), a, b, on)
              \/ IsAbout(notice, a) /\ Matches(notice.objects[a], b, on)
  <2>1. CASE DOMAIN notice.objects = {}
    <3>1. ~ IsAbout(notice, a) /\ Coming(w)' = Coming(w)
      BY <1>3, <2>1 DEF IsAbout
    <3>. QED
      BY <3>1 DEF AboutIn, Given, LastIn, IsAbout, Effect, Carries, Matches
  <2>2. CASE DOMAIN notice.objects # {}
    <3>1. Coming(w)' = Append(Coming(w), notice)
      BY <1>3, <2>2
    <3>2. /\ AboutIn(Coming(w), a)' <=> AboutIn(Append(Coming(w), notice), a)
          /\ Given(Coming(w), a)' = Given(Append(Coming(w), notice), a)
          /\ \A b, on : Carries(Coming(w), a, b, on)' <=> Carries(Append(Coming(w), notice), a, b, on)
      BY <3>1 DEF AboutIn, Given, LastIn, IsAbout, Effect, Carries, Matches
    <3>. QED
      BY <1>4, <3>2, AppendNotice
  <2>. QED
    BY <2>1, <2>2
<1>6. \A v \in Worker \ {w} :
        /\ AboutIn(Coming(v), a)' <=> AboutIn(Coming(v), a)
        /\ Given(Coming(v), a)' = Given(Coming(v), a)
        /\ \A b, on : Carries(Coming(v), a, b, on)' <=> Carries(Coming(v), a, b, on)
  BY <1>2 DEF AboutIn, Given, LastIn, IsAbout, Effect, Carries, Matches
<1>7. known' = known
  BY DEF Adds
<1>8. ASSUME ~ IsAbout(notice, a) PROVE Futures(a)' = Futures(a)
  <2>1. \A v \in Worker : /\ AboutIn(Coming(v), a)' <=> AboutIn(Coming(v), a)
                          /\ Given(Coming(v), a)' = Given(Coming(v), a)
    BY <1>5, <1>6, <1>8
  <2>2. UNION {Given(Coming(v), a) : v \in Worker}' = UNION {Given(Coming(v), a) : v \in Worker}
    BY <2>1
  <2>. QED
    BY <1>7, <2>1, <2>2 DEF Futures
<1>9. ASSUME IsAbout(notice, a), NEW x \in Futures(a)'
      PROVE  x = Effect(notice, a) \/ \E v \in Worker \ {w} : AboutIn(Coming(v), a)
  <2>1. AboutIn(Coming(w), a)'
    BY <1>5, <1>9
  <2>2. PICK v \in Worker : x \in Given(Coming(v), a)'
    BY <1>9, <2>1 DEF Futures
  <2>3. CASE v = w
    BY <1>5, <1>9, <2>2, <2>3
  <2>4. CASE v # w
    <3>1. x \in Given(Coming(v), a)
      BY <1>6, <2>2, <2>4
    <3>. QED
      BY <2>4, <3>1 DEF Given, AboutIn, LastIn
  <2>. QED
    BY <2>3, <2>4
<1>10. ASSUME assocs' = assocs, NEW b, NEW on, Mentions(a, b, on)'
       PROVE  Mentions(a, b, on)
  <2>1. CASE IsAbout(notice, a) /\ Matches(notice.objects[a], b, on)
    BY <2>1 DEF Adds, OfRows, IsAbout, Matches, Mentions, Rows
  <2>2. CASE ~ (IsAbout(notice, a) /\ Matches(notice.objects[a], b, on))
    BY <1>5, <1>6, <1>7, <1>10, <2>2 DEF Mentions, Matches
  <2>. QED
    BY <2>1, <2>2
<1>. QED
  BY <1>8, <1>9, <1>10

\* After a notice was delivered.
LEMMA DeliverFutures ==
  ASSUME IInv, NEW w \in Worker, Deliver(w), NEW a \in Assoc
  PROVE  /\ Futures(a)' \subseteq Futures(a)
         /\ \A b, on : Mentions(a, b, on)' => Mentions(a, b, on)
<1>1. \A v \in Worker : wire'[v] = IF v = w THEN Tail(wire[w]) ELSE wire[v]
  BY DEF Deliver, IInv, AgentsOK
<1>2. wire[w] \in Seq(GoodNotices) /\ wire[w] # <<>> /\ Coming(w) \in Seq(GoodNotices)
  BY JobCases DEF Deliver
<1>3. Coming(w) # <<>> /\ Head(Coming(w)) = Head(wire[w]) /\ Coming(w)' = Tail(Coming(w))
  <2>1. CASE Pushes(job[w])
    <3>1. job[w].notice \in GoodNotices
      BY <2>1, JobCases
    <3>2. \A q \in Seq(GoodNotices), e \in GoodNotices :
            q # <<>> => /\ Append(q, e) # <<>> /\ Head(Append(q, e)) = Head(q)
                        /\ Tail(Append(q, e)) = Append(Tail(q), e)
      OBVIOUS
    <3>3. job' = job /\ wire'[w] = Tail(wire[w])
      BY <1>1 DEF Deliver
    <3>4. Coming(w) = Append(wire[w], job[w].notice)
      BY <2>1 DEF Coming
    <3>5. Coming(w)' = Append(Tail(wire[w]), job[w].notice)
      BY <2>1, <3>3 DEF Coming, Pushes
    <3>. QED
      BY <1>2, <3>1, <3>2, <3>4, <3>5
  <2>2. CASE ~ Pushes(job[w])
    BY <1>1, <1>2, <2>2 DEF Coming, Deliver
  <2>. QED
    BY <2>1, <2>2
<1>4. \A v \in Worker \ {w} : Coming(v)' = Coming(v)
  BY <1>1 DEF Coming, Deliver
<1>. DEFINE notice == Head(Coming(w))
<1>5. known'[a] = IF IsAbout(notice, a) THEN Effect(notice, a) ELSE known[a]
  BY <1>3 DEF Deliver, Learn, IsAbout, Effect
<1>6. /\ AboutIn(Coming(w), a) <=> IsAbout(notice, a) \/ AboutIn(Coming(w), a)'
      /\ Given(Coming(w), a) = IF IsAbout(notice, a) /\ ~ AboutIn(Coming(w), a)'
                               THEN {Effect(notice, a)} ELSE Given(Coming(w), a)'
      /\ \A b, on : Carries(Coming(w), a, b, on) <=>
           \/ Carries(Coming(w), a, b, on)'
           \/ IsAbout(notice, a) /\ Matches(notice.objects[a], b, on)
  <2>1. /\ AboutIn(Coming(w), a)' <=> AboutIn(Tail(Coming(w)), a)
        /\ Given(Coming(w), a)' = Given(Tail(Coming(w)), a)
        /\ \A b, on : Carries(Coming(w), a, b, on)' <=> Carries(Tail(Coming(w)), a, b, on)
    BY <1>3 DEF AboutIn, Given, LastIn, IsAbout, Effect, Carries, Matches
  <2>. QED
    BY <1>2, <1>3, <2>1, TakeNotice
<1>7. \A v \in Worker \ {w} :
        /\ AboutIn(Coming(v), a)' <=> AboutIn(Coming(v), a)
        /\ Given(Coming(v), a)' = Given(Coming(v), a)
        /\ \A b, on : Carries(Coming(v), a, b, on)' <=> Carries(Coming(v), a, b, on)
  BY <1>4 DEF AboutIn, Given, LastIn, IsAbout, Effect, Carries, Matches
<1>. HIDE DEF notice
<1>8. \A v \in Worker : \A x : x \in Given(Coming(v), a)' => AboutIn(Coming(v), a)'
  BY DEF Given, LastIn, AboutIn
<1>9. ASSUME NEW x \in Futures(a)' PROVE x \in Futures(a)
  <2>1. CASE x = known'[a] /\ \A v \in Worker : ~ AboutIn(Coming(v), a)'
    BY <1>5, <1>6, <1>7, <2>1 DEF Futures
  <2>2. CASE \E v \in Worker : x \in Given(Coming(v), a)'
    <3>1. PICK v \in Worker : x \in Given(Coming(v), a)'
      BY <2>2
    <3>2. x \in Given(Coming(v), a)
      BY <1>6, <1>7, <1>8, <3>1
    <3>. QED
      BY <3>2 DEF Futures
  <2>. QED
    BY <1>9, <2>1, <2>2 DEF Futures
<1>10. ASSUME NEW b, NEW on, Mentions(a, b, on)' PROVE Mentions(a, b, on)
  <2>1. CASE known'[a] # None /\ Matches(known'[a], b, on)
    <3>1. IsAbout(notice, a) /\ known'[a] # known[a] => Matches(notice.objects[a], b, on)
      BY <1>5, <2>1 DEF Effect
    <3>. QED
      BY <1>5, <1>6, <2>1, <3>1 DEF Mentions
  <2>2. CASE \E v \in Worker : Carries(Coming(v), a, b, on)'
    BY <1>6, <1>7, <2>2 DEF Mentions
  <2>3. CASE assocs'[a] # None /\ Matches(assocs'[a], b, on)
    BY <2>3 DEF Deliver, Mentions
  <2>. QED
    BY <1>10, <2>1, <2>2, <2>3 DEF Mentions, Matches
<1>. QED
  BY <1>9, <1>10

\* After a worker has given up what it was about to push.
LEMMA DropFutures ==
  ASSUME IInv, NEW w \in Worker, NEW j, ~ Pushes(j), job' = [job EXCEPT ![w] = j],
         UNCHANGED <<assocs, wire, known>>, NEW a \in Assoc
  PROVE  /\ Futures(a)' = Futures(a) \/ (Pushes(job[w]) /\ IsAbout(job[w].notice, a))
         /\ \A b, on : Mentions(a, b, on)' => Mentions(a, b, on)
<1>1. \A v \in Worker : job'[v] = IF v = w THEN j ELSE job[v]
  BY DEF IInv, JobsOK
<1>2. ~ Pushes(j)
  OBVIOUS
<1>3. \A v \in Worker \ {w} : Coming(v)' = Coming(v)
  BY <1>1 DEF Coming
<1>4. Coming(w)' = wire[w]
  <2>1. ~ Pushes(job'[w])
    BY <1>1, <1>2
  <2>. QED
    BY <2>1 DEF Coming, Pushes
<1>5. /\ AboutIn(Coming(w), a)' <=> AboutIn(wire[w], a)
      /\ Given(Coming(w), a)' = Given(wire[w], a)
      /\ \A b, on : Carries(Coming(w), a, b, on)' <=> Carries(wire[w], a, b, on)
  BY <1>4 DEF AboutIn, Given, LastIn, IsAbout, Effect, Carries, Matches
<1>6. /\ \A b, on : Carries(wire[w], a, b, on) => Carries(Coming(w), a, b, on)
      /\ \/ Pushes(job[w]) /\ IsAbout(job[w].notice, a)
         \/ /\ AboutIn(Coming(w), a) <=> AboutIn(wire[w], a)
            /\ Given(Coming(w), a) = Given(wire[w], a)
  <2>1. CASE Pushes(job[w])
    <3>1. wire[w] \in Seq(GoodNotices) /\ job[w].notice \in GoodNotices
      BY <2>1, JobCases
    <3>2. Coming(w) = Append(wire[w], job[w].notice)
      BY <2>1 DEF Coming
    <3>. QED
      BY <2>1, <3>1, <3>2, AppendNotice
  <2>2. CASE ~ Pushes(job[w])
    BY <2>2 DEF Coming
  <2>. QED
    BY <2>1, <2>2
<1>7. \A v \in Worker \ {w} :
        /\ AboutIn(Coming(v), a)' <=> AboutIn(Coming(v), a)
        /\ Given(Coming(v), a)' = Given(Coming(v), a)
        /\ \A b, on : Carries(Coming(v), a, b, on)' <=> Carries(Coming(v), a, b, on)
  BY <1>3 DEF AboutIn, Given, LastIn, IsAbout, Effect, Carries, Matches
<1>8. ASSUME ~ (Pushes(job[w]) /\ IsAbout(job[w].notice, a)) PROVE Futures(a)' = Futures(a)
  <2>1. \A v \in Worker : /\ AboutIn(Coming(v), a)' <=> AboutIn(Coming(v), a)
                          /\ Given(Coming(v), a)' = Given(Coming(v), a)
    BY <1>5, <1>6, <1>7, <1>8
  <2>2. UNION {Given(Coming(v), a) : v \in Worker}' = UNION {Given(Coming(v), a) : v \in Worker}
    BY <2>1
  <2>. QED
    BY <2>1, <2>2 DEF Futures
<1>9. \A b, on : Mentions(a, b, on)' => Mentions(a, b, on)
  BY <1>5, <1>6, <1>7 DEF Mentions, Matches
<1>. QED
  BY <1>8, <1>9

-----------------------------------------------------------------------------
(***************************************************************************)
(* What is mentioned, and who is busy with it.                             *)
(***************************************************************************)

\* A notice on its way about a carries some association.
LEMMA AboutCarries ==
  ASSUME IInv, NEW v \in Worker, NEW a \in Assoc, AboutIn(Coming(v), a)
  PROVE  \E b \in Bgpvpn, on \in Resource : Carries(Coming(v), a, b, on)
<1>1. PICK i \in DOMAIN Coming(v) : IsAbout(Coming(v)[i], a)
  BY DEF AboutIn
<1>2. Coming(v)[i] \in GoodNotices
  BY JobCases
<1>3. Coming(v)[i].objects[a] \in Objects
  BY <1>1, <1>2, NoticeShape DEF IsAbout, GoodObjects
<1>. QED
  BY <1>1, <1>3 DEF Carries, Matches, Objects

\* Whoever has a notice on its way is busy with what it carries.
LEMMA CarriesBusy ==
  ASSUME IInv, JobsOn, NEW v \in Worker, NEW a, NEW b, NEW on, Carries(Coming(v), a, b, on)
  PROVE  b \in BusyWith(v)
<1>1. PICK i \in DOMAIN Coming(v) :
        IsAbout(Coming(v)[i], a) /\ Coming(v)[i].objects[a].bgpvpn = b
  BY DEF Carries, Matches
<1>2. CASE i \in DOMAIN wire[v] /\ Coming(v)[i] = wire[v][i]
  BY <1>1, <1>2 DEF BusyWith, IsAbout
<1>3. CASE Pushes(job[v]) /\ Coming(v)[i] = job[v].notice
  <2>1. b \in job[v].on
    BY <1>1, <1>3 DEF JobsOn, JobOn, IsAbout
  <2>. QED
    BY <1>3, <2>1 DEF BusyWith, Pushes
<1>4. CASE Pushes(job[v]) /\ i \notin DOMAIN wire[v]
  <2>1. wire[v] \in Seq(GoodNotices) /\ job[v].notice \in GoodNotices
    BY <1>4, JobCases
  <2>2. Coming(v) = Append(wire[v], job[v].notice)
    BY <1>4 DEF Coming
  <2>3. \A k \in DOMAIN Append(wire[v], job[v].notice) :
          k \notin DOMAIN wire[v] => Append(wire[v], job[v].notice)[k] = job[v].notice
    BY <2>1
  <2>4. Coming(v)[i] = job[v].notice
    BY <1>4, <2>2, <2>3
  <2>. QED
    BY <1>3, <1>4, <2>4
<1>5. CASE Pushes(job[v]) /\ i \in DOMAIN wire[v]
  <2>1. wire[v] \in Seq(GoodNotices) /\ job[v].notice \in GoodNotices
    BY <1>5, JobCases
  <2>2. Coming(v) = Append(wire[v], job[v].notice)
    BY <1>5 DEF Coming
  <2>3. \A k \in DOMAIN wire[v] : Append(wire[v], job[v].notice)[k] = wire[v][k]
    BY <2>1
  <2>. QED
    BY <1>2, <1>5, <2>2, <2>3
<1>6. ~ Pushes(job[v]) => Coming(v) = wire[v]
  BY DEF Coming
<1>. QED
  BY <1>2, <1>4, <1>5, <1>6

LEMMA WorksBusy ==
  ASSUME NEW v \in Worker, NEW b, WorksOn(v, b)
  PROVE  b \in BusyWith(v)
BY DEF WorksOn, BusyWith

\* What agents will hold of a is mentioned already.
LEMMA FutureMention ==
  ASSUME IInv, NEW a \in Assoc, NEW x \in Futures(a), x # None
  PROVE  x \in Objects /\ Mentions(a, x.bgpvpn, x.on)
<1>1. CASE x = known[a]
  BY <1>1 DEF IInv, AgentsOK, GoodObjects, Mentions, Matches
<1>2. CASE \E v \in Worker : x \in Given(Coming(v), a)
  <2>1. PICK v \in Worker : x \in Given(Coming(v), a)
    BY <1>2
  <2>2. PICK i \in DOMAIN Coming(v) : IsAbout(Coming(v)[i], a) /\ x = Effect(Coming(v)[i], a)
    BY <2>1 DEF Given, LastIn
  <2>3. x = Coming(v)[i].objects[a]
    BY <2>2 DEF Effect
  <2>4. Coming(v)[i] \in GoodNotices
    BY JobCases
  <2>5. x \in Objects
    BY <2>2, <2>3, <2>4, NoticeShape DEF IsAbout, GoodObjects
  <2>6. Carries(Coming(v), a, x.bgpvpn, x.on)
    BY <2>2, <2>3 DEF Carries, Matches
  <2>. QED
    BY <2>5, <2>6 DEF Mentions
<1>. QED
  BY <1>1, <1>2 DEF Futures

\* All that is mentioned of a is of one BGPVPN and one resource.
LEMMA MentionedOnce ==
  ASSUME IInv, Identity, NEW a \in Assoc, NEW b \in Bgpvpn, NEW on \in Resource,
         Mentions(a, b, on)
  PROVE  /\ assocs[a] # None => assocs[a] \in AssocRow /\ Matches(assocs[a], b, on)
         /\ \A x \in Futures(a) : x # None => x \in Objects /\ Matches(x, b, on)
         /\ \A v \in Worker : AboutIn(Coming(v), a) => Carries(Coming(v), a, b, on)
<1>1. ASSUME NEW c \in Bgpvpn, NEW at \in Resource, Mentions(a, c, at) PROVE c = b /\ at = on
  BY <1>1 DEF Identity
<1>2. assocs[a] # None => assocs[a] \in AssocRow /\ Matches(assocs[a], b, on)
  <2>. SUFFICES ASSUME assocs[a] # None PROVE assocs[a] \in AssocRow /\ Matches(assocs[a], b, on)
    OBVIOUS
  <2>1. assocs[a] \in AssocRow
    BY DEF IInv, TablesOK
  <2>2. assocs[a].bgpvpn \in Bgpvpn /\ assocs[a].on \in Resource
    BY <2>1 DEF AssocRow
  <2>3. Mentions(a, assocs[a].bgpvpn, assocs[a].on)
    BY DEF Mentions, Matches
  <2>. QED
    BY <1>1, <2>1, <2>2, <2>3 DEF Matches
<1>3. ASSUME NEW x \in Futures(a), x # None PROVE x \in Objects /\ Matches(x, b, on)
  <2>1. x \in Objects /\ Mentions(a, x.bgpvpn, x.on)
    BY <1>3, FutureMention
  <2>2. x.bgpvpn \in Bgpvpn /\ x.on \in Resource
    BY <2>1 DEF Objects
  <2>. QED
    BY <1>1, <2>1, <2>2 DEF Matches
<1>4. ASSUME NEW v \in Worker, AboutIn(Coming(v), a) PROVE Carries(Coming(v), a, b, on)
  <2>1. PICK c \in Bgpvpn, at \in Resource : Carries(Coming(v), a, c, at)
    BY <1>4, AboutCarries
  <2>2. Mentions(a, c, at)
    BY <2>1 DEF Mentions
  <2>. QED
    BY <1>1, <2>1, <2>2
<1>. QED
  BY <1>2, <1>3, <1>4

-----------------------------------------------------------------------------
(***************************************************************************)
(* Steps that leave an association alone, and workers that are alone.      *)
(***************************************************************************)

\* The step changes nothing that matters for an association a of b and on.
SameFor(a, b, on) ==
  /\ assocs'[a] = None <=> assocs[a] = None
  /\ assocs[a] # None => /\ assocs'[a].bgpvpn = assocs[a].bgpvpn
                         /\ assocs'[a].on = assocs[a].on
                         /\ on \in Port => assocs'[a].flag = assocs[a].flag
  /\ vpns'[b] = None <=> vpns[b] = None
  /\ vpns'[b].rt = vpns[b].rt
  /\ plugged' = plugged

\* All there is of a is of b and on.
IsOf(a, x, b, on) ==
  /\ assocs[a] # None => Matches(assocs[a], b, on)
  /\ x # None => Matches(x, b, on)

LEMMA SameFits ==
  ASSUME NEW a \in Assoc, NEW b, NEW on, NEW x, SameFor(a, b, on), IsOf(a, x, b, on)
  PROVE  Fits(a, x)' <=> Fits(a, x)
<1>1. CASE assocs[a] # None
  <2>1. /\ assocs'[a] # None
        /\ assocs[a].bgpvpn = b /\ assocs[a].on = on
        /\ assocs'[a].bgpvpn = b /\ assocs'[a].on = on
        /\ on \in Port => assocs'[a].flag = assocs[a].flag
        /\ vpns'[b].rt = vpns[b].rt
        /\ plugged' = plugged
    BY <1>1 DEF SameFor, IsOf, Matches
  <2>2. on \notin Port => Object(a)' = Object(a)
    BY <2>1 DEF Object, NetsOf
  <2>3. on \notin Port => (Agrees(a, x)' <=> Agrees(a, x))
    BY <1>1, <2>1, <2>2 DEF Agrees, AsStored
  <2>4. on \in Port => (AgreesOnPort(a, x)' <=> AgreesOnPort(a, x))
    BY <1>1, <2>1 DEF AgreesOnPort
  <2>. QED
    BY <1>1, <2>1, <2>3, <2>4 DEF Fits, Subject
<1>2. CASE assocs[a] = None
  <2>1. assocs'[a] = None /\ (vpns'[b] = None <=> vpns[b] = None)
    BY <1>2 DEF SameFor
  <2>2. x # None => x.bgpvpn = b
    BY DEF IsOf, Matches
  <2>. QED
    BY <1>2, <2>1, <2>2 DEF Fits, Subject, Agrees, AgreesOnPort
<1>. QED
  BY <1>1, <1>2

LEMMA SameAbout ==
  ASSUME NEW a \in Assoc, NEW b, NEW on, NEW j, SameFor(a, b, on)
  PROVE  (a \in AboutStep(j))' <=> a \in AboutStep(j)
<1>1. a \in Rows' <=> a \in Rows
  BY DEF SameFor, Rows
<1>2. /\ \A c : a \in PushedWith(c)' <=> a \in PushedWith(c)
      /\ \A n : a \in OnNetwork(n)' <=> a \in OnNetwork(n)
      /\ \A r, n : a \in OfInterface(r, n)' <=> a \in OfInterface(r, n)
  BY <1>1 DEF SameFor, PushedWith, AssociationsOf, OnNetwork, OfInterface, Rows
<1>. QED
  BY <1>1, <1>2 DEF AboutStep

LEMMA SameAwaits ==
  ASSUME NEW a \in Assoc, NEW b, NEW on, NEW x, NEW j, SameFor(a, b, on), IsOf(a, x, b, on)
  PROVE  Awaits(j, a, x)' <=> Awaits(j, a, x)
<1>1. ASSUME a \in AboutStep(j), j.step = "unplug"
      PROVE  Withdrawn(a, x, j.interface[2])' <=> Withdrawn(a, x, j.interface[2])
  <2>1. a \in OfInterface(j.interface[1], j.interface[2])
    BY <1>1 DEF AboutStep
  <2>2. /\ assocs[a] # None /\ assocs'[a] # None /\ plugged' = plugged
        /\ assocs[a].bgpvpn = b /\ assocs[a].on = on /\ vpns'[b].rt = vpns[b].rt
        /\ assocs'[a].bgpvpn = b /\ assocs'[a].on = on
        /\ on \in Port => assocs'[a].flag = assocs[a].flag
    BY <2>1 DEF OfInterface, Rows, SameFor, IsOf, Matches
  <2>3. Object(a)' = Object(a)
    BY <2>2 DEF Object, NetsOf
  <2>. QED
    BY <2>3 DEF Withdrawn
<1>. QED
  BY <1>1, SameFits, SameAbout DEF Awaits

\* The state after the step, from those of the jobs after it.
LEMMA SettledNext ==
  ASSUME NEW a, NEW b, NEW x,
         \A v \in Worker : \A j : WorksOn(v, b)' /\ j = Rest(job[v])' => Awaits(j, a, x)',
         (\A v \in Worker : ~ WorksOn(v, b)') => Fits(a, x)'
  PROVE  Settled(a, b, x)'
<1>1. ASSUME NEW v \in Worker, WorksOn(v, b)' PROVE Awaits(Rest(job[v]), a, x)'
  <2>1. PICK j : j = Rest(job[v])'
    OBVIOUS
  <2>2. Awaits(j, a, x)'
    BY <1>1, <2>1
  <2>. QED
    BY <2>1, <2>2 DEF Awaits, AboutStep
<1>. QED
  BY <1>1 DEF Settled

\* A step elsewhere: those who work on b go on, and nothing of a changes.
LEMMA Elsewhere ==
  ASSUME IInv, Agreement, NEW a \in Assoc, NEW b \in Bgpvpn \ raced, NEW on \in Resource \ gone,
         Mentions(a, b, on), NEW x \in Futures(a), SameFor(a, b, on),
         \A v \in Worker : /\ WorksOn(v, b)' <=> WorksOn(v, b)
                           /\ WorksOn(v, b) => Rest(job[v])' = Rest(job[v])
  PROVE  Settled(a, b, x)'
<1>1. IsOf(a, x, b, on) /\ Settled(a, b, x)
  BY MentionedOnce DEF Agreement, Settling, IsOf
<1>2. ASSUME NEW v \in Worker, NEW j, WorksOn(v, b)', j = Rest(job[v])'
      PROVE  Awaits(j, a, x)'
  <2>1. j = Rest(job[v]) /\ Awaits(Rest(job[v]), a, x)
    BY <1>1, <1>2 DEF Settled
  <2>2. Awaits(j, a, x)
    BY <2>1
  <2>. QED
    BY <1>1, <2>2, SameAwaits
<1>3. (\A v \in Worker : ~ WorksOn(v, b)') => Fits(a, x)'
  BY <1>1, SameFits DEF Settled
<1>. QED
  BY <1>2, <1>3, SettledNext

\* One step of w, which does not work on b.
LEMMA NotHere ==
  ASSUME IInv, Agreement, NEW a \in Assoc, NEW b \in Bgpvpn \ raced, NEW on \in Resource \ gone,
         Mentions(a, b, on), NEW x \in Futures(a), SameFor(a, b, on),
         NEW w \in Worker, \A v \in Worker \ {w} : job'[v] = job[v],
         ~ WorksOn(w, b), ~ WorksOn(w, b)'
  PROVE  Settled(a, b, x)'
<1>1. ASSUME NEW v \in Worker
      PROVE  /\ WorksOn(v, b)' <=> WorksOn(v, b)
             /\ WorksOn(v, b) => Rest(job[v])' = Rest(job[v])
  <2>1. CASE v = w
    BY <2>1
  <2>2. CASE v # w
    BY <2>2 DEF WorksOn, Rest, Pushes
  <2>. QED
    BY <2>1, <2>2
<1>. QED
  BY <1>1, Elsewhere

\* Who works on a BGPVPN that did not race is alone, and nobody else has a notice
\* of its associations on the way.
LEMMA Alone ==
  ASSUME IInv, Agreement, NEW a \in Assoc, NEW b \in Bgpvpn \ raced, NEW on \in Resource \ gone,
         Mentions(a, b, on), NEW w \in Worker, WorksOn(w, b)
  PROVE  /\ \A v \in Worker \ {w} : ~ WorksOn(v, b) /\ ~ AboutIn(Coming(v), a)
         /\ \A x \in Futures(a) : IsOf(a, x, b, on) /\ Awaits(Rest(job[w]), a, x)
<1>1. \A v \in Worker \ {w} : b \notin BusyWith(v)
  BY WorksBusy DEF Agreement, OneWorker
<1>2. \A v \in Worker \ {w} : ~ WorksOn(v, b)
  BY <1>1, WorksBusy
<1>3. ASSUME NEW v \in Worker \ {w}, AboutIn(Coming(v), a) PROVE FALSE
  <2>1. Carries(Coming(v), a, b, on)
    BY <1>3, MentionedOnce DEF Agreement
  <2>2. b \in BusyWith(v)
    BY <2>1, CarriesBusy DEF Agreement
  <2>. QED
    BY <1>1, <2>2
<1>4. ASSUME NEW x \in Futures(a) PROVE IsOf(a, x, b, on) /\ Awaits(Rest(job[w]), a, x)
  <2>1. IsOf(a, x, b, on)
    BY MentionedOnce DEF Agreement, IsOf
  <2>2. Settled(a, b, x)
    BY DEF Agreement, Settling
  <2>. QED
    BY <2>1, <2>2 DEF Settled
<1>. QED
  BY <1>2, <1>3, <1>4

\* A request is taken on b, and does not race: nobody is at work.
LEMMA Taken ==
  ASSUME IInv, Agreement, NEW a \in Assoc, NEW b \in Bgpvpn \ raced, NEW on \in Resource \ gone,
         Mentions(a, b, on), NEW w \in Worker, NEW bs, Serve(w, bs), b \in bs, b \notin raced'
  PROVE  /\ \A v \in Worker : ~ WorksOn(v, b)
         /\ \A v \in Worker \ {w} : ~ AboutIn(Coming(v), a)
         /\ \A x \in Futures(a) : IsOf(a, x, b, on) /\ Fits(a, x)
<1>1. \A v \in Worker \ {w} : b \notin BusyWith(v)
  BY DEF Serve
<1>2. \A v \in Worker : ~ WorksOn(v, b)
  BY <1>1, WorksBusy DEF Serve, WorksOn
<1>3. ASSUME NEW v \in Worker \ {w}, AboutIn(Coming(v), a) PROVE FALSE
  <2>1. Carries(Coming(v), a, b, on)
    BY <1>3, MentionedOnce DEF Agreement
  <2>2. b \in BusyWith(v)
    BY <2>1, CarriesBusy DEF Agreement
  <2>. QED
    BY <1>1, <2>2
<1>4. ASSUME NEW x \in Futures(a) PROVE IsOf(a, x, b, on) /\ Fits(a, x)
  <2>1. IsOf(a, x, b, on)
    BY MentionedOnce DEF Agreement, IsOf
  <2>2. Settled(a, b, x)
    BY DEF Agreement, Settling
  <2>. QED
    BY <1>2, <2>1, <2>2 DEF Settled
<1>. QED
  BY <1>2, <1>3, <1>4

\* It is settled when the only worker on b after the step, w, has it settled.
LEMMA Sole ==
  ASSUME NEW a, NEW b, NEW x, NEW w \in Worker,
         \A v \in Worker \ {w} : ~ WorksOn(v, b) /\ job'[v] = job[v],
         \A j : WorksOn(w, b)' /\ j = Rest(job[w])' => Awaits(j, a, x)',
         ~ WorksOn(w, b)' => Fits(a, x)'
  PROVE  Settled(a, b, x)'
<1>1. \A v \in Worker \ {w} : ~ WorksOn(v, b)'
  BY DEF WorksOn
<1>. QED
  BY <1>1, SettledNext

-----------------------------------------------------------------------------
(***************************************************************************)
(* Settling, one lemma per action.                                         *)
(***************************************************************************)

LEMMA Alike ==
  ASSUME IInv, Agreement, NEW a \in Assoc, NEW b \in Bgpvpn \ raced, NEW on \in Resource \ gone,
         Mentions(a, b, on), NEW x \in Futures(a), SameFor(a, b, on), job' = job
  PROVE  Settled(a, b, x)'
<1>1. \A v \in Worker : /\ WorksOn(v, b)' <=> WorksOn(v, b)
                        /\ Rest(job[v])' = Rest(job[v])
  BY DEF WorksOn, Rest, Pushes
<1>. QED
  BY <1>1, Elsewhere

LEMMA JobAfter ==
  ASSUME IInv, NEW w \in Worker, NEW j, job' = [job EXCEPT ![w] = j]
  PROVE  job'[w] = j /\ \A v \in Worker \ {w} : job'[v] = job[v]
BY DEF IInv, JobsOK

\* Nothing that is mentioned changes its table rows.
LEMMA SameRows ==
  ASSUME UNCHANGED <<assocs, vpns, plugged>>, NEW a, NEW b, NEW on
  PROVE  SameFor(a, b, on)
BY DEF SameFor

LEMMA StutterSettling ==
  ASSUME IInv, Agreement, UNCHANGED vars
  PROVE  Settling'
<1>. SUFFICES ASSUME NEW a \in Assoc, NEW b \in Bgpvpn \ raced', NEW on \in Resource \ gone',
                     Mentions(a, b, on)', NEW x \in Futures(a)'
              PROVE  Settled(a, b, x)'
  BY DEF Settling
<1>1. Quiet
  BY DEF vars, Quiet, Coming, Pushes
<1>2. UNCHANGED <<assocs, vpns, plugged>> /\ job' = job /\ raced' = raced /\ gone' = gone
  BY DEF vars, neutronVars
<1>3. Mentions(a, b, on) /\ x \in Futures(a)
  BY <1>1, <1>2, QuietFutures DEF Mentions
<1>. QED
  BY <1>2, <1>3, SameRows, Alike

LEMMA CreateBgpvpnSettling ==
  ASSUME IInv, Agreement, NEW w \in Worker, NEW c \in Bgpvpn, NEW name \in Name, NEW rt \in RT,
         NEW rd \in Rd, CreateBgpvpn(w, c, name, rt, rd)
  PROVE  Settling'
<1>. SUFFICES ASSUME NEW a \in Assoc, NEW b \in Bgpvpn \ raced', NEW on \in Resource \ gone',
                     Mentions(a, b, on)', NEW x \in Futures(a)'
              PROVE  Settled(a, b, x)'
  BY DEF Settling
<1>1. /\ job' = job /\ wire' = wire /\ known' = known /\ assocs' = assocs /\ plugged' = plugged
      /\ raced \subseteq raced' /\ gone' = gone /\ c \in unused
      /\ vpns' = [vpns EXCEPT ![c] = [name |-> name, rt |-> rt, rd |-> rd]]
  BY DEF CreateBgpvpn, Serve, neutronVars
<1>2. Quiet
  BY <1>1 DEF Quiet, Coming, Pushes
<1>3. Mentions(a, b, on) /\ x \in Futures(a)
  BY <1>1, <1>2, QuietFutures DEF Mentions
<1>4. b # c
  BY <1>1, <1>3 DEF Agreement, Identity
<1>5. SameFor(a, b, on)
  BY <1>1, <1>4 DEF SameFor, IInv, TablesOK
<1>. QED
  BY <1>1, <1>3, <1>5, Alike

LEMMA UpdateRouterAssocSettling ==
  ASSUME IInv, Agreement, NEW w \in Worker, NEW e \in Assoc, NEW flag \in Flag,
         UpdateRouterAssoc(w, e, flag)
  PROVE  Settling'
<1>. SUFFICES ASSUME NEW a \in Assoc, NEW b \in Bgpvpn \ raced', NEW on \in Resource \ gone',
                     Mentions(a, b, on)', NEW x \in Futures(a)'
              PROVE  Settled(a, b, x)'
  BY DEF Settling
<1>1. /\ job' = job /\ wire' = wire /\ known' = known /\ vpns' = vpns /\ plugged' = plugged
      /\ raced \subseteq raced' /\ gone' = gone
      /\ e \in Rows /\ assocs[e].on \in Router
      /\ assocs' = [assocs EXCEPT ![e].flag = flag]
  BY DEF UpdateRouterAssoc, Serve, neutronVars
<1>2. assocs[e] \in AssocRow /\ assocs \in [Assoc -> AssocRow \cup {None}]
  BY <1>1 DEF IInv, TablesOK, Rows
<1>3. /\ assocs'[e] \in AssocRow /\ assocs'[e].bgpvpn = assocs[e].bgpvpn
      /\ assocs'[e].on = assocs[e].on
      /\ \A d \in Assoc \ {e} : assocs'[d] = assocs[d]
  BY <1>1, <1>2 DEF AssocRow
<1>4. Quiet
  BY <1>1 DEF Quiet, Coming, Pushes
<1>5. Mentions(a, b, on) /\ x \in Futures(a)
  <2>1. assocs'[a] # None /\ Matches(assocs'[a], b, on) =>
          assocs[a] # None /\ Matches(assocs[a], b, on)
    BY <1>1, <1>3 DEF Matches, Rows
  <2>. QED
    BY <1>4, <2>1, QuietFutures DEF Mentions
<1>6. a = e => on \notin Port
  BY <1>1, <1>5, MentionedOnce, KindAssumption DEF Agreement, Rows, Matches
<1>7. SameFor(a, b, on)
  <2>1. CASE a = e
    BY <1>1, <1>3, <1>6, <2>1, NoneAssumption DEF SameFor, Rows
  <2>2. CASE a # e
    BY <1>1, <1>3, <2>2 DEF SameFor
  <2>. QED
    BY <2>1, <2>2
<1>. QED
  BY <1>1, <1>5, <1>7, Alike

LEMMA DeleteResourceSettling ==
  ASSUME IInv, Agreement, NEW r \in Resource, DeleteResource(r)
  PROVE  Settling'
<1>. SUFFICES ASSUME NEW a \in Assoc, NEW b \in Bgpvpn \ raced', NEW on \in Resource \ gone',
                     Mentions(a, b, on)', NEW x \in Futures(a)'
              PROVE  Settled(a, b, x)'
  BY DEF Settling
<1>1. /\ job' = job /\ wire' = wire /\ known' = known /\ vpns' = vpns /\ plugged' = plugged
      /\ raced' = raced /\ gone' = gone \cup {r}
      /\ assocs' = [e \in Assoc |-> IF e \in Rows /\ assocs[e].on = r THEN None ELSE assocs[e]]
  BY DEF DeleteResource
<1>2. Quiet
  BY <1>1 DEF Quiet, Coming, Pushes
<1>3. Mentions(a, b, on) /\ x \in Futures(a)
  BY <1>1, <1>2, QuietFutures DEF Mentions
<1>4. assocs[a] # None => assocs[a].on # r
  BY <1>1, <1>3, MentionedOnce DEF Agreement, Matches
<1>5. SameFor(a, b, on)
  BY <1>1, <1>4 DEF SameFor
<1>. QED
  BY <1>1, <1>3, <1>5, Alike

LEMMA DeliverSettling ==
  ASSUME IInv, Agreement, NEW w \in Worker, Deliver(w)
  PROVE  Settling'
<1>. SUFFICES ASSUME NEW a \in Assoc, NEW b \in Bgpvpn \ raced', NEW on \in Resource \ gone',
                     Mentions(a, b, on)', NEW x \in Futures(a)'
              PROVE  Settled(a, b, x)'
  BY DEF Settling
<1>1. /\ UNCHANGED <<assocs, vpns, plugged>> /\ job' = job
      /\ raced' = raced /\ gone' = gone
  BY DEF Deliver, neutronVars
<1>2. Mentions(a, b, on) /\ x \in Futures(a)
  BY DeliverFutures
<1>. QED
  BY <1>1, <1>2, SameRows, Alike

\* A request that is rolled back or whose worker dies.
LEMMA GiveUpSettling ==
  ASSUME IInv, Agreement, NEW w \in Worker, Rollback(w) \/ Crash(w)
  PROVE  Settling'
<1>. SUFFICES ASSUME NEW a \in Assoc, NEW b \in Bgpvpn \ raced', NEW on \in Resource \ gone',
                     Mentions(a, b, on)', NEW x \in Futures(a)'
              PROVE  Settled(a, b, x)'
  BY DEF Settling
<1>1. /\ UNCHANGED <<assocs, vpns, plugged, wire, known>> /\ gone' = gone
      /\ raced' = raced \cup job[w].on /\ job' = [job EXCEPT ![w] = Idle]
      /\ job[w] # Idle
  BY DEF Rollback, Crash, neutronVars
<1>. ~ Pushes(Idle)
  BY DEF Pushes
<1>2. Mentions(a, b, on)
  BY <1>1, DropFutures
<1>3. ASSUME Pushes(job[w]), IsAbout(job[w].notice, a) PROVE FALSE
  <2>1. job[w].notice.objects[a].bgpvpn \in job[w].on
    BY <1>3 DEF Agreement, JobsOn, JobOn, IsAbout
  <2>2. job[w].notice \in GoodNotices /\ Coming(w) = Append(wire[w], job[w].notice)
        /\ wire[w] \in Seq(GoodNotices)
    BY <1>3, JobCases DEF Coming
  <2>3. AboutIn(Coming(w), a)
    BY <1>3, <2>2, AppendNotice
  <2>4. job[w].notice.objects[a] \in Objects
    BY <1>3, <2>2, NoticeShape DEF IsAbout, GoodObjects
  <2>. DEFINE o == job[w].notice.objects[a]
  <2>5. Carries(Coming(w), a, o.bgpvpn, o.on)
    BY <1>3, <2>2, AppendNotice DEF Matches
  <2>6. Mentions(a, o.bgpvpn, o.on)
    BY <2>5 DEF Mentions
  <2>7. o.bgpvpn = b
    BY <1>2, <2>4, <2>6 DEF Agreement, Identity, Objects
  <2>. QED
    BY <1>1, <2>1, <2>7
<1>4. x \in Futures(a)
  BY <1>1, <1>3, DropFutures
<1>5. ~ WorksOn(w, b) /\ ~ WorksOn(w, b)'
  BY <1>1, JobAfter DEF WorksOn
<1>. QED
  BY <1>1, <1>2, <1>4, <1>5, JobAfter, SameRows, NotHere

\* What is left of a request whose notice was dropped: the interface goes.  All
\* BGPVPNs count as struck.
LEMMA SwallowTo ==
  ASSUME IInv, JobsOn, NEW w \in Worker, Swallow(w)
  PROVE  /\ Pushes(job[w]) /\ ~ Pushes(job[w].next)
         /\ Rest(job[w]) = job[w].next /\ job' = [job EXCEPT ![w] = job[w].next]
         /\ UNCHANGED <<assocs, vpns, unused, wire, known>>
         /\ Bgpvpn \subseteq raced'
<1>1. Pushes(job[w]) /\ job[w].next # Idle /\ job[w].next.step = "unplug"
  BY DEF Swallow, Pushes
<1>2. ~ Pushes(job[w].next) /\ Rest(job[w]) = job[w].next
  BY <1>1 DEF Pushes, Rest
<1>3. job[w].on = Bgpvpn
  BY <1>1, <1>2 DEF JobsOn, JobOn, OnItsBgpvpns
<1>. QED
  BY <1>1, <1>2, <1>3 DEF Swallow

\* What w works on next, in a step that is not about notices.
LEMMA GoesOnTo ==
  ASSUME IInv, NEW w \in Worker, NEW j, GoesOn(w, j)
  PROVE  /\ \A v \in Worker \ {w} : job'[v] = job[v]
         /\ Rest(job[w]) = job[w] /\ Rest(job[w])' = j
         /\ \A b : WorksOn(w, b)' <=> j # Idle /\ b \in j.on
         /\ \A a \in Assoc : Futures(a)' = Futures(a)
         /\ assocs' = assocs => \A a \in Assoc : \A b, on : Mentions(a, b, on)' => Mentions(a, b, on)
<1>1. job'[w] = j /\ \A v \in Worker \ {w} : job'[v] = job[v]
  BY JobAfter DEF GoesOn
<1>2. Rest(job[w]) = job[w] /\ Rest(job[w])' = j
  BY <1>1 DEF GoesOn, Rest, Pushes
<1>3. \A a \in Assoc : Futures(a)' = Futures(a)
  BY GoesOnQuiet, QuietFutures
<1>4. assocs' = assocs => \A a \in Assoc : \A b, on : Mentions(a, b, on)' => Mentions(a, b, on)
  BY GoesOnQuiet, QuietFutures DEF Mentions
<1>. QED
  BY <1>1, <1>2, <1>3, <1>4 DEF WorksOn

\* Worker w takes a request on bs and has j left to do.
LEMMA Begins ==
  ASSUME IInv, Agreement, NEW a \in Assoc, NEW b \in Bgpvpn \ raced, NEW on \in Resource \ gone,
         Mentions(a, b, on), NEW x \in Futures(a),
         NEW w \in Worker, NEW bs, NEW j, Serve(w, bs), GoesOn(w, j), j # Idle, j.on = bs,
         b \notin raced', b \notin bs => SameFor(a, b, on),
         b \in bs /\ IsOf(a, x, b, on) /\ Fits(a, x) => Awaits(j, a, x)'
  PROVE  Settled(a, b, x)'
<1>1. WorksOn(w, b)' <=> b \in bs
  BY GoesOnTo
<1>2. CASE b \in bs
  <2>1. /\ \A v \in Worker : ~ WorksOn(v, b)
        /\ IsOf(a, x, b, on) /\ Fits(a, x)
    BY <1>2, Taken
  <2>2. Awaits(j, a, x)'
    BY <1>2, <2>1
  <2>3. \A i : i = Rest(job[w])' => Awaits(i, a, x)'
    BY <2>2, GoesOnTo
  <2>. QED
    BY <1>1, <1>2, <2>1, <2>3, GoesOnTo, Sole
<1>3. CASE b \notin bs
  <2>1. ~ WorksOn(w, b)
    BY DEF Serve, WorksOn
  <2>. QED
    BY <1>1, <1>3, <2>1, GoesOnTo, NotHere
<1>. QED
  BY <1>2, <1>3

\* Worker w goes on with its request and has j left to do.
LEMMA Continues ==
  ASSUME IInv, Agreement, NEW a \in Assoc, NEW b \in Bgpvpn \ raced, NEW on \in Resource \ gone,
         Mentions(a, b, on), NEW x \in Futures(a),
         NEW w \in Worker, NEW j, job[w] # Idle, GoesOn(w, j),
         j # Idle => j.on \subseteq job[w].on,
         b \notin job[w].on => SameFor(a, b, on),
         b \in job[w].on /\ IsOf(a, x, b, on) /\ Awaits(job[w], a, x) =>
           IF j # Idle /\ b \in j.on THEN Awaits(j, a, x)' ELSE Fits(a, x)'
  PROVE  Settled(a, b, x)'
<1>1. WorksOn(w, b)' <=> j # Idle /\ b \in j.on
  BY GoesOnTo
<1>2. CASE b \in job[w].on
  <2>1. WorksOn(w, b)
    BY <1>2 DEF WorksOn
  <2>2. \A v \in Worker \ {w} : ~ WorksOn(v, b)
    BY <2>1, Alone
  <2>3. IsOf(a, x, b, on) /\ Awaits(Rest(job[w]), a, x)
    BY <2>1, Alone
  <2>4. Awaits(job[w], a, x)
    BY <2>3, GoesOnTo
  <2>5. IF j # Idle /\ b \in j.on THEN Awaits(j, a, x)' ELSE Fits(a, x)'
    BY <1>2, <2>3, <2>4
  <2>6. \A i : WorksOn(w, b)' /\ i = Rest(job[w])' => Awaits(i, a, x)'
    BY <1>1, <2>5, GoesOnTo
  <2>7. ~ WorksOn(w, b)' => Fits(a, x)'
    BY <1>1, <2>5
  <2>. QED
    BY <2>2, <2>6, <2>7, GoesOnTo, Sole
<1>3. CASE b \notin job[w].on
  <2>1. ~ WorksOn(w, b) /\ ~ WorksOn(w, b)'
    BY <1>1, <1>3 DEF WorksOn
  <2>. QED
    BY <1>3, <2>1, GoesOnTo, NotHere
<1>. QED
  BY <1>2, <1>3

\* A job that tells agents of a may do so later.
LEMMA TellsLater ==
  ASSUME NEW a, NEW x, NEW j, j # Idle,
         j.step \in {"update", "tell_bgpvpn", "tell_assoc", "tell_network"},
         (a \in AboutStep(j))' \/ Fits(a, x)'
  PROVE  Awaits(j, a, x)'
BY DEF Awaits

\* The jobs that are not about notices are jobs.
LEMMA SimpleIsJob ==
  /\ \A b \in Bgpvpn : [step |-> "tell_bgpvpn", on |-> {b}, bgpvpn |-> b] \in Job
  /\ \A b \in Bgpvpn, a \in Assoc, event \in {"created", "updated"} :
       [step |-> "tell_assoc", on |-> {b}, assoc |-> a, event |-> event] \in Job
  /\ \A n \in Network : [step |-> "tell_network", on |-> Bgpvpn, network |-> n] \in Job
  /\ \A b \in Bgpvpn, body \in Body, old \in Row, spanned \in SUBSET Resource :
       [step |-> "update", on |-> {b}, bgpvpn |-> b, body |-> body, old |-> old,
        spanned |-> spanned] \in Job
<1>1. ASSUME NEW b \in Bgpvpn PROVE [step |-> "tell_bgpvpn", on |-> {b}, bgpvpn |-> b] \in Job
  BY DEF Job
<1>2. ASSUME NEW b \in Bgpvpn, NEW a \in Assoc, NEW event \in {"created", "updated"}
      PROVE  [step |-> "tell_assoc", on |-> {b}, assoc |-> a, event |-> event] \in Job
  BY DEF Job
<1>3. ASSUME NEW n \in Network
      PROVE  [step |-> "tell_network", on |-> Bgpvpn, network |-> n] \in Job
  BY DEF Job
<1>4. ASSUME NEW b \in Bgpvpn, NEW body \in Body, NEW old \in Row, NEW spanned \in SUBSET Resource
      PROVE  [step |-> "update", on |-> {b}, bgpvpn |-> b, body |-> body, old |-> old,
              spanned |-> spanned] \in Job
  BY DEF Job
<1>. QED
  BY <1>1, <1>2, <1>3, <1>4

LEMMA BeginUpdateSettling ==
  ASSUME IInv, Agreement, NEW w \in Worker, NEW c \in Bgpvpn, NEW body \in Body,
         BeginUpdate(w, c, body)
  PROVE  Settling'
<1>. SUFFICES ASSUME NEW a \in Assoc, NEW b \in Bgpvpn \ raced', NEW on \in Resource \ gone',
                     Mentions(a, b, on)', NEW x \in Futures(a)'
              PROVE  Settled(a, b, x)'
  BY DEF Settling
<1>1. PICK j : j = [step |-> "update", on |-> {c}, bgpvpn |-> c, body |-> body,
                    old |-> vpns[c], spanned |-> {assocs[e].on : e \in AssociationsOf(c)}]
  OBVIOUS
<1>2. /\ UNCHANGED <<assocs, vpns, plugged, wire, known>> /\ gone' = gone
      /\ Serve(w, {c}) /\ job[w] = Idle /\ raced \subseteq raced'
      /\ job' = [job EXCEPT ![w] = j]
  BY <1>1 DEF BeginUpdate, Serve, neutronVars
<1>3. j # Idle /\ j.step = "update" /\ j.on = {c}
  <2>1. vpns[c] \in Row
    BY DEF BeginUpdate, IInv, TablesOK
  <2>2. {assocs[e].on : e \in AssociationsOf(c)} \subseteq Resource
    BY DEF AssociationsOf, Rows, IInv, TablesOK, AssocRow
  <2>3. j \in Job
    BY <1>1, <2>1, <2>2, SimpleIsJob
  <2>. QED
    BY <1>1, <2>3, IdleAssumption
<1>4. GoesOn(w, j)
  BY <1>2, <1>3 DEF GoesOn, Pushes
<1>5. Mentions(a, b, on) /\ x \in Futures(a) /\ SameFor(a, b, on)
  BY <1>2, <1>4, GoesOnTo, SameRows
<1>6. ASSUME Fits(a, x), IsOf(a, x, b, on) PROVE Awaits(j, a, x)'
  BY <1>3, <1>5, <1>6, SameFits, TellsLater
<1>. QED
  BY <1>2, <1>3, <1>4, <1>5, <1>6, Begins

LEMMA RefuseUpdateSettling ==
  ASSUME IInv, Agreement, NEW w \in Worker, RefuseUpdate(w)
  PROVE  Settling'
<1>. SUFFICES ASSUME NEW a \in Assoc, NEW b \in Bgpvpn \ raced', NEW on \in Resource \ gone',
                     Mentions(a, b, on)', NEW x \in Futures(a)'
              PROVE  Settled(a, b, x)'
  BY DEF Settling
<1>1. /\ UNCHANGED <<assocs, vpns, plugged, wire, known>> /\ gone' = gone /\ raced' = raced
      /\ job[w] # Idle /\ job[w].step = "update" /\ job' = [job EXCEPT ![w] = Idle]
  BY DEF RefuseUpdate, neutronVars
<1>2. GoesOn(w, Idle)
  BY <1>1 DEF GoesOn, Pushes
<1>3. Mentions(a, b, on) /\ x \in Futures(a) /\ SameFor(a, b, on)
  BY <1>1, <1>2, GoesOnTo, SameRows
<1>4. ASSUME IsOf(a, x, b, on), Awaits(job[w], a, x) PROVE Fits(a, x)'
  <2>1. Fits(a, x)
    BY <1>1, <1>4 DEF Awaits, AboutStep
  <2>. QED
    BY <1>3, <1>4, <2>1, SameFits
<1>. QED
  BY <1>1, <1>2, <1>3, <1>4, Continues

\* Differences that are not worth pushing leave the route targets alone.
LEMMA SameTargets ==
  ASSUME NEW new \in Row, NEW old \in Row, NEW spanned, NEW before,
         ~ WorthPushing(Differences(new, old, spanned, before))
  PROVE  new.rt = old.rt
<1>1. "rt" \in DOMAIN new
  BY DEF Row
<1>2. "rt" \notin Differences(new, old, spanned, before)
  BY DEF WorthPushing
<1>. QED
  BY <1>1, <1>2 DEF Differences

LEMMA CommitUpdateSettling ==
  ASSUME IInv, Agreement, NEW w \in Worker, CommitUpdate(w)
  PROVE  Settling'
<1>. SUFFICES ASSUME NEW a \in Assoc, NEW b \in Bgpvpn \ raced', NEW on \in Resource \ gone',
                     Mentions(a, b, on)', NEW x \in Futures(a)'
              PROVE  Settled(a, b, x)'
  BY DEF Settling
<1>. DEFINE merged == Merged(vpns[job[w].bgpvpn], job[w].body)
            moved == Differences(merged, job[w].old,
                       {assocs[e].on : e \in AssociationsOf(job[w].bgpvpn)}, job[w].spanned)
<1>1. PICK c, new, old, worth :
        /\ c = job[w].bgpvpn /\ new = merged /\ old = job[w].old /\ worth = WorthPushing(moved)
  OBVIOUS
<1>2. PICK j : j = IF worth THEN [step |-> "tell_bgpvpn", on |-> {c}, bgpvpn |-> c] ELSE Idle
  OBVIOUS
<1>3. /\ UNCHANGED <<assocs, plugged, wire, known>> /\ gone' = gone /\ raced' = raced
      /\ job[w] # Idle /\ job[w].step = "update" /\ job' = [job EXCEPT ![w] = j]
      /\ vpns[c] # None /\ vpns' = [vpns EXCEPT ![c] = new]
  BY <1>1, <1>2 DEF CommitUpdate, neutronVars
<1>4. job[w] \in Job /\ c \in Bgpvpn /\ old \in Row /\ vpns[c] \in Row
  BY <1>1, <1>3, JobCases, JobShape DEF IInv, TablesOK
<1>5. c \in job[w].on
  BY <1>1, <1>3 DEF Agreement, JobsOn, JobOn, OnItsBgpvpns, Rest, Pushes
<1>6. new \in Row /\ new # None
  <2>1. job[w].body \in Body
    BY <1>3, <1>4, JobShape
  <2>. QED
    BY <1>1, <1>4, <2>1, NoneAssumption DEF Merged, Body, Row, Rd
<1>7. worth => j # Idle /\ j.step = "tell_bgpvpn" /\ j.on = {c} /\ j.bgpvpn = c
  BY <1>2, <1>4, SimpleIsJob, IdleAssumption
<1>8. ~ worth => j = Idle
  BY <1>2
<1>9. vpns'[c] = new /\ \A d \in Bgpvpn \ {c} : vpns'[d] = vpns[d]
  BY <1>3, <1>4 DEF IInv, TablesOK
<1>10. GoesOn(w, j)
  BY <1>3, <1>7, <1>8 DEF GoesOn, Pushes
<1>11. Mentions(a, b, on) /\ x \in Futures(a)
  BY <1>3, <1>10, GoesOnTo
<1>12. b # c => SameFor(a, b, on)
  BY <1>3, <1>9 DEF SameFor
<1>13. ~ worth => SameFor(a, b, on)
  <2>. SUFFICES ASSUME ~ worth, b = c PROVE SameFor(a, b, on)
    BY <1>12
  <2>1. vpns[c] = old
    BY <1>1, <1>3 DEF Agreement, OldIsCurrent
  <2>2. new.rt = old.rt
    BY <1>1, <1>4, <1>6, SameTargets
  <2>. QED
    BY <1>3, <1>6, <1>9, <2>1, <2>2 DEF SameFor
<1>14. ASSUME IsOf(a, x, b, on), Awaits(job[w], a, x)
       PROVE  IF j # Idle /\ b \in j.on THEN Awaits(j, a, x)' ELSE Fits(a, x)'
  <2>1. Fits(a, x)
    BY <1>3, <1>14 DEF Awaits, AboutStep
  <2>2. SameFor(a, b, on) => Fits(a, x)'
    BY <1>14, <2>1, SameFits
  <2>3. CASE worth /\ b = c
    <3>1. (a \in AboutStep(j))' <=> a \in Rows' /\ assocs'[a].bgpvpn = c /\ assocs'[a].on \notin Port
      BY <1>7, <2>3 DEF AboutStep, PushedWith, AssociationsOf
    <3>2. ASSUME (a \notin AboutStep(j))' PROVE Fits(a, x)'
      <4>1. CASE assocs[a] = None
        <5>1. x = None
          BY <1>3, <1>14, <2>1, <2>3, <4>1 DEF Fits, Subject, Agrees, AgreesOnPort, IsOf, Matches
        <5>. QED
          BY <1>3, <4>1, <5>1 DEF Fits, Subject
      <4>2. CASE assocs[a] # None
        <5>1. assocs[a].on \in Port
          BY <1>3, <1>14, <2>3, <3>1, <3>2, <4>2 DEF Rows, IsOf, Matches
        <5>. QED
          BY <1>3, <2>1, <4>2, <5>1 DEF Fits, Subject, AgreesOnPort
      <4>. QED
        BY <4>1, <4>2
    <3>. QED
      BY <1>7, <2>3, <3>2, TellsLater
  <2>4. CASE ~ worth \/ b # c
    BY <1>7, <1>8, <1>12, <1>13, <2>2, <2>4
  <2>. QED
    BY <2>3, <2>4
<1>15. j # Idle => j.on \subseteq job[w].on
  BY <1>5, <1>7, <1>8
<1>16. b \notin job[w].on => SameFor(a, b, on)
  BY <1>5, <1>12
<1>. QED
  BY <1>3, <1>10, <1>11, <1>14, <1>15, <1>16, Continues

LEMMA CreateAssocSettling ==
  ASSUME IInv, Agreement, NEW w \in Worker, NEW e \in Assoc, NEW c \in Bgpvpn,
         NEW at \in Resource, CreateAssoc(w, e, c, at, "on")
  PROVE  Settling'
<1>. SUFFICES ASSUME NEW a \in Assoc, NEW b \in Bgpvpn \ raced', NEW on \in Resource \ gone',
                     Mentions(a, b, on)', NEW x \in Futures(a)'
              PROVE  Settled(a, b, x)'
  BY DEF Settling
<1>1. PICK j : j = [step |-> "tell_assoc", on |-> {c}, assoc |-> e, event |-> "created"]
  OBVIOUS
<1>2. /\ UNCHANGED <<vpns, plugged, wire, known>> /\ gone' = gone /\ raced \subseteq raced'
      /\ Serve(w, {c}) /\ job[w] = Idle /\ job' = [job EXCEPT ![w] = j]
      /\ e \in unused
      /\ assocs' = [assocs EXCEPT ![e] = [bgpvpn |-> c, on |-> at, flag |-> "on"]]
  BY <1>1 DEF CreateAssoc, Serve, neutronVars
<1>3. j # Idle /\ j.step = "tell_assoc" /\ j.on = {c} /\ j.assoc = e
  BY <1>1, SimpleIsJob, IdleAssumption
<1>4. GoesOn(w, j)
  BY <1>2, <1>3 DEF GoesOn, Pushes
<1>5. /\ assocs'[e] = [bgpvpn |-> c, on |-> at, flag |-> "on"] /\ assocs'[e] # None
      /\ \A d \in Assoc \ {e} : assocs'[d] = assocs[d]
  BY <1>2, NoneAssumption DEF IInv, TablesOK, AssocRow, Flag
<1>6. CASE a = e
  <2>1. \A d \in Bgpvpn, h \in Resource : ~ Mentions(a, d, h)
    BY <1>2, <1>6 DEF Agreement, Identity
  <2>2. b = c
    BY <1>4, <1>5, <1>6, <2>1, GoesOnQuiet, QuietFutures DEF Matches
  <2>3. e \in AboutStep(j)'
    BY <1>3, <1>5 DEF AboutStep, Rows
  <2>4. Awaits(j, a, x)'
    BY <1>3, <1>6, <2>3, TellsLater DEF AboutStep
  <2>5. \A v \in Worker \ {w} : ~ WorksOn(v, b)
    <3>1. \A v \in Worker \ {w} : b \notin BusyWith(v)
      BY <1>2, <2>2 DEF Serve
    <3>. QED
      BY <3>1, WorksBusy
  <2>6. WorksOn(w, b)' /\ \A i : i = Rest(job[w])' => Awaits(i, a, x)'
    BY <1>3, <1>4, <2>2, <2>4, GoesOnTo
  <2>. QED
    BY <1>4, <2>5, <2>6, GoesOnTo, Sole
<1>7. CASE a # e
  <2>1. Mentions(a, b, on) /\ x \in Futures(a) /\ SameFor(a, b, on)
    <3>1. assocs'[a] = assocs[a]
      BY <1>5, <1>7
    <3>. QED
      BY <1>2, <1>4, <3>1, GoesOnQuiet, QuietFutures DEF Mentions, SameFor
  <2>2. ASSUME Fits(a, x), IsOf(a, x, b, on) PROVE Awaits(j, a, x)'
    BY <1>3, <2>1, <2>2, SameFits, TellsLater
  <2>. QED
    BY <1>2, <1>3, <1>4, <2>1, <2>2, Begins
<1>. QED
  BY <1>6, <1>7

LEMMA UpdatePortAssocSettling ==
  ASSUME IInv, Agreement, NEW w \in Worker, NEW e \in Assoc, NEW flag \in Flag,
         UpdatePortAssoc(w, e, flag)
  PROVE  Settling'
<1>. SUFFICES ASSUME NEW a \in Assoc, NEW b \in Bgpvpn \ raced', NEW on \in Resource \ gone',
                     Mentions(a, b, on)', NEW x \in Futures(a)'
              PROVE  Settled(a, b, x)'
  BY DEF Settling
<1>1. PICK c, j : /\ c = assocs[e].bgpvpn
                  /\ j = [step |-> "tell_assoc", on |-> {c}, assoc |-> e, event |-> "updated"]
  OBVIOUS
<1>2. /\ UNCHANGED <<vpns, plugged, wire, known>> /\ gone' = gone /\ raced \subseteq raced'
      /\ Serve(w, {c}) /\ job[w] = Idle /\ job' = [job EXCEPT ![w] = j]
      /\ e \in Rows /\ assocs' = [assocs EXCEPT ![e].flag = flag]
  BY <1>1 DEF UpdatePortAssoc, Serve, neutronVars
<1>3. assocs[e] \in AssocRow /\ assocs \in [Assoc -> AssocRow \cup {None}] /\ c \in Bgpvpn
  BY <1>1, <1>2 DEF IInv, TablesOK, Rows, AssocRow
<1>4. j # Idle /\ j.step = "tell_assoc" /\ j.on = {c} /\ j.assoc = e
  BY <1>1, <1>3, SimpleIsJob, IdleAssumption
<1>5. GoesOn(w, j)
  BY <1>2, <1>4 DEF GoesOn, Pushes
<1>6. /\ assocs'[e] \in AssocRow /\ assocs'[e].bgpvpn = assocs[e].bgpvpn
      /\ assocs'[e].on = assocs[e].on
      /\ \A d \in Assoc \ {e} : assocs'[d] = assocs[d]
  BY <1>2, <1>3 DEF AssocRow
<1>7. Mentions(a, b, on) /\ x \in Futures(a)
  <2>1. assocs'[a] # None /\ Matches(assocs'[a], b, on) =>
          assocs[a] # None /\ Matches(assocs[a], b, on)
    BY <1>2, <1>6 DEF Matches, Rows
  <2>. QED
    BY <1>5, <2>1, GoesOnQuiet, QuietFutures DEF Mentions
<1>8. a # e => SameFor(a, b, on)
  BY <1>2, <1>6 DEF SameFor
<1>9. b \notin {c} => SameFor(a, b, on)
  <2>1. a = e => b = c
    BY <1>1, <1>2, <1>7, MentionedOnce DEF Agreement, Rows, Matches
  <2>. QED
    BY <1>8, <2>1
<1>10. ASSUME IsOf(a, x, b, on), Fits(a, x) PROVE Awaits(j, a, x)'
  <2>1. CASE a = e
    <3>1. (a \in AboutStep(j))'
      BY <1>4, <1>6, <2>1, NoneAssumption DEF AboutStep, Rows
    <3>. QED
      BY <1>4, <3>1, TellsLater
  <2>2. CASE a # e
    <3>1. Fits(a, x)'
      BY <1>8, <1>10, <2>2, SameFits
    <3>. QED
      BY <1>4, <3>1, TellsLater
  <2>. QED
    BY <2>1, <2>2
<1>. QED
  BY <1>2, <1>4, <1>5, <1>7, <1>9, <1>10, Begins

LEMMA AddInterfaceSettling ==
  ASSUME IInv, Agreement, NEW w \in Worker, NEW r \in Router, NEW n \in Network,
         AddInterface(w, r, n)
  PROVE  Settling'
<1>. SUFFICES ASSUME NEW a \in Assoc, NEW b \in Bgpvpn \ raced', NEW on \in Resource \ gone',
                     Mentions(a, b, on)', NEW x \in Futures(a)'
              PROVE  Settled(a, b, x)'
  BY DEF Settling
<1>1. PICK j : j = [step |-> "tell_network", on |-> Bgpvpn, network |-> n]
  OBVIOUS
<1>2. /\ UNCHANGED <<vpns, assocs, wire, known>> /\ gone' = gone /\ raced \subseteq raced'
      /\ Serve(w, Bgpvpn) /\ job[w] = Idle /\ job' = [job EXCEPT ![w] = j]
      /\ plugged' = plugged \cup {<<r, n>>}
  BY <1>1 DEF AddInterface, Serve, neutronVars
<1>3. j # Idle /\ j.step = "tell_network" /\ j.on = Bgpvpn
  BY <1>1, SimpleIsJob, IdleAssumption
<1>4. GoesOn(w, j)
  BY <1>2, <1>3 DEF GoesOn, Pushes
<1>5. Mentions(a, b, on) /\ x \in Futures(a)
  BY <1>2, <1>4, GoesOnTo
<1>6. ASSUME Fits(a, x), (a \notin AboutStep(j))' PROVE Fits(a, x)'
  <2>1. assocs' = assocs /\ vpns' = vpns
    BY <1>2
  <2>2. AgreesOnPort(a, x) => AgreesOnPort(a, x)'
    BY <2>1 DEF AgreesOnPort
  <2>3. ASSUME assocs[a] # None, assocs[a].on \notin Port PROVE Object(a)' = Object(a)
    <3>1. assocs[a].on \in Network \cup Router
      BY <2>3 DEF IInv, TablesOK, AssocRow, Resource
    <3>2. a \notin OnNetwork(n)' /\ <<r, n>> \in plugged'
      BY <1>1, <1>2, <1>3, <1>6 DEF AboutStep
    <3>3. assocs[a].on # n /\ assocs[a].on # r
      BY <2>1, <2>3, <3>2 DEF OnNetwork, Rows
    <3>4. \A s, m : m # n \/ s # r => (<<s, m>> \in plugged' <=> <<s, m>> \in plugged)
      BY <1>2
    <3>5. CASE assocs[a].on \in Network
      <4>1. NetsOf(assocs[a].on)' = {assocs[a].on} /\ NetsOf(assocs[a].on) = {assocs[a].on}
        BY <2>1, <3>5 DEF NetsOf
      <4>2. \A s : <<s, assocs[a].on>> \in plugged' <=> <<s, assocs[a].on>> \in plugged
        BY <3>3, <3>4
      <4>. QED
        BY <2>1, <4>1, <4>2 DEF Object
    <3>6. CASE assocs[a].on \in Router
      <4>1. assocs[a].on \notin Network
        BY <3>6, KindAssumption
      <4>2. NetsOf(assocs[a].on)' = {m \in Network : <<assocs[a].on, m>> \in plugged'}
            /\ NetsOf(assocs[a].on) = {m \in Network : <<assocs[a].on, m>> \in plugged}
        BY <2>1, <3>6, <4>1 DEF NetsOf
      <4>3. NetsOf(assocs[a].on)' = NetsOf(assocs[a].on)
        BY <3>3, <3>4, <4>2
      <4>4. \A m \in NetsOf(assocs[a].on) :
              (\E s \in Router : <<s, m>> \in plugged') /\ (\E s \in Router : <<s, m>> \in plugged)
        BY <3>6, <4>2, <4>3
      <4>. QED
        BY <2>1, <4>3, <4>4 DEF Object
    <3>. QED
      BY <3>1, <3>5, <3>6
  <2>4. assocs[a] # None /\ assocs[a].on \notin Port /\ Agrees(a, x) => Agrees(a, x)'
    BY <2>1, <2>3 DEF Agrees, AsStored
  <2>5. assocs[a] = None /\ Agrees(a, x) => Agrees(a, x)'
    BY <2>1 DEF Agrees
  <2>. QED
    BY <1>6, <2>1, <2>2, <2>4, <2>5 DEF Fits, Subject
<1>. QED
  BY <1>2, <1>3, <1>4, <1>5, <1>6, Begins, TellsLater

LEMMA CommitDeleteBgpvpnSettling ==
  ASSUME IInv, Agreement, NEW w \in Worker, CommitDeleteBgpvpn(w)
  PROVE  Settling'
<1>. SUFFICES ASSUME NEW a \in Assoc, NEW b \in Bgpvpn \ raced', NEW on \in Resource \ gone',
                     Mentions(a, b, on)', NEW x \in Futures(a)'
              PROVE  Settled(a, b, x)'
  BY DEF Settling
<1>1. PICK c : c = job[w].bgpvpn
  OBVIOUS
<1>2. /\ UNCHANGED <<plugged, wire, known>> /\ gone' = gone /\ raced' = raced
      /\ job[w] # Idle /\ job[w].step = "delete_bgpvpn" /\ job' = [job EXCEPT ![w] = Idle]
      /\ vpns' = [vpns EXCEPT ![c] = None]
      /\ assocs' = [e \in Assoc |-> IF e \in AssociationsOf(c) THEN None ELSE assocs[e]]
  BY <1>1 DEF CommitDeleteBgpvpn, neutronVars
<1>3. c \in Bgpvpn /\ c \in job[w].on
  <2>1. job[w] \in Job
    BY <1>2, JobCases
  <2>. QED
    BY <1>1, <1>2, <2>1, JobShape DEF Agreement, JobsOn, JobOn, OnItsBgpvpns, Rest, Pushes
<1>4. GoesOn(w, Idle)
  BY <1>2 DEF GoesOn, Pushes
<1>5. Mentions(a, b, on) /\ x \in Futures(a)
  BY <1>2, <1>4, GoesOnQuiet, QuietFutures DEF Mentions
<1>6. vpns'[c] = None /\ \A d \in Bgpvpn \ {c} : vpns'[d] = vpns[d]
  BY <1>2, <1>3 DEF IInv, TablesOK
<1>7. b # c => SameFor(a, b, on) /\ a \notin AssociationsOf(c)
  <2>1. b # c => a \notin AssociationsOf(c)
    BY <1>5, MentionedOnce DEF Agreement, AssociationsOf, Rows, Matches
  <2>. QED
    BY <1>2, <1>6, <2>1 DEF SameFor
<1>8. ASSUME IsOf(a, x, b, on), Awaits(job[w], a, x) PROVE Fits(a, x)'
  <2>1. a \in AboutStep(job[w]) <=> a \in PushedWith(c)
    BY <1>1, <1>2 DEF AboutStep
  <2>2. CASE b # c
    <3>1. Fits(a, x)
      BY <1>7, <1>8, <2>1, <2>2 DEF Awaits, PushedWith
    <3>. QED
      BY <1>7, <1>8, <2>2, <3>1, SameFits
  <2>3. CASE b = c /\ a \in PushedWith(c)
    <3>1. x = None /\ assocs'[a] = None
      BY <1>2, <1>8, <2>1, <2>3 DEF Awaits, PushedWith
    <3>. QED
      BY <3>1 DEF Fits, Subject
  <2>4. CASE b = c /\ a \notin PushedWith(c)
    <3>1. Fits(a, x)
      BY <1>8, <2>1, <2>4 DEF Awaits
    <3>2. assocs'[a] = None /\ (assocs[a] # None => on \in Port)
      BY <1>2, <1>8, <2>4 DEF PushedWith, AssociationsOf, Rows, IsOf, Matches
    <3>3. x # None => on \in Port
      BY <1>8, <3>1, <3>2 DEF Fits, Subject, Agrees, IsOf, Matches
    <3>4. x # None => x.on \in Port /\ vpns'[x.bgpvpn] = None
      BY <1>6, <1>8, <2>4, <3>3 DEF IsOf, Matches
    <3>. QED
      BY <3>2, <3>4 DEF Fits, Subject, AgreesOnPort
  <2>. QED
    BY <2>2, <2>3, <2>4
<1>. QED
  BY <1>2, <1>3, <1>4, <1>5, <1>7, <1>8, Continues

LEMMA CommitDeleteAssocSettling ==
  ASSUME IInv, Agreement, NEW w \in Worker, CommitDeleteAssoc(w)
  PROVE  Settling'
<1>. SUFFICES ASSUME NEW a \in Assoc, NEW b \in Bgpvpn \ raced', NEW on \in Resource \ gone',
                     Mentions(a, b, on)', NEW x \in Futures(a)'
              PROVE  Settled(a, b, x)'
  BY DEF Settling
<1>1. PICK e : e = job[w].assoc
  OBVIOUS
<1>2. /\ UNCHANGED <<vpns, plugged, wire, known>> /\ gone' = gone /\ raced' = raced
      /\ job[w] # Idle /\ job[w].step = "delete_assoc" /\ job' = [job EXCEPT ![w] = Idle]
      /\ assocs' = [assocs EXCEPT ![e] = None]
  BY <1>1 DEF CommitDeleteAssoc, neutronVars
<1>3. e \in Assoc /\ (assocs[e] # None => assocs[e].bgpvpn \in job[w].on)
  <2>1. job[w] \in Job
    BY <1>2, JobCases
  <2>. QED
    BY <1>1, <1>2, <2>1, JobShape DEF Agreement, JobsOn, JobOn, OnItsBgpvpns, Rest, Pushes
<1>4. GoesOn(w, Idle)
  BY <1>2 DEF GoesOn, Pushes
<1>5. assocs'[e] = None /\ \A d \in Assoc \ {e} : assocs'[d] = assocs[d]
  BY <1>2, <1>3 DEF IInv, TablesOK
<1>6. Mentions(a, b, on) /\ x \in Futures(a)
  BY <1>4, <1>5, GoesOnQuiet, QuietFutures DEF Mentions
<1>7. a # e \/ assocs[a] = None => SameFor(a, b, on)
  BY <1>2, <1>5 DEF SameFor
<1>8. b \notin job[w].on => SameFor(a, b, on)
  <2>1. a = e /\ assocs[a] # None => b \in job[w].on
    BY <1>3, <1>6, MentionedOnce DEF Agreement, Matches
  <2>. QED
    BY <1>7, <2>1
<1>9. ASSUME IsOf(a, x, b, on), Awaits(job[w], a, x) PROVE Fits(a, x)'
  <2>1. AboutStep(job[w]) = {e}
    BY <1>1, <1>2 DEF AboutStep
  <2>2. CASE a = e
    <3>1. x = None
      BY <1>2, <1>9, <2>1, <2>2 DEF Awaits
    <3>. QED
      BY <1>5, <2>2, <3>1 DEF Fits, Subject
  <2>3. CASE a # e
    <3>1. Fits(a, x)
      BY <1>9, <2>1, <2>3 DEF Awaits
    <3>. QED
      BY <1>7, <1>9, <2>3, <3>1, SameFits
  <2>. QED
    BY <2>2, <2>3
<1>. QED
  BY <1>2, <1>4, <1>6, <1>8, <1>9, Continues

LEMMA CommitRemoveInterfaceSettling ==
  ASSUME IInv, Agreement, NEW w \in Worker, CommitRemoveInterface(w)
  PROVE  Settling'
<1>. SUFFICES ASSUME NEW a \in Assoc, NEW b \in Bgpvpn \ raced', NEW on \in Resource \ gone',
                     Mentions(a, b, on)', NEW x \in Futures(a)'
              PROVE  Settled(a, b, x)'
  BY DEF Settling
<1>1. /\ UNCHANGED <<vpns, assocs, wire, known>> /\ gone' = gone /\ raced' = raced
      /\ job[w] # Idle /\ job[w].step = "unplug" /\ job' = [job EXCEPT ![w] = Idle]
      /\ plugged' = plugged \ {job[w].interface}
  BY DEF CommitRemoveInterface
<1>2. job[w].interface \in Router \X Network /\ job[w].on = Bgpvpn
  <2>1. job[w] \in Job
    BY <1>1, JobCases
  <2>. QED
    BY <1>1, <2>1, JobShape DEF Agreement, JobsOn, JobOn, OnItsBgpvpns, Rest, Pushes
<1>3. PICK r \in Router, n \in Network : job[w].interface = <<r, n>>
  BY <1>2
<1>4. plugged' = plugged \ {<<r, n>>} /\ plugged \subseteq Router \X Network
  BY <1>1, <1>3 DEF IInv, NeutronOK
<1>5. GoesOn(w, Idle)
  BY <1>1 DEF GoesOn, Pushes
<1>6. Mentions(a, b, on) /\ x \in Futures(a)
  BY <1>1, <1>5, GoesOnTo
<1>7. ASSUME IsOf(a, x, b, on), Awaits(job[w], a, x) PROVE Fits(a, x)'
  <2>1. AboutStep(job[w]) = OfInterface(r, n)
    BY <1>1, <1>3 DEF AboutStep
  <2>2. assocs'[a] = assocs[a] /\ vpns' = vpns
    BY <1>1
  <2>3. \A s, m : m # n \/ s # r => (<<s, m>> \in plugged' <=> <<s, m>> \in plugged)
    BY <1>4
  <2>4. plugged' \subseteq plugged
    BY <1>4
  <2>5. CASE a \in OfInterface(r, n)
    <3>1. Withdrawn(a, x, n)
      BY <1>1, <1>3, <1>7, <2>1, <2>5 DEF Awaits
    <3>2. assocs[a] # None /\ assocs[a].on \in {r, n} /\ assocs[a].on \notin Port
      BY <2>5, KindAssumption DEF OfInterface, Rows
    <3>3. /\ Object(a)'.bgpvpn = Object(a).bgpvpn /\ Object(a)'.on = Object(a).on
          /\ Object(a)'.rt = Object(a).rt /\ Object(a)'.flag = Object(a).flag
          /\ Object(a).on = assocs[a].on
      BY <2>2 DEF Object
    <3>4. CASE assocs[a].on = r
      <4>1. r \notin Network /\ \A m : <<r, m>> \in plugged => m \in Network
        BY <1>4, KindAssumption
      <4>2. /\ Object(a).nets = {m \in Network : <<r, m>> \in plugged}
            /\ Object(a).gateways = {m \in Network : <<r, m>> \in plugged}
            /\ Object(a)'.nets = {m \in Network : <<r, m>> \in plugged'}
            /\ Object(a)'.gateways = {m \in Network : <<r, m>> \in plugged'}
        BY <2>2, <3>4, <4>1 DEF Object, NetsOf
      <4>3. \A m \in Network : <<r, m>> \in plugged' <=> <<r, m>> \in plugged /\ m # n
        BY <1>4
      <4>4. Object(a)'.nets \subseteq x.nets /\ x.gateways = Object(a)'.gateways
        BY <3>1, <4>2, <4>3 DEF Withdrawn
      <4>. QED
        BY <2>2, <3>1, <3>2, <3>3, <3>4, <4>4 DEF Withdrawn, Fits, Subject, Agrees, AsStored
    <3>5. CASE assocs[a].on = n
      <4>1. n \notin Router
        BY KindAssumption
      <4>2. /\ Object(a).nets = {n} /\ Object(a)'.nets = {n}
            /\ Object(a).gateways \subseteq {n}
        BY <2>2, <3>5 DEF Object, NetsOf
      <4>3. x.gateways \subseteq Object(a)'.gateways /\ x.nets = Object(a)'.nets
        BY <3>1, <4>2 DEF Withdrawn
      <4>. QED
        BY <2>2, <3>1, <3>2, <3>3, <3>5, <4>1, <4>3 DEF Withdrawn, Fits, Subject, Agrees, AsStored
    <3>. QED
      BY <3>2, <3>4, <3>5
  <2>6. CASE a \notin OfInterface(r, n)
    <3>1. Fits(a, x)
      BY <1>7, <2>1, <2>6 DEF Awaits
    <3>2. AgreesOnPort(a, x) => AgreesOnPort(a, x)'
      BY <2>2 DEF AgreesOnPort
    <3>3. ASSUME assocs[a] # None, assocs[a].on \notin Port PROVE Object(a)' = Object(a)
      <4>1. assocs[a].on \in Network \cup Router
        BY <3>3 DEF IInv, TablesOK, AssocRow, Resource
      <4>2. assocs[a].on # r /\ assocs[a].on # n
        BY <2>6, <3>3 DEF OfInterface, Rows
      <4>3. CASE assocs[a].on \in Network
        <5>1. NetsOf(assocs[a].on)' = {assocs[a].on} /\ NetsOf(assocs[a].on) = {assocs[a].on}
          BY <2>2, <4>3 DEF NetsOf
        <5>2. \A s : <<s, assocs[a].on>> \in plugged' <=> <<s, assocs[a].on>> \in plugged
          BY <2>3, <4>2
        <5>. QED
          BY <2>2, <5>1, <5>2 DEF Object
      <4>4. CASE assocs[a].on \in Router
        <5>1. assocs[a].on \notin Network
          BY <4>4, KindAssumption
        <5>2. NetsOf(assocs[a].on)' = {m \in Network : <<assocs[a].on, m>> \in plugged'}
              /\ NetsOf(assocs[a].on) = {m \in Network : <<assocs[a].on, m>> \in plugged}
          BY <2>2, <4>4, <5>1 DEF NetsOf
        <5>3. NetsOf(assocs[a].on)' = NetsOf(assocs[a].on)
          BY <2>3, <4>2, <5>2
        <5>4. \A m \in NetsOf(assocs[a].on) :
                (\E s \in Router : <<s, m>> \in plugged') /\ (\E s \in Router : <<s, m>> \in plugged)
          BY <4>4, <5>2, <5>3
        <5>. QED
          BY <2>2, <5>3, <5>4 DEF Object
      <4>. QED
        BY <4>1, <4>3, <4>4
    <3>4. assocs[a] # None /\ assocs[a].on \notin Port /\ Agrees(a, x) => Agrees(a, x)'
      BY <2>2, <3>3 DEF Agrees, AsStored
    <3>5. assocs[a] = None /\ Agrees(a, x) => Agrees(a, x)'
      BY <2>2 DEF Agrees
    <3>. QED
      BY <2>2, <3>1, <3>2, <3>4, <3>5 DEF Fits, Subject
  <2>. QED
    BY <2>5, <2>6
<1>. QED
  BY <1>1, <1>2, <1>5, <1>6, <1>7, Continues

\* What w works on next, in a step that makes it push.
LEMMA AddsTo ==
  ASSUME IInv, NEW w \in Worker, NEW notice, NEW next, Adds(w, notice, next)
  PROVE  /\ \A v \in Worker \ {w} : job'[v] = job[v]
         /\ Rest(job[w]) = job[w] /\ Rest(job[w])' = next
         /\ \A b : WorksOn(w, b)' <=>
              \/ \E a \in DOMAIN notice.objects : notice.objects[a].bgpvpn = b
              \/ next # Idle /\ b \in next.on
<1>1. job'[w] = Pushing(notice, next) /\ \A v \in Worker \ {w} : job'[v] = job[v]
  BY JobAfter DEF Adds
<1>2. notice \in GoodNotices /\ next \in FinalStep \cup {Idle} /\ ~ Pushes(job[w])
  BY DEF Adds
<1>3. Rest(job[w]) = job[w] /\ Rest(job[w])' = next
  <2>1. Rest(job[w])' = Rest(Pushing(notice, next))
    BY <1>1 DEF Rest, Pushes
  <2>. QED
    BY <1>2, <2>1, PushingShape DEF Rest
<1>4. ASSUME NEW b
      PROVE  WorksOn(w, b)' <=>
               \/ \E a \in DOMAIN notice.objects : notice.objects[a].bgpvpn = b
               \/ next # Idle /\ b \in next.on
  <2>1. CASE DOMAIN notice.objects = {}
    <3>1. Pushing(notice, next) = next
      BY <2>1 DEF Pushing
    <3>. QED
      BY <1>1, <2>1, <3>1 DEF WorksOn
  <2>2. CASE DOMAIN notice.objects # {}
    <3>. DEFINE j == Pushing(notice, next)
    <3>1. /\ Pushes(j)
          /\ j.on = {notice.objects[a].bgpvpn : a \in DOMAIN notice.objects}
                      \cup (IF next = Idle THEN {} ELSE next.on)
      BY <1>2, <2>2, PushingShape
    <3>2. j # Idle
      BY <3>1 DEF Pushes
    <3>. HIDE DEF j
    <3>3. WorksOn(w, b)' <=> b \in j.on
      BY <1>1, <3>2 DEF WorksOn, j
    <3>. QED
      BY <3>1, <3>3
  <2>. QED
    BY <2>1, <2>2
<1>. QED
  BY <1>1, <1>3, <1>4

\* The object of a notice about a is of what a is mentioned with.
LEMMA NoticeIsOf ==
  ASSUME IInv, Identity, NEW a \in Assoc, NEW b \in Bgpvpn, NEW on \in Resource,
         Mentions(a, b, on), NEW notice, OfRows(notice), IsAbout(notice, a)
  PROVE  notice.objects[a].bgpvpn = b /\ IsOf(a, Effect(notice, a), b, on)
BY MentionedOnce DEF OfRows, IsAbout, IsOf, Effect, Matches, Rows

\* Worker w takes a request on bs, pushes a notice and has more left to do.
LEMMA BeginsTelling ==
  ASSUME IInv, Agreement, NEW a \in Assoc, NEW b \in Bgpvpn \ raced, NEW on \in Resource \ gone,
         Mentions(a, b, on), NEW x \in Futures(a)',
         NEW w \in Worker, NEW bs, NEW notice, NEW next,
         Serve(w, bs), Adds(w, notice, next), next # Idle, next.on = bs,
         b \notin raced', SameFor(a, b, on),
         \A e \in DOMAIN notice.objects : notice.objects[e].bgpvpn \in bs,
         b \in bs /\ IsOf(a, x, b, on)
           /\ (IF IsAbout(notice, a) THEN x = Effect(notice, a) ELSE Fits(a, x))
           => Awaits(next, a, x)
  PROVE  Settled(a, b, x)'
<1>1. WorksOn(w, b)' <=> b \in bs
  BY AddsTo
<1>2. CASE b \in bs
  <2>1. /\ \A v \in Worker : ~ WorksOn(v, b)
        /\ \A v \in Worker \ {w} : ~ AboutIn(Coming(v), a)
        /\ \A y \in Futures(a) : IsOf(a, y, b, on) /\ Fits(a, y)
    BY <1>2, Taken
  <2>2. CASE IsAbout(notice, a)
    <3>1. x = Effect(notice, a)
      BY <2>1, <2>2, AddsFutures
    <3>2. IsOf(a, x, b, on)
      BY <2>2, <3>1, NoticeIsOf DEF Adds, Agreement
    <3>. QED
      BY <1>1, <1>2, <2>1, <2>2, <3>1, <3>2, SameAwaits, AddsTo, Sole
  <2>3. CASE ~ IsAbout(notice, a)
    <3>1. x \in Futures(a)
      BY <2>3, AddsFutures
    <3>2. IsOf(a, x, b, on) /\ Fits(a, x)
      BY <2>1, <3>1
    <3>. QED
      BY <1>1, <1>2, <2>1, <2>3, <3>2, SameAwaits, AddsTo, Sole
  <2>. QED
    BY <2>2, <2>3
<1>3. CASE b \notin bs
  <2>1. ~ IsAbout(notice, a)
    <3>1. IsAbout(notice, a) => notice.objects[a].bgpvpn = b
      BY NoticeIsOf DEF Adds, Agreement
    <3>. QED
      BY <1>3, <3>1 DEF IsAbout
  <2>2. x \in Futures(a)
    BY <2>1, AddsFutures
  <2>3. ~ WorksOn(w, b)
    BY DEF Serve, WorksOn
  <2>. QED
    BY <1>1, <1>3, <2>2, <2>3, AddsTo, NotHere
<1>. QED
  BY <1>2, <1>3

LEMMA BeginDeleteBgpvpnSettling ==
  ASSUME IInv, Agreement, NEW w \in Worker, NEW c \in Bgpvpn, BeginDeleteBgpvpn(w, c)
  PROVE  Settling'
<1>. SUFFICES ASSUME NEW a \in Assoc, NEW b \in Bgpvpn \ raced', NEW on \in Resource \ gone',
                     Mentions(a, b, on)', NEW x \in Futures(a)'
              PROVE  Settled(a, b, x)'
  BY DEF Settling
<1>1. PICK notice, next :
        /\ notice = Notice("deleted", PushedWith(c))
        /\ next = [step |-> "delete_bgpvpn", on |-> {c}, bgpvpn |-> c]
  OBVIOUS
<1>2. /\ UNCHANGED <<assocs, vpns, plugged, wire, known>> /\ gone' = gone
      /\ Serve(w, {c}) /\ job[w] = Idle /\ raced \subseteq raced'
      /\ job' = [job EXCEPT ![w] = Pushing(notice, next)]
  BY <1>1 DEF BeginDeleteBgpvpn, Serve, neutronVars
<1>3. next \in FinalStep /\ next # Idle
  BY <1>1, FinalShape, IdleAssumption DEF FinalStep
<1>4. /\ notice \in GoodNotices /\ OfRows(notice) /\ DOMAIN notice.objects = PushedWith(c)
      /\ \A e \in PushedWith(c) : Effect(notice, e) = None
  BY <1>1, NoticeOfRows DEF PushedWith, AssociationsOf
<1>5. Adds(w, notice, next)
  BY <1>2, <1>3, <1>4 DEF Adds, Pushes
<1>6. Mentions(a, b, on) /\ SameFor(a, b, on)
  BY <1>2, <1>5, AddsFutures, SameRows
<1>7. \A e \in DOMAIN notice.objects : notice.objects[e].bgpvpn \in {c}
  BY <1>4 DEF OfRows, Matches, PushedWith, AssociationsOf
<1>8. ASSUME IF IsAbout(notice, a) THEN x = Effect(notice, a) ELSE Fits(a, x)
      PROVE  Awaits(next, a, x)
  <2>1. AboutStep(next) = PushedWith(c) /\ next.step = "delete_bgpvpn"
    BY <1>1, <1>3 DEF AboutStep
  <2>. QED
    BY <1>4, <1>8, <2>1 DEF Awaits, IsAbout
<1>9. next.on = {c}
  BY <1>1
<1>. QED
  BY <1>2, <1>3, <1>5, <1>6, <1>7, <1>8, <1>9, BeginsTelling

LEMMA BeginDeleteAssocSettling ==
  ASSUME IInv, Agreement, NEW w \in Worker, NEW e \in Assoc, BeginDeleteAssoc(w, e)
  PROVE  Settling'
<1>. SUFFICES ASSUME NEW a \in Assoc, NEW b \in Bgpvpn \ raced', NEW on \in Resource \ gone',
                     Mentions(a, b, on)', NEW x \in Futures(a)'
              PROVE  Settled(a, b, x)'
  BY DEF Settling
<1>1. PICK c, notice, next :
        /\ c = assocs[e].bgpvpn /\ notice = Notice("deleted", {e})
        /\ next = [step |-> "delete_assoc", on |-> {c}, assoc |-> e]
  OBVIOUS
<1>2. /\ UNCHANGED <<assocs, vpns, plugged, wire, known>> /\ gone' = gone
      /\ Serve(w, {c}) /\ job[w] = Idle /\ raced \subseteq raced' /\ e \in Rows
      /\ job' = [job EXCEPT ![w] = Pushing(notice, next)]
  BY <1>1 DEF BeginDeleteAssoc, Serve, neutronVars
<1>3. next \in FinalStep /\ next # Idle
  <2>1. c \in Bgpvpn
    BY <1>1, <1>2 DEF IInv, TablesOK, Rows, AssocRow
  <2>. QED
    BY <1>1, <2>1, FinalShape, IdleAssumption DEF FinalStep
<1>4. /\ notice \in GoodNotices /\ OfRows(notice) /\ DOMAIN notice.objects = {e}
      /\ Effect(notice, e) = None
  BY <1>1, <1>2, NoticeOfRows
<1>5. Adds(w, notice, next)
  BY <1>2, <1>3, <1>4 DEF Adds, Pushes
<1>6. Mentions(a, b, on) /\ SameFor(a, b, on)
  BY <1>2, <1>5, AddsFutures, SameRows
<1>7. \A d \in DOMAIN notice.objects : notice.objects[d].bgpvpn \in {c}
  BY <1>1, <1>4 DEF OfRows, Matches
<1>8. ASSUME IF IsAbout(notice, a) THEN x = Effect(notice, a) ELSE Fits(a, x)
      PROVE  Awaits(next, a, x)
  <2>1. AboutStep(next) = {e} /\ next.step = "delete_assoc"
    BY <1>1, <1>3 DEF AboutStep
  <2>. QED
    BY <1>4, <1>8, <2>1 DEF Awaits, IsAbout
<1>9. next.on = {c}
  BY <1>1
<1>. QED
  BY <1>2, <1>3, <1>5, <1>6, <1>7, <1>8, <1>9, BeginsTelling

LEMMA BeginRemoveInterfaceSettling ==
  ASSUME IInv, Agreement, NEW w \in Worker, NEW r \in Router, NEW n \in Network,
         BeginRemoveInterface(w, r, n)
  PROVE  Settling'
<1>. SUFFICES ASSUME NEW a \in Assoc, NEW b \in Bgpvpn \ raced', NEW on \in Resource \ gone',
                     Mentions(a, b, on)', NEW x \in Futures(a)'
              PROVE  Settled(a, b, x)'
  BY DEF Settling
<1>1. PICK notice, next :
        /\ notice = NoticeWithoutGateway(OfInterface(r, n), n)
        /\ next = [step |-> "unplug", on |-> Bgpvpn, interface |-> <<r, n>>]
  OBVIOUS
<1>2. /\ UNCHANGED <<assocs, vpns, plugged, wire, known>> /\ gone' = gone
      /\ Serve(w, Bgpvpn) /\ job[w] = Idle /\ raced \subseteq raced'
      /\ job' = [job EXCEPT ![w] = Pushing(notice, next)]
  BY <1>1 DEF BeginRemoveInterface, RemovedNotice, Serve, neutronVars
<1>3. next \in FinalStep /\ next # Idle
  BY <1>1, FinalShape, IdleAssumption DEF FinalStep
<1>4. /\ notice \in GoodNotices /\ OfRows(notice) /\ DOMAIN notice.objects = OfInterface(r, n)
      /\ \A e \in OfInterface(r, n) :
           Effect(notice, e) = [Object(e) EXCEPT !.gateways = @ \ {n}]
  BY <1>1, WithoutGatewayOfRows DEF OfInterface
<1>5. Adds(w, notice, next)
  BY <1>2, <1>3, <1>4 DEF Adds, Pushes
<1>6. Mentions(a, b, on) /\ SameFor(a, b, on)
  BY <1>2, <1>5, AddsFutures, SameRows
<1>7. \A d \in DOMAIN notice.objects : notice.objects[d].bgpvpn \in Bgpvpn
  BY <1>4, NoticeShape DEF GoodObjects, Objects
<1>8. ASSUME IF IsAbout(notice, a) THEN x = Effect(notice, a) ELSE Fits(a, x)
      PROVE  Awaits(next, a, x)
  <2>1. AboutStep(next) = OfInterface(r, n) /\ next.step = "unplug" /\ next.interface = <<r, n>>
    BY <1>1, <1>3 DEF AboutStep
  <2>2. CASE a \in OfInterface(r, n)
    <3>1. x = [Object(a) EXCEPT !.gateways = @ \ {n}] /\ a \in Rows
      BY <1>4, <1>8, <2>2 DEF IsAbout, OfInterface
    <3>2. /\ x.bgpvpn = Object(a).bgpvpn /\ x.on = Object(a).on /\ x.rt = Object(a).rt
          /\ x.flag = Object(a).flag /\ x.nets = Object(a).nets
          /\ x.gateways = Object(a).gateways \ {n}
      BY <3>1 DEF Object
    <3>3. x # None
      <4>1. Object(a) \in Objects
        BY <3>1, ObjectGood DEF IInv, GoodObjects
      <4>2. x \in Objects
        BY <3>1, <4>1 DEF Objects
      <4>. QED
        BY <4>2, NoneAssumption
    <3>4. Withdrawn(a, x, n)
      BY <3>2, <3>3 DEF Withdrawn
    <3>5. next.interface[2] = n
      BY <2>1
    <3>. QED
      BY <2>1, <2>2, <3>4, <3>5 DEF Awaits
  <2>3. CASE a \notin OfInterface(r, n)
    BY <1>4, <1>8, <2>1, <2>3 DEF Awaits, IsAbout
  <2>. QED
    BY <2>2, <2>3
<1>9. next.on = Bgpvpn
  BY <1>1
<1>. QED
  BY <1>2, <1>3, <1>5, <1>6, <1>7, <1>8, <1>9, BeginsTelling

\* What a worker is to tell agents: rows, as they are.
LEMMA ToldShape ==
  ASSUME IInv, JobsOn, NEW w \in Worker, job[w] # Idle,
         job[w].step \in {"tell_assoc", "tell_bgpvpn", "tell_network"}
  PROVE  LET notice == ToldOf(job[w])
         IN /\ notice \in GoodNotices /\ OfRows(notice)
            /\ DOMAIN notice.objects = AboutStep(job[w]) /\ AboutStep(job[w]) \subseteq Rows
            /\ \A e \in DOMAIN notice.objects : /\ Effect(notice, e) = Object(e)
                                                /\ notice.objects[e].bgpvpn \in job[w].on
<1>1. job[w] \in Job
  BY JobCases
<1>2. PICK S, event : /\ ToldOf(job[w]) = Notice(event, S) /\ S = AboutStep(job[w])
                      /\ S \subseteq Rows /\ event \in {"created", "updated"}
  <2>1. CASE job[w].step = "tell_bgpvpn"
    BY <2>1 DEF ToldOf, AboutStep, PushedWith, AssociationsOf
  <2>2. CASE job[w].step = "tell_network"
    BY <2>2 DEF ToldOf, AboutStep, OnNetwork
  <2>3. CASE job[w].step = "tell_assoc"
    BY <1>1, <2>3, JobShape DEF ToldOf, AboutStep
  <2>. QED
    BY <2>1, <2>2, <2>3
<1>3. ASSUME NEW e \in S PROVE assocs[e].bgpvpn \in job[w].on
  <2>1. OnItsBgpvpns(job[w]) /\ assocs[e] # None /\ assocs[e] \in AssocRow
    BY <1>2, <1>3 DEF JobsOn, JobOn, Rest, Pushes, Rows, IInv, TablesOK
  <2>2. CASE job[w].step = "tell_bgpvpn"
    BY <1>2, <1>3, <2>1, <2>2 DEF OnItsBgpvpns, AboutStep, PushedWith, AssociationsOf
  <2>3. CASE job[w].step = "tell_network"
    BY <2>1, <2>3 DEF OnItsBgpvpns, AssocRow
  <2>4. CASE job[w].step = "tell_assoc"
    BY <1>2, <1>3, <2>1, <2>4 DEF OnItsBgpvpns, AboutStep
  <2>. QED
    BY <2>2, <2>3, <2>4
<1>. QED
  BY <1>2, <1>3, NoticeOfRows DEF OfRows, Matches

\* A row fits what was read of it.
LEMMA ObjectFits ==
  ASSUME IInv, NEW a \in Rows
  PROVE  Fits(a, Object(a))
<1>1. Object(a) \in Objects /\ assocs[a] # None
  BY ObjectGood DEF IInv, GoodObjects, Rows
<1>2. Object(a) # None
  BY <1>1, NoneAssumption
<1>3. assocs[a].on \in Port => AgreesOnPort(a, Object(a))
  BY <1>1, <1>2 DEF AgreesOnPort, Object
<1>4. Agrees(a, Object(a))
  BY <1>1, <1>2 DEF Agrees, AsStored
<1>. QED
  BY <1>1, <1>3, <1>4 DEF Fits, Subject

LEMMA BuildSettling ==
  ASSUME IInv, Agreement, NEW w \in Worker, Build(w)
  PROVE  Settling'
<1>. SUFFICES ASSUME NEW a \in Assoc, NEW b \in Bgpvpn \ raced', NEW on \in Resource \ gone',
                     Mentions(a, b, on)', NEW x \in Futures(a)'
              PROVE  Settled(a, b, x)'
  BY DEF Settling
<1>1. PICK notice : notice = ToldOf(job[w])
  OBVIOUS
<1>2. /\ UNCHANGED <<assocs, vpns, plugged, wire, known>> /\ gone' = gone /\ raced' = raced
      /\ job[w] # Idle /\ job[w].step \in {"tell_assoc", "tell_bgpvpn", "tell_network"}
      /\ job' = [job EXCEPT ![w] = Pushing(notice, Idle)]
  BY <1>1 DEF Build, neutronVars
<1>3. /\ notice \in GoodNotices /\ OfRows(notice)
      /\ DOMAIN notice.objects = AboutStep(job[w]) /\ AboutStep(job[w]) \subseteq Rows
      /\ \A e \in DOMAIN notice.objects : /\ Effect(notice, e) = Object(e)
                                          /\ notice.objects[e].bgpvpn \in job[w].on
  BY <1>1, <1>2, ToldShape DEF Agreement
<1>4. Adds(w, notice, Idle)
  BY <1>2, <1>3 DEF Adds, Pushes
<1>5. Mentions(a, b, on) /\ SameFor(a, b, on)
  BY <1>2, <1>4, AddsFutures, SameRows
<1>6. WorksOn(w, b)' => b \in job[w].on
  BY <1>3, <1>4, AddsTo
<1>7. CASE b \in job[w].on
  <2>1. WorksOn(w, b)
    BY <1>2, <1>7 DEF WorksOn
  <2>2. /\ \A v \in Worker \ {w} : ~ WorksOn(v, b) /\ ~ AboutIn(Coming(v), a)
        /\ \A y \in Futures(a) : IsOf(a, y, b, on) /\ Awaits(Rest(job[w]), a, y)
    BY <1>2, <1>5, <2>1, Alone
  <2>3. IsOf(a, x, b, on) /\ Fits(a, x)
    <3>1. CASE IsAbout(notice, a)
      <4>1. x = Object(a) /\ a \in Rows /\ x = Effect(notice, a)
        BY <1>3, <1>4, <2>2, <3>1, AddsFutures DEF IsAbout
      <4>2. IsOf(a, x, b, on)
        BY <1>3, <1>5, <3>1, <4>1, NoticeIsOf DEF Agreement
      <4>. QED
        BY <4>1, <4>2, ObjectFits
    <3>2. CASE ~ IsAbout(notice, a)
      <4>1. x \in Futures(a)
        BY <1>4, <3>2, AddsFutures
      <4>2. IsOf(a, x, b, on) /\ Awaits(job[w], a, x)
        BY <1>4, <2>2, <4>1, AddsTo
      <4>. QED
        BY <1>3, <3>2, <4>2 DEF Awaits, IsAbout
    <3>. QED
      BY <3>1, <3>2
  <2>4. Fits(a, x)'
    BY <1>5, <2>3, SameFits
  <2>5. Awaits(Idle, a, x)'
    BY <2>4 DEF Awaits, AboutStep
  <2>6. \A i : i = Rest(job[w])' => Awaits(i, a, x)'
    BY <1>4, <2>5, AddsTo
  <2>. QED
    BY <1>4, <2>2, <2>4, <2>6, AddsTo, Sole
<1>8. CASE b \notin job[w].on
  <2>1. ~ IsAbout(notice, a)
    <3>1. IsAbout(notice, a) => notice.objects[a].bgpvpn = b
      BY <1>3, <1>5, NoticeIsOf DEF Agreement
    <3>. QED
      BY <1>3, <1>8, <3>1 DEF IsAbout
  <2>2. x \in Futures(a)
    BY <1>4, <2>1, AddsFutures
  <2>3. ~ WorksOn(w, b) /\ ~ WorksOn(w, b)'
    BY <1>6, <1>8 DEF WorksOn
  <2>. QED
    BY <1>2, <1>4, <1>5, <2>2, <2>3, AddsTo, NotHere
<1>. QED
  BY <1>7, <1>8

LEMMA PushSettling ==
  ASSUME IInv, Agreement, NEW w \in Worker, Push(w)
  PROVE  Settling'
<1>. SUFFICES ASSUME NEW a \in Assoc, NEW b \in Bgpvpn \ raced', NEW on \in Resource \ gone',
                     Mentions(a, b, on)', NEW x \in Futures(a)'
              PROVE  Settled(a, b, x)'
  BY DEF Settling
<1>1. PICK j : j = job[w].next
  OBVIOUS
<1>2. /\ UNCHANGED <<assocs, vpns, plugged, known>> /\ gone' = gone /\ raced' = raced
      /\ Pushes(job[w]) /\ job[w] # Idle /\ job' = [job EXCEPT ![w] = j]
  BY <1>1 DEF Push, neutronVars, Pushes
<1>3. /\ job'[w] = j /\ \A v \in Worker \ {w} : job'[v] = job[v]
      /\ ~ Pushes(j) /\ j \in FinalStep \cup {Idle}
  BY <1>1, <1>2, JobAfter, JobCases, FinalShape DEF Pushes
<1>4. Rest(job[w]) = j /\ Rest(job[w])' = j
  BY <1>1, <1>2, <1>3 DEF Rest, Pushes
<1>5. Mentions(a, b, on) /\ x \in Futures(a) /\ SameFor(a, b, on)
  BY <1>2, PushQuiet, QuietFutures, SameRows DEF Mentions
<1>6. j = Idle \/ j.on = job[w].on
  BY <1>1, <1>2 DEF Agreement, JobsOn, JobOn
<1>7. CASE b \notin job[w].on
  <2>1. ~ WorksOn(w, b) /\ ~ WorksOn(w, b)'
    BY <1>3, <1>6, <1>7 DEF WorksOn
  <2>. QED
    BY <1>2, <1>3, <1>5, <2>1, NotHere
<1>8. CASE b \in job[w].on
  <2>1. WorksOn(w, b)
    BY <1>2, <1>8 DEF WorksOn
  <2>2. /\ \A v \in Worker \ {w} : ~ WorksOn(v, b)
        /\ IsOf(a, x, b, on) /\ Awaits(Rest(job[w]), a, x)
    BY <1>2, <1>5, <2>1, Alone
  <2>3. Awaits(j, a, x)
    BY <1>4, <2>2
  <2>4. Awaits(j, a, x)'
    BY <1>5, <2>2, <2>3, SameAwaits
  <2>5. ~ WorksOn(w, b)' => j = Idle
    BY <1>3, <1>6, <1>8 DEF WorksOn
  <2>6. j = Idle => Fits(a, x)'
    BY <2>4 DEF Awaits, AboutStep
  <2>. QED
    BY <1>3, <1>4, <2>2, <2>4, <2>5, <2>6, Sole
<1>. QED
  BY <1>7, <1>8

LEMMA BeginSettling ==
  ASSUME IInv, Agreement, NEW w \in Worker, Begin(w)
  PROVE  Settling'
BY CreateBgpvpnSettling, BeginUpdateSettling, BeginDeleteBgpvpnSettling, CreateAssocSettling,
   UpdatePortAssocSettling, UpdateRouterAssocSettling, BeginDeleteAssocSettling,
   AddInterfaceSettling, BeginRemoveInterfaceSettling DEF Begin

LEMMA SettlingStep ==
  ASSUME IInv, Agreement, [Next]_vars
  PROVE  Settling'
<1>1. ASSUME NEW w \in Worker, Proceed(w) PROVE Settling'
  BY <1>1, CommitUpdateSettling, RefuseUpdateSettling, CommitDeleteBgpvpnSettling,
     CommitDeleteAssocSettling, CommitRemoveInterfaceSettling, BuildSettling, PushSettling
     DEF Proceed
<1>2. ASSUME NEW w \in Worker, Swallow(w) PROVE Settling'
  <2>1. Bgpvpn \subseteq raced'
    BY <1>2, SwallowTo DEF Agreement
  <2>. QED
    BY <2>1 DEF Settling
<1>. QED
  BY <1>1, <1>2, BeginSettling, DeliverSettling, GiveUpSettling, DeleteResourceSettling,
     StutterSettling DEF Next

-----------------------------------------------------------------------------
(***************************************************************************)
(* An association stays of its BGPVPN and its resource.                    *)
(***************************************************************************)

\* A row is as it was, or new under a UUID that was never used.
RowKept(a) ==
  assocs'[a] # None =>
    \/ assocs[a] # None /\ Matches(assocs'[a], assocs[a].bgpvpn, assocs[a].on)
    \/ a \in unused \ unused' /\ vpns[assocs'[a].bgpvpn] # None

LEMMA BeginRows ==
  ASSUME IInv, NEW w \in Worker, Begin(w)
  PROVE  /\ unused' \subseteq unused
         /\ \A b \in Bgpvpn : vpns'[b] # None => vpns[b] # None \/ b \notin unused'
         /\ \A a \in Assoc : RowKept(a)
<1>1. ASSUME NEW c \in Bgpvpn, NEW name \in Name, NEW rt \in RT, NEW rd \in Rd,
             CreateBgpvpn(w, c, name, rt, rd)
      PROVE  /\ unused' \subseteq unused
             /\ \A b \in Bgpvpn : vpns'[b] # None => vpns[b] # None \/ b \notin unused'
             /\ \A a \in Assoc : RowKept(a)
  BY <1>1 DEF CreateBgpvpn, RowKept, Matches, IInv, TablesOK
<1>2. ASSUME NEW e \in Assoc, NEW c \in Bgpvpn, NEW at \in Resource,
             CreateAssoc(w, e, c, at, "on")
      PROVE  unused' \subseteq unused /\ vpns' = vpns /\ \A a \in Assoc : RowKept(a)
  BY <1>2 DEF CreateAssoc, RowKept, Matches, IInv, TablesOK
<1>3. ASSUME NEW e \in Assoc, NEW flag \in Flag,
             UpdatePortAssoc(w, e, flag) \/ UpdateRouterAssoc(w, e, flag)
      PROVE  unused' = unused /\ vpns' = vpns /\ \A a \in Assoc : RowKept(a)
  <2>1. /\ unused' = unused /\ vpns' = vpns
        /\ e \in Rows /\ assocs' = [assocs EXCEPT ![e].flag = flag]
    BY <1>3 DEF UpdatePortAssoc, UpdateRouterAssoc
  <2>2. assocs[e] \in AssocRow /\ assocs \in [Assoc -> AssocRow \cup {None}]
    BY <2>1 DEF IInv, TablesOK, Rows
  <2>3. /\ assocs'[e].bgpvpn = assocs[e].bgpvpn /\ assocs'[e].on = assocs[e].on
        /\ \A d \in Assoc \ {e} : assocs'[d] = assocs[d]
    BY <2>1, <2>2 DEF AssocRow
  <2>. QED
    BY <2>1, <2>3 DEF RowKept, Matches, Rows
<1>4. ASSUME \/ \E c \in Bgpvpn, body \in Body : BeginUpdate(w, c, body)
             \/ \E c \in Bgpvpn : BeginDeleteBgpvpn(w, c)
             \/ \E e \in Assoc : BeginDeleteAssoc(w, e)
             \/ \E r \in Router, n \in Network :
                  AddInterface(w, r, n) \/ BeginRemoveInterface(w, r, n)
      PROVE  unused' = unused /\ vpns' = vpns /\ \A a \in Assoc : RowKept(a)
  <2>1. unused' = unused /\ vpns' = vpns /\ assocs' = assocs
    BY <1>4 DEF BeginUpdate, BeginDeleteBgpvpn, BeginDeleteAssoc, AddInterface,
                BeginRemoveInterface
  <2>. QED
    BY <2>1 DEF RowKept, Matches
<1>. QED
  BY <1>1, <1>2, <1>3, <1>4 DEF Begin

LEMMA RowsStep ==
  ASSUME IInv, [Next]_vars
  PROVE  /\ unused' \subseteq unused
         /\ \A b \in Bgpvpn : vpns'[b] # None => vpns[b] # None \/ b \notin unused'
         /\ \A a \in Assoc : RowKept(a)
<1>1. ASSUME NEW w \in Worker, Proceed(w)
      PROVE  /\ unused' = unused
             /\ \A b \in Bgpvpn : vpns'[b] # None => vpns[b] # None
             /\ \A a \in Assoc : assocs'[a] # None => assocs'[a] = assocs[a]
  <2>1. CASE CommitUpdate(w)
    <3>1. /\ unused' = unused /\ assocs' = assocs /\ vpns[job[w].bgpvpn] # None
          /\ \E new : vpns' = [vpns EXCEPT ![job[w].bgpvpn] = new]
      BY <2>1 DEF CommitUpdate
    <3>. QED
      BY <3>1 DEF IInv, TablesOK
  <2>2. CASE CommitDeleteBgpvpn(w)
    BY <2>2 DEF CommitDeleteBgpvpn, IInv, TablesOK
  <2>3. CASE CommitDeleteAssoc(w)
    BY <2>3 DEF CommitDeleteAssoc, IInv, TablesOK
  <2>4. CASE RefuseUpdate(w) \/ CommitRemoveInterface(w) \/ Build(w) \/ Push(w)
    BY <2>4 DEF RefuseUpdate, CommitRemoveInterface, Build, Push
  <2>. QED
    BY <1>1, <2>1, <2>2, <2>3, <2>4 DEF Proceed
<1>2. ASSUME NEW w \in Worker, Deliver(w) \/ Rollback(w) \/ Crash(w) \/ Swallow(w)
      PROVE  UNCHANGED <<unused, vpns, assocs>>
  BY <1>2 DEF Deliver, Rollback, Crash, Swallow
<1>3. ASSUME NEW r \in Resource, DeleteResource(r)
      PROVE  /\ unused' = unused /\ vpns' = vpns
             /\ \A a \in Assoc : assocs'[a] # None => assocs'[a] = assocs[a]
  BY <1>3 DEF DeleteResource
<1>4. ASSUME UNCHANGED vars PROVE UNCHANGED <<unused, vpns, assocs>>
  BY <1>4 DEF vars
<1>5. ASSUME NEW a \in Assoc, assocs'[a] # None => assocs'[a] = assocs[a] PROVE RowKept(a)
  BY <1>5 DEF RowKept, Matches
<1>. QED
  BY <1>1, <1>2, <1>3, <1>4, <1>5, BeginRows DEF Next

-----------------------------------------------------------------------------
(***************************************************************************)
(* What workers go on with, and on which BGPVPNs.                          *)
(***************************************************************************)

OnOf(j) == IF j = Idle THEN {} ELSE j.on

\* Worker w takes a request on the BGPVPNs of what is left to do of it.
Starts(w) ==
  \/ UNCHANGED <<job, wire, known>>
  \/ \E j : GoesOn(w, j) /\ Serve(w, OnOf(j)) /\ JobOn(j)'
  \/ /\ assocs' = assocs
     /\ \E notice, next :
          /\ Adds(w, notice, next) /\ next # Idle /\ Serve(w, next.on) /\ JobOn(next)'
          /\ \A a \in DOMAIN notice.objects : notice.objects[a].bgpvpn \in next.on

\* Worker w goes on, on the BGPVPNs of its request.
Advances(w) ==
  \/ \E j : GoesOn(w, j) /\ OnOf(j) \subseteq OnOf(job[w]) /\ JobOn(j)'
  \/ /\ assocs' = assocs
     /\ \E notice : /\ Adds(w, notice, Idle)
                    /\ \A a \in DOMAIN notice.objects :
                         notice.objects[a].bgpvpn \in OnOf(job[w])

LEMMA UsedRow ==
  ASSUME IInv, Identity, NEW e \in Rows
  PROVE  /\ e \in Assoc /\ assocs[e] \in AssocRow /\ e \notin unused
         /\ assocs[e].bgpvpn \in Bgpvpn /\ assocs[e].on \in Resource
<1>1. e \in Assoc /\ assocs[e] \in AssocRow /\ assocs[e] # None
  BY DEF Rows, IInv, TablesOK
<1>2. assocs[e].bgpvpn \in Bgpvpn /\ assocs[e].on \in Resource
  BY <1>1 DEF AssocRow
<1>3. Mentions(e, assocs[e].bgpvpn, assocs[e].on)
  BY <1>1 DEF Mentions, Matches
<1>. QED
  BY <1>1, <1>2, <1>3 DEF Identity

LEMMA BeginStarts ==
  ASSUME IInv, Identity, NEW w \in Worker, Begin(w)
  PROVE  Starts(w)
<1>1. ASSUME NEW c \in Bgpvpn, NEW body \in Body, BeginUpdate(w, c, body) PROVE Starts(w)
  <2>1. PICK j : j = [step |-> "update", on |-> {c}, bgpvpn |-> c, body |-> body,
                      old |-> vpns[c], spanned |-> {assocs[e].on : e \in AssociationsOf(c)}]
    OBVIOUS
  <2>2. j # Idle
    <3>1. vpns[c] \in Row
      BY <1>1 DEF BeginUpdate, IInv, TablesOK
    <3>2. {assocs[e].on : e \in AssociationsOf(c)} \subseteq Resource
      BY DEF AssociationsOf, Rows, IInv, TablesOK, AssocRow
    <3>. QED
      BY <2>1, <3>1, <3>2, SimpleIsJob, IdleAssumption
  <2>3. j.step = "update" /\ j.on = {c} /\ j.bgpvpn = c
    BY <2>1
  <2>4. GoesOn(w, j) /\ Serve(w, OnOf(j))
    BY <1>1, <2>1, <2>2, <2>3 DEF BeginUpdate, Serve, GoesOn, Pushes, OnOf
  <2>5. JobOn(j)'
    BY <2>3 DEF JobOn, OnItsBgpvpns, Rest, Pushes
  <2>. QED
    BY <2>4, <2>5 DEF Starts
<1>2. ASSUME NEW e \in Assoc, NEW c \in Bgpvpn, NEW at \in Resource,
             CreateAssoc(w, e, c, at, "on")
      PROVE  Starts(w)
  <2>1. PICK j : j = [step |-> "tell_assoc", on |-> {c}, assoc |-> e, event |-> "created"]
    OBVIOUS
  <2>2. j # Idle /\ j.step = "tell_assoc" /\ j.on = {c} /\ j.assoc = e
    BY <2>1, SimpleIsJob, IdleAssumption
  <2>3. GoesOn(w, j) /\ Serve(w, OnOf(j))
    BY <1>2, <2>1, <2>2 DEF CreateAssoc, Serve, GoesOn, Pushes, OnOf
  <2>4. e \notin unused' /\ assocs'[e].bgpvpn = c
    BY <1>2 DEF CreateAssoc, IInv, TablesOK
  <2>5. JobOn(j)'
    BY <2>2, <2>4 DEF JobOn, OnItsBgpvpns, Rest, Pushes
  <2>. QED
    BY <2>3, <2>5 DEF Starts
<1>3. ASSUME NEW e \in Assoc, NEW flag \in Flag, UpdatePortAssoc(w, e, flag) PROVE Starts(w)
  <2>1. PICK c, j : /\ c = assocs[e].bgpvpn
                    /\ j = [step |-> "tell_assoc", on |-> {c}, assoc |-> e, event |-> "updated"]
    OBVIOUS
  <2>2. e \in Rows /\ c \in Bgpvpn /\ e \notin unused /\ assocs[e] \in AssocRow
    BY <1>3, <2>1, UsedRow DEF UpdatePortAssoc
  <2>3. j # Idle /\ j.step = "tell_assoc" /\ j.on = {c} /\ j.assoc = e
    BY <2>1, <2>2, SimpleIsJob, IdleAssumption
  <2>4. GoesOn(w, j) /\ Serve(w, OnOf(j))
    BY <1>3, <2>1, <2>3 DEF UpdatePortAssoc, Serve, GoesOn, Pushes, OnOf
  <2>5. e \notin unused' /\ assocs'[e].bgpvpn = c
    BY <1>3, <2>1, <2>2 DEF UpdatePortAssoc, IInv, TablesOK, AssocRow
  <2>6. JobOn(j)'
    BY <2>3, <2>5 DEF JobOn, OnItsBgpvpns, Rest, Pushes
  <2>. QED
    BY <2>4, <2>6 DEF Starts
<1>4. ASSUME NEW r \in Router, NEW n \in Network, AddInterface(w, r, n) PROVE Starts(w)
  <2>1. PICK j : j = [step |-> "tell_network", on |-> Bgpvpn, network |-> n]
    OBVIOUS
  <2>2. j # Idle /\ j.step = "tell_network" /\ j.on = Bgpvpn
    BY <2>1, SimpleIsJob, IdleAssumption
  <2>3. GoesOn(w, j) /\ Serve(w, OnOf(j))
    BY <1>4, <2>1, <2>2 DEF AddInterface, Serve, GoesOn, Pushes, OnOf
  <2>4. JobOn(j)'
    BY <2>2 DEF JobOn, OnItsBgpvpns, Rest, Pushes
  <2>. QED
    BY <2>3, <2>4 DEF Starts
<1>5. ASSUME NEW c \in Bgpvpn, BeginDeleteBgpvpn(w, c) PROVE Starts(w)
  <2>1. PICK notice, next :
          /\ notice = Notice("deleted", PushedWith(c))
          /\ next = [step |-> "delete_bgpvpn", on |-> {c}, bgpvpn |-> c]
    OBVIOUS
  <2>2. /\ next \in FinalStep /\ next # Idle /\ next.step = "delete_bgpvpn"
        /\ next.on = {c} /\ next.bgpvpn = c
    BY <2>1, FinalShape, IdleAssumption DEF FinalStep
  <2>3. notice \in GoodNotices /\ OfRows(notice) /\ DOMAIN notice.objects = PushedWith(c)
    BY <2>1, NoticeOfRows DEF PushedWith, AssociationsOf
  <2>4. Adds(w, notice, next) /\ assocs' = assocs /\ Serve(w, next.on)
    BY <1>5, <2>1, <2>2, <2>3 DEF BeginDeleteBgpvpn, Serve, Adds, Pushes
  <2>5. \A a \in DOMAIN notice.objects : notice.objects[a].bgpvpn \in next.on
    BY <2>2, <2>3 DEF OfRows, Matches, PushedWith, AssociationsOf
  <2>6. JobOn(next)'
    BY <2>2 DEF JobOn, OnItsBgpvpns, Rest, Pushes
  <2>. QED
    BY <2>2, <2>4, <2>5, <2>6 DEF Starts
<1>6. ASSUME NEW e \in Assoc, BeginDeleteAssoc(w, e) PROVE Starts(w)
  <2>1. PICK c, notice, next :
          /\ c = assocs[e].bgpvpn /\ notice = Notice("deleted", {e})
          /\ next = [step |-> "delete_assoc", on |-> {c}, assoc |-> e]
    OBVIOUS
  <2>2. e \in Rows /\ c \in Bgpvpn /\ e \notin unused
    BY <1>6, <2>1, UsedRow DEF BeginDeleteAssoc
  <2>3. /\ next \in FinalStep /\ next # Idle /\ next.step = "delete_assoc"
        /\ next.on = {c} /\ next.assoc = e
    BY <2>1, <2>2, FinalShape, IdleAssumption DEF FinalStep
  <2>4. notice \in GoodNotices /\ OfRows(notice) /\ DOMAIN notice.objects = {e}
    BY <2>1, <2>2, NoticeOfRows
  <2>5. Adds(w, notice, next) /\ assocs' = assocs /\ unused' = unused /\ Serve(w, next.on)
    BY <1>6, <2>1, <2>3, <2>4 DEF BeginDeleteAssoc, Serve, Adds, Pushes
  <2>6. \A a \in DOMAIN notice.objects : notice.objects[a].bgpvpn \in next.on
    BY <2>1, <2>3, <2>4 DEF OfRows, Matches
  <2>7. JobOn(next)'
    BY <2>1, <2>2, <2>3, <2>5 DEF JobOn, OnItsBgpvpns, Rest, Pushes
  <2>. QED
    BY <2>3, <2>5, <2>6, <2>7 DEF Starts
<1>7. ASSUME NEW r \in Router, NEW n \in Network, BeginRemoveInterface(w, r, n) PROVE Starts(w)
  <2>1. PICK notice, next :
          /\ notice = NoticeWithoutGateway(OfInterface(r, n), n)
          /\ next = [step |-> "unplug", on |-> Bgpvpn, interface |-> <<r, n>>]
    OBVIOUS
  <2>2. next \in FinalStep /\ next # Idle /\ next.step = "unplug" /\ next.on = Bgpvpn
    BY <2>1, FinalShape, IdleAssumption DEF FinalStep
  <2>3. notice \in GoodNotices /\ OfRows(notice)
    BY <2>1, WithoutGatewayOfRows DEF OfInterface
  <2>4. Adds(w, notice, next) /\ assocs' = assocs /\ Serve(w, next.on)
    BY <1>7, <2>1, <2>2, <2>3 DEF BeginRemoveInterface, RemovedNotice, Serve, Adds, Pushes
  <2>5. \A a \in DOMAIN notice.objects : notice.objects[a].bgpvpn \in next.on
    BY <2>2, <2>3, NoticeShape DEF GoodObjects, Objects
  <2>6. JobOn(next)'
    BY <2>2 DEF JobOn, OnItsBgpvpns, Rest, Pushes
  <2>. QED
    BY <2>2, <2>4, <2>5, <2>6 DEF Starts
<1>8. ASSUME \/ \E c \in Bgpvpn, name \in Name, rt \in RT, rd \in Rd :
                  CreateBgpvpn(w, c, name, rt, rd)
             \/ \E e \in Assoc, flag \in Flag : UpdateRouterAssoc(w, e, flag)
      PROVE  Starts(w)
  BY <1>8 DEF CreateBgpvpn, UpdateRouterAssoc, Starts
<1>. QED
  BY <1>1, <1>2, <1>3, <1>4, <1>5, <1>6, <1>7, <1>8 DEF Begin

LEMMA ProceedAdvances ==
  ASSUME IInv, JobsOn, NEW w \in Worker, Proceed(w), ~ Push(w)
  PROVE  Advances(w)
<1>1. ASSUME CommitUpdate(w) PROVE Advances(w)
  <2>1. PICK c, j : /\ c = job[w].bgpvpn
                    /\ j = [step |-> "tell_bgpvpn", on |-> {c}, bgpvpn |-> c]
    OBVIOUS
  <2>2. /\ job[w] # Idle /\ job[w].step = "update" /\ UNCHANGED <<wire, known>>
        /\ job' = [job EXCEPT ![w] = j] \/ job' = [job EXCEPT ![w] = Idle]
    BY <1>1, <2>1 DEF CommitUpdate
  <2>3. c \in Bgpvpn /\ c \in job[w].on
    BY <2>1, <2>2, JobCases, JobShape DEF JobsOn, JobOn, OnItsBgpvpns, Rest, Pushes
  <2>4. j # Idle /\ j.step = "tell_bgpvpn" /\ j.on = {c} /\ j.bgpvpn = c
    BY <2>1, <2>3, SimpleIsJob, IdleAssumption
  <2>5. JobOn(j)' /\ JobOn(Idle)'
    BY <2>4 DEF JobOn, OnItsBgpvpns, Rest, Pushes
  <2>6. GoesOn(w, j) \/ GoesOn(w, Idle)
    BY <2>2, <2>4 DEF GoesOn, Pushes
  <2>7. OnOf(j) \subseteq OnOf(job[w]) /\ OnOf(Idle) \subseteq OnOf(job[w])
    BY <2>2, <2>3, <2>4 DEF OnOf
  <2>. QED
    BY <2>5, <2>6, <2>7 DEF Advances
<1>2. ASSUME \/ RefuseUpdate(w) \/ CommitDeleteBgpvpn(w) \/ CommitDeleteAssoc(w)
             \/ CommitRemoveInterface(w)
      PROVE  Advances(w)
  <2>1. GoesOn(w, Idle)
    BY <1>2 DEF RefuseUpdate, CommitDeleteBgpvpn, CommitDeleteAssoc, CommitRemoveInterface,
                GoesOn, Pushes
  <2>2. JobOn(Idle)' /\ OnOf(Idle) \subseteq OnOf(job[w])
    BY DEF JobOn, OnItsBgpvpns, Rest, Pushes, OnOf
  <2>. QED
    BY <2>1, <2>2 DEF Advances
<1>3. ASSUME Build(w) PROVE Advances(w)
  <2>1. PICK notice : notice = ToldOf(job[w])
    OBVIOUS
  <2>2. /\ job[w] # Idle /\ job[w].step \in {"tell_assoc", "tell_bgpvpn", "tell_network"}
        /\ UNCHANGED <<assocs, wire, known>>
        /\ job' = [job EXCEPT ![w] = Pushing(notice, Idle)]
    BY <1>3, <2>1 DEF Build
  <2>3. /\ notice \in GoodNotices /\ OfRows(notice)
        /\ \A e \in DOMAIN notice.objects : notice.objects[e].bgpvpn \in job[w].on
    BY <2>1, <2>2, ToldShape
  <2>4. Adds(w, notice, Idle)
    BY <2>2, <2>3 DEF Adds, Pushes
  <2>. QED
    BY <2>2, <2>3, <2>4 DEF Advances, OnOf
<1>. QED
  BY <1>1, <1>2, <1>3 DEF Proceed

\* Nothing but a new row brings a new mention.
LEMMA MentionsStep ==
  ASSUME IInv, Identity, JobsOn, [Next]_vars, NEW a \in Assoc, NEW b, NEW on,
         Mentions(a, b, on)'
  PROVE  Mentions(a, b, on) \/ (assocs'[a] # None /\ Matches(assocs'[a], b, on))
<1>1. ASSUME Quiet PROVE Mentions(a, b, on) \/ (assocs'[a] # None /\ Matches(assocs'[a], b, on))
  BY <1>1, QuietFutures
<1>2. ASSUME UNCHANGED <<job, wire, known>> PROVE Quiet
  BY <1>2 DEF Quiet, Coming, Pushes
<1>3. ASSUME NEW w \in Worker, Starts(w) \/ Advances(w)
      PROVE  Mentions(a, b, on) \/ (assocs'[a] # None /\ Matches(assocs'[a], b, on))
  <2>1. CASE \E j : GoesOn(w, j)
    BY <1>1, <2>1, GoesOnQuiet
  <2>2. CASE assocs' = assocs /\ \E notice, next : Adds(w, notice, next)
    BY <2>2, AddsFutures
  <2>. QED
    BY <1>1, <1>2, <1>3, <2>1, <2>2 DEF Starts, Advances
<1>4. ASSUME NEW w \in Worker, Push(w) PROVE Quiet
  BY <1>4, PushQuiet
<1>5. ASSUME NEW w \in Worker, Deliver(w) PROVE Mentions(a, b, on)
  BY <1>5, DeliverFutures
<1>6. ASSUME NEW w \in Worker, Rollback(w) \/ Crash(w) \/ Swallow(w)
      PROVE  Mentions(a, b, on)
  <2>1. PICK j : /\ ~ Pushes(j) /\ job' = [job EXCEPT ![w] = j]
                 /\ UNCHANGED <<assocs, wire, known>>
    BY <1>6, SwallowTo DEF Rollback, Crash, Pushes
  <2>. QED
    BY <2>1, DropFutures
<1>7. ASSUME (\E x \in Resource : DeleteResource(x)) \/ UNCHANGED vars
      PROVE  UNCHANGED <<job, wire, known>>
  BY <1>7 DEF DeleteResource, vars
<1>. QED
  BY <1>1, <1>2, <1>3, <1>4, <1>5, <1>6, <1>7, BeginStarts, ProceedAdvances DEF Next, Proceed

LEMMA IdentityStep ==
  ASSUME IInv, Identity, JobsOn, [Next]_vars
  PROVE  Identity'
<1>1. ASSUME NEW a \in Assoc, NEW b \in Bgpvpn, NEW on \in Resource, Mentions(a, b, on)'
      PROVE  \/ Mentions(a, b, on)
             \/ /\ a \in unused \ unused' /\ vpns[b] # None
                /\ assocs'[a] # None /\ Matches(assocs'[a], b, on)
  <2>1. CASE assocs'[a] # None /\ Matches(assocs'[a], b, on)
    BY <2>1, RowsStep DEF RowKept, Matches, Mentions
  <2>. QED
    BY <1>1, <2>1, MentionsStep
<1>2. ASSUME NEW a \in Assoc, NEW b \in Bgpvpn, NEW c \in Bgpvpn, NEW on \in Resource,
             NEW at \in Resource, Mentions(a, b, on)', Mentions(a, c, at)'
      PROVE  b = c /\ on = at
  <2>1. CASE a \in unused
    <3>1. ~ Mentions(a, b, on) /\ ~ Mentions(a, c, at)
      BY <2>1 DEF Identity
    <3>. QED
      BY <1>1, <1>2, <3>1 DEF Matches
  <2>2. CASE a \notin unused
    BY <1>1, <1>2, <2>2 DEF Identity
  <2>. QED
    BY <2>1, <2>2
<1>3. ASSUME NEW a \in Assoc, NEW b \in Bgpvpn, NEW on \in Resource, Mentions(a, b, on)'
      PROVE  a \notin unused' /\ b \notin unused'
  BY <1>1, <1>3, RowsStep DEF Identity
<1>4. \A b \in Bgpvpn : vpns'[b] # None => b \notin unused'
  BY RowsStep DEF Identity
<1>. QED
  BY <1>2, <1>3, <1>4 DEF Identity

\* A job stays on the BGPVPNs of what it is about.
LEMMA OnItsKept ==
  ASSUME IInv, [Next]_vars, NEW j \in Job \cup {Idle}, OnItsBgpvpns(j)
  PROVE  OnItsBgpvpns(j)'
<1>1. ASSUME j # Idle, j.step \in {"tell_assoc", "delete_assoc"}
      PROVE  /\ j.assoc \notin unused'
             /\ assocs'[j.assoc] # None => assocs'[j.assoc].bgpvpn \in j.on
  <2>1. j.assoc \in Assoc
    BY <1>1, JobShape
  <2>2. j.assoc \notin unused /\ (assocs[j.assoc] # None => assocs[j.assoc].bgpvpn \in j.on)
    BY <1>1 DEF OnItsBgpvpns
  <2>. QED
    BY <2>1, <2>2, RowsStep DEF RowKept, Matches
<1>. QED
  BY <1>1 DEF OnItsBgpvpns

LEMMA JobOnKept ==
  ASSUME IInv, [Next]_vars, NEW v \in Worker, JobOn(job[v]), job'[v] = job[v]
  PROVE  JobOn(job[v])'
<1>1. PICK j, i : j = job[v] /\ i = Rest(j)
  OBVIOUS
<1>2. i \in Job \cup {Idle} /\ OnItsBgpvpns(i)
  <2>1. i = Rest(job[v])
    BY <1>1
  <2>2. Rest(job[v]) \in Job \cup {Idle} /\ OnItsBgpvpns(Rest(job[v]))
    BY JobCases DEF JobOn
  <2>. QED
    BY <2>1, <2>2 DEF OnItsBgpvpns
<1>3. OnItsBgpvpns(i)'
  BY <1>2, OnItsKept
<1>4. JobOn(j)
  BY <1>1 DEF JobOn, OnItsBgpvpns
<1>5. JobOn(j)'
  BY <1>1, <1>3, <1>4 DEF JobOn, OnItsBgpvpns
<1>. QED
  BY <1>1, <1>5 DEF JobOn, OnItsBgpvpns, Rest, Pushes

LEMMA JobsOnTo ==
  ASSUME IInv, JobsOn, [Next]_vars, NEW w \in Worker, NEW j,
         job' = [job EXCEPT ![w] = j], JobOn(j)'
  PROVE  JobsOn'
<1>1. job'[w] = j /\ \A v \in Worker \ {w} : job'[v] = job[v]
  BY JobAfter
<1>2. \A v \in Worker \ {w} : JobOn(job[v])'
  BY <1>1, JobOnKept DEF JobsOn
<1>3. JobOn(job[w])'
  BY <1>1 DEF JobOn, OnItsBgpvpns, Rest, Pushes
<1>. QED
  BY <1>2, <1>3 DEF JobsOn

LEMMA PushingOn ==
  ASSUME NEW notice \in GoodNotices, NEW next \in FinalStep \cup {Idle}, NEW j,
         j = Pushing(notice, next), JobOn(next)',
         next # Idle => \A a \in DOMAIN notice.objects : notice.objects[a].bgpvpn \in next.on
  PROVE  JobOn(j)'
<1>1. OnItsBgpvpns(next)'
  BY FinalShape DEF JobOn, Rest, Pushes, OnItsBgpvpns
<1>2. Rest(j) = next
  BY PushingShape
<1>3. OnItsBgpvpns(Rest(j))'
  BY <1>1, <1>2 DEF OnItsBgpvpns
<1>4. ASSUME Pushes(j)
      PROVE  /\ \A a \in DOMAIN j.notice.objects : j.notice.objects[a].bgpvpn \in j.on
             /\ j.next = Idle \/ j.next.on = j.on
  <2>1. /\ j.notice = notice /\ j.next = next
        /\ j.on = {notice.objects[a].bgpvpn : a \in DOMAIN notice.objects}
                    \cup (IF next = Idle THEN {} ELSE next.on)
    BY <1>4, PushingShape
  <2>. QED
    BY <2>1
<1>. QED
  BY <1>3, <1>4 DEF JobOn

LEMMA JobsOnStep ==
  ASSUME IInv, Identity, JobsOn, [Next]_vars
  PROVE  JobsOn'
<1>1. ASSUME NEW w \in Worker, NEW j, GoesOn(w, j), JobOn(j)' PROVE JobsOn'
  BY <1>1, JobsOnTo DEF GoesOn
<1>2. JobOn(Idle)'
  BY DEF JobOn, OnItsBgpvpns, Rest, Pushes
<1>3. ASSUME NEW w \in Worker, NEW notice, NEW next, Adds(w, notice, next), JobOn(next)',
             next # Idle => \A a \in DOMAIN notice.objects : notice.objects[a].bgpvpn \in next.on
      PROVE  JobsOn'
  <2>1. PICK j : j = Pushing(notice, next)
    OBVIOUS
  <2>2. JobOn(j)' /\ job' = [job EXCEPT ![w] = j]
    BY <1>3, <2>1, PushingOn DEF Adds
  <2>. QED
    BY <2>2, JobsOnTo
<1>4. ASSUME UNCHANGED job PROVE JobsOn'
  BY <1>4, JobOnKept DEF JobsOn
<1>5. ASSUME NEW w \in Worker, Starts(w) PROVE JobsOn'
  BY <1>1, <1>3, <1>4, <1>5 DEF Starts
<1>6. ASSUME NEW w \in Worker, Advances(w) PROVE JobsOn'
  BY <1>1, <1>2, <1>3, <1>6 DEF Advances
<1>7. ASSUME NEW w \in Worker, Push(w) PROVE JobsOn'
  <2>1. PICK j : j = job[w].next
    OBVIOUS
  <2>2. Pushes(job[w]) /\ job' = [job EXCEPT ![w] = j]
    BY <1>7, <2>1 DEF Push, Pushes
  <2>3. Rest(job[w]) = j /\ j \in Job \cup {Idle} /\ ~ Pushes(j)
    BY <2>1, <2>2, JobCases DEF Rest
  <2>4. OnItsBgpvpns(j)
    BY <2>3 DEF JobsOn, JobOn, OnItsBgpvpns
  <2>5. OnItsBgpvpns(j)'
    BY <2>3, <2>4, OnItsKept
  <2>6. JobOn(j)'
    BY <2>3, <2>5 DEF JobOn, Rest, OnItsBgpvpns
  <2>. QED
    BY <2>2, <2>6, JobsOnTo
<1>10. ASSUME NEW w \in Worker, Swallow(w) PROVE JobsOn'
  <2>1. PICK j : j = job[w].next
    OBVIOUS
  <2>2. /\ Pushes(job[w]) /\ job' = [job EXCEPT ![w] = j]
        /\ Rest(job[w]) = j /\ j \in Job \cup {Idle} /\ ~ Pushes(j)
    BY <1>10, <2>1, SwallowTo, JobCases
  <2>3. OnItsBgpvpns(j)
    BY <2>2 DEF JobsOn, JobOn, OnItsBgpvpns
  <2>4. OnItsBgpvpns(j)'
    BY <2>2, <2>3, OnItsKept
  <2>5. JobOn(j)'
    BY <2>2, <2>4 DEF JobOn, Rest, OnItsBgpvpns
  <2>. QED
    BY <2>2, <2>5, JobsOnTo
<1>8. ASSUME NEW w \in Worker, Rollback(w) \/ Crash(w) PROVE JobsOn'
  <2>1. job' = [job EXCEPT ![w] = Idle]
    BY <1>8 DEF Rollback, Crash
  <2>. QED
    BY <1>2, <2>1, JobsOnTo
<1>9. ASSUME \/ \E w \in Worker : Deliver(w)
             \/ \E x \in Resource : DeleteResource(x)
             \/ UNCHANGED vars
      PROVE  JobsOn'
  BY <1>4, <1>9 DEF Deliver, DeleteResource, vars
<1>. QED
  BY <1>5, <1>6, <1>7, <1>8, <1>9, <1>10, BeginStarts, ProceedAdvances DEF Next, Proceed

-----------------------------------------------------------------------------
(***************************************************************************)
(* Requests overlap on a BGPVPN only if it raced.                          *)
(***************************************************************************)

\* Worker w is busy with no more than before, or with what it took just now.
BusyOf(w) ==
  /\ \A v \in Worker \ {w} : BusyWith(v)' = BusyWith(v)
  /\ \/ BusyWith(w)' \subseteq BusyWith(w)
     \/ \E bs : Serve(w, bs) /\ BusyWith(w)' \subseteq BusyWith(w) \cup bs

LEMMA BusyTo ==
  ASSUME IInv, NEW w \in Worker, NEW j, job' = [job EXCEPT ![w] = j], wire' = wire,
         OnOf(j) \subseteq OnOf(job[w]) \/ Serve(w, OnOf(j))
  PROVE  BusyOf(w)
<1>1. job'[w] = j /\ \A v \in Worker \ {w} : job'[v] = job[v]
  BY JobAfter
<1>2. \A v \in Worker \ {w} : BusyWith(v)' = BusyWith(v)
  BY <1>1 DEF BusyWith
<1>. DEFINE sent == UNION {{wire[w][i].objects[a].bgpvpn : a \in DOMAIN wire[w][i].objects}
                             : i \in DOMAIN wire[w]}
<1>3. BusyWith(w) = OnOf(job[w]) \cup sent
  BY DEF BusyWith, OnOf
<1>4. BusyWith(w)' = OnOf(j) \cup sent
  BY <1>1 DEF BusyWith, OnOf
<1>. HIDE DEF sent
<1>5. BusyWith(w)' \subseteq BusyWith(w) \/ BusyWith(w)' \subseteq BusyWith(w) \cup OnOf(j)
  BY <1>3, <1>4
<1>6. OnOf(j) \subseteq OnOf(job[w]) => BusyWith(w)' \subseteq BusyWith(w)
  BY <1>3, <1>4
<1>. QED
  BY <1>2, <1>5, <1>6 DEF BusyOf

LEMMA PushingBusy ==
  ASSUME IInv, NEW w \in Worker, NEW notice, NEW next, Adds(w, notice, next),
         \/ /\ next = Idle
            /\ \A a \in DOMAIN notice.objects : notice.objects[a].bgpvpn \in OnOf(job[w])
         \/ /\ next # Idle /\ Serve(w, next.on)
            /\ \A a \in DOMAIN notice.objects : notice.objects[a].bgpvpn \in next.on
  PROVE  BusyOf(w)
<1>1. PICK j : j = Pushing(notice, next)
  OBVIOUS
<1>2. OnOf(j) = {notice.objects[a].bgpvpn : a \in DOMAIN notice.objects} \cup OnOf(next)
  <2>1. CASE DOMAIN notice.objects = {}
    BY <1>1, <2>1 DEF Pushing
  <2>2. CASE DOMAIN notice.objects # {}
    BY <1>1, <2>2, PushingShape DEF Adds, OnOf, Pushes
  <2>. QED
    BY <2>1, <2>2
<1>3. OnOf(j) \subseteq OnOf(job[w]) \/ Serve(w, OnOf(j))
  <2>1. CASE next = Idle
    BY <1>2, <2>1 DEF OnOf
  <2>2. CASE next # Idle
    <3>1. OnOf(j) = next.on
      BY <1>2, <2>2 DEF OnOf
    <3>. QED
      BY <2>2, <3>1
  <2>. QED
    BY <2>1, <2>2
<1>. QED
  BY <1>1, <1>3, BusyTo DEF Adds

LEMMA PushBusy ==
  ASSUME IInv, JobsOn, NEW w \in Worker, Push(w)
  PROVE  BusyOf(w)
<1>1. PICK q, notice, r : q = wire[w] /\ notice = job[w].notice /\ r = Append(q, notice)
  OBVIOUS
<1>2. /\ job'[w] = job[w].next /\ \A v \in Worker \ {w} : job'[v] = job[v]
      /\ Pushes(job[w]) /\ job[w] # Idle
  BY JobAfter DEF Push, Pushes
<1>3. wire'[w] = r /\ \A v \in Worker \ {w} : wire'[v] = wire[v]
  BY <1>1 DEF Push, IInv, AgentsOK
<1>4. \A v \in Worker \ {w} : BusyWith(v)' = BusyWith(v)
  BY <1>2, <1>3 DEF BusyWith
<1>5. q \in Seq(GoodNotices) /\ notice \in GoodNotices
  BY <1>1, <1>2, JobCases
<1>6. \A i \in DOMAIN r : r[i] = notice \/ (i \in DOMAIN q /\ r[i] = q[i])
  BY <1>1, <1>5
<1>7. /\ \A a \in DOMAIN notice.objects : notice.objects[a].bgpvpn \in job[w].on
      /\ OnOf(job[w].next) \subseteq job[w].on
  BY <1>1, <1>2 DEF JobsOn, JobOn, OnOf
<1>8. BusyWith(w)' \subseteq BusyWith(w)
  <2>1. SUFFICES ASSUME NEW b \in BusyWith(w)' PROVE b \in BusyWith(w)
    OBVIOUS
  <2>2. \/ b \in OnOf(job[w].next)
        \/ \E i \in DOMAIN r : \E a \in DOMAIN r[i].objects : r[i].objects[a].bgpvpn = b
    BY <1>2, <1>3, <2>1 DEF BusyWith, OnOf
  <2>3. \/ b \in job[w].on
        \/ \E i \in DOMAIN q : \E a \in DOMAIN q[i].objects : q[i].objects[a].bgpvpn = b
    BY <1>6, <1>7, <2>2
  <2>. QED
    BY <1>1, <1>2, <2>3 DEF BusyWith
<1>. QED
  BY <1>4, <1>8 DEF BusyOf

LEMMA DeliverBusy ==
  ASSUME IInv, NEW w \in Worker, Deliver(w)
  PROVE  BusyOf(w)
<1>1. PICK q, r : q = wire[w] /\ r = Tail(q)
  OBVIOUS
<1>2. wire'[w] = r /\ job' = job /\ \A v \in Worker \ {w} : wire'[v] = wire[v]
  BY <1>1 DEF Deliver, IInv, AgentsOK
<1>3. \A v \in Worker \ {w} : BusyWith(v)' = BusyWith(v)
  BY <1>2 DEF BusyWith
<1>4. \A i \in DOMAIN r : \E k \in DOMAIN q : r[i] = q[k]
  <2>1. q \in Seq(GoodNotices) /\ q # <<>>
    BY <1>1, JobCases DEF Deliver
  <2>2. \A i \in DOMAIN r : i + 1 \in DOMAIN q /\ r[i] = q[i + 1]
    BY <1>1, <2>1
  <2>. QED
    BY <2>2
<1>5. BusyWith(w)' \subseteq BusyWith(w)
  <2>1. SUFFICES ASSUME NEW b \in BusyWith(w)' PROVE b \in BusyWith(w)
    OBVIOUS
  <2>2. \/ b \in OnOf(job[w])
        \/ \E i \in DOMAIN r : \E a \in DOMAIN r[i].objects : r[i].objects[a].bgpvpn = b
    BY <1>2, <2>1 DEF BusyWith, OnOf
  <2>3. \/ b \in OnOf(job[w])
        \/ \E i \in DOMAIN q : \E a \in DOMAIN q[i].objects : q[i].objects[a].bgpvpn = b
    BY <1>4, <2>2
  <2>. QED
    BY <1>1, <2>3 DEF BusyWith, OnOf
<1>. QED
  BY <1>3, <1>5 DEF BusyOf

LEMMA RacedGrows ==
  ASSUME [Next]_vars
  PROVE  raced \subseteq raced'
<1>1. ASSUME NEW w \in Worker, Begin(w) PROVE raced \subseteq raced'
  BY <1>1 DEF Begin, CreateBgpvpn, BeginUpdate, BeginDeleteBgpvpn, CreateAssoc, UpdatePortAssoc,
              UpdateRouterAssoc, BeginDeleteAssoc, AddInterface, BeginRemoveInterface, Serve
<1>2. ASSUME NEW w \in Worker, Proceed(w) PROVE raced \subseteq raced'
  BY <1>2 DEF Proceed, CommitUpdate, RefuseUpdate, CommitDeleteBgpvpn, CommitDeleteAssoc,
              CommitRemoveInterface, Build, Push
<1>3. ASSUME NEW w \in Worker, Deliver(w) \/ Rollback(w) \/ Crash(w) \/ Swallow(w)
      PROVE  raced \subseteq raced'
  BY <1>3 DEF Deliver, Rollback, Crash, Swallow
<1>4. ASSUME (\E x \in Resource : DeleteResource(x)) \/ UNCHANGED vars
      PROVE  raced \subseteq raced'
  BY <1>4 DEF DeleteResource, vars
<1>. QED
  BY <1>1, <1>2, <1>3, <1>4 DEF Next

LEMMA OneWorkerStep ==
  ASSUME IInv, Identity, JobsOn, OneWorker, [Next]_vars
  PROVE  OneWorker'
<1>1. raced \subseteq raced'
  BY RacedGrows
<1>2. ASSUME NEW w \in Worker, BusyOf(w) PROVE OneWorker'
  <2>1. SUFFICES ASSUME NEW b \in Bgpvpn \ raced', NEW v \in Worker, v # w,
                        b \in BusyWith(v)', b \in BusyWith(w)'
                 PROVE  FALSE
    BY <1>1, <1>2 DEF OneWorker, BusyOf
  <2>2. b \in BusyWith(v)
    BY <1>2, <2>1 DEF BusyOf
  <2>3. b \notin BusyWith(w)
    BY <1>1, <2>1, <2>2 DEF OneWorker
  <2>4. PICK bs : Serve(w, bs) /\ b \in bs
    BY <1>2, <2>1, <2>3 DEF BusyOf
  <2>. QED
    BY <2>1, <2>2, <2>4 DEF Serve
<1>3. ASSUME UNCHANGED <<job, wire>> PROVE OneWorker'
  <2>1. \A v \in Worker : BusyWith(v)' = BusyWith(v)
    BY <1>3 DEF BusyWith
  <2>. QED
    BY <1>1, <2>1 DEF OneWorker
<1>4. ASSUME NEW w \in Worker, Starts(w) PROVE OneWorker'
  <2>1. CASE UNCHANGED <<job, wire, known>>
    BY <1>3, <2>1
  <2>2. CASE \E j : GoesOn(w, j) /\ Serve(w, OnOf(j))
    BY <1>2, <2>2, BusyTo DEF GoesOn
  <2>3. CASE \E notice, next :
               /\ Adds(w, notice, next) /\ next # Idle /\ Serve(w, next.on)
               /\ \A a \in DOMAIN notice.objects : notice.objects[a].bgpvpn \in next.on
    BY <1>2, <2>3, PushingBusy
  <2>. QED
    BY <1>4, <2>1, <2>2, <2>3 DEF Starts
<1>5. ASSUME NEW w \in Worker, Advances(w) PROVE OneWorker'
  <2>1. CASE \E j : GoesOn(w, j) /\ OnOf(j) \subseteq OnOf(job[w])
    BY <1>2, <2>1, BusyTo DEF GoesOn
  <2>2. CASE \E notice : /\ Adds(w, notice, Idle)
                         /\ \A a \in DOMAIN notice.objects :
                              notice.objects[a].bgpvpn \in OnOf(job[w])
    BY <1>2, <2>2, PushingBusy
  <2>. QED
    BY <1>5, <2>1, <2>2 DEF Advances
<1>6. ASSUME NEW w \in Worker, Push(w) \/ Deliver(w) PROVE OneWorker'
  BY <1>2, <1>6, PushBusy, DeliverBusy
<1>7. ASSUME NEW w \in Worker, Rollback(w) \/ Crash(w) PROVE OneWorker'
  <2>1. job' = [job EXCEPT ![w] = Idle] /\ wire' = wire
    BY <1>7 DEF Rollback, Crash
  <2>2. OnOf(Idle) \subseteq OnOf(job[w])
    BY DEF OnOf
  <2>. QED
    BY <1>2, <2>1, <2>2, BusyTo
<1>8. ASSUME (\E x \in Resource : DeleteResource(x)) \/ UNCHANGED vars
      PROVE  UNCHANGED <<job, wire>>
  BY <1>8 DEF DeleteResource, vars
<1>9. ASSUME NEW w \in Worker, Swallow(w) PROVE OneWorker'
  <2>1. Bgpvpn \subseteq raced'
    BY <1>9, SwallowTo
  <2>. QED
    BY <2>1 DEF OneWorker
<1>. QED
  BY <1>3, <1>4, <1>5, <1>6, <1>7, <1>8, <1>9, BeginStarts, ProceedAdvances DEF Next, Proceed

-----------------------------------------------------------------------------
(***************************************************************************)
(* What an update has read stays so.                                       *)
(***************************************************************************)

Updates(j) == j # Idle /\ j.step = "update"

\* Only a request to update a BGPVPN leads to an update, of what is read then.
LEMMA NewUpdate ==
  ASSUME IInv, [Next]_vars, NEW v \in Worker, Updates(job'[v])
  PROVE  \/ job'[v] = job[v]
         \/ vpns' = vpns /\ vpns'[job'[v].bgpvpn] = job'[v].old
<1>1. ASSUME NEW w \in Worker, NEW c \in Bgpvpn, NEW body \in Body, BeginUpdate(w, c, body)
      PROVE  \/ job'[v] = job[v]
             \/ vpns' = vpns /\ vpns'[job'[v].bgpvpn] = job'[v].old
  <2>1. PICK j : j = [step |-> "update", on |-> {c}, bgpvpn |-> c, body |-> body,
                      old |-> vpns[c], spanned |-> {assocs[e].on : e \in AssociationsOf(c)}]
    OBVIOUS
  <2>2. vpns' = vpns /\ job' = [job EXCEPT ![w] = j] /\ j.bgpvpn = c /\ j.old = vpns[c]
    BY <1>1, <2>1 DEF BeginUpdate
  <2>. QED
    BY <2>2, JobAfter
<1>2. ASSUME NEW w \in Worker, NEW j, job' = [job EXCEPT ![w] = j], ~ Updates(j)
      PROVE  job'[v] = job[v]
  BY <1>2, JobAfter
<1>3. ASSUME NEW notice, NEW next, ~ Updates(next) PROVE ~ Updates(Pushing(notice, next))
  BY <1>3 DEF Pushing, Updates
<1>4. ~ Updates(Idle)
  BY DEF Updates
<1>5. ASSUME NEW w \in Worker, Begin(w)
      PROVE  \/ job'[v] = job[v]
             \/ vpns' = vpns /\ vpns'[job'[v].bgpvpn] = job'[v].old
  <2>1. ASSUME NEW c \in Bgpvpn, BeginDeleteBgpvpn(w, c) PROVE job'[v] = job[v]
    BY <1>2, <1>3, <2>1 DEF BeginDeleteBgpvpn, Updates
  <2>2. ASSUME NEW e \in Assoc, NEW c \in Bgpvpn, NEW at \in Resource,
               CreateAssoc(w, e, c, at, "on")
        PROVE  job'[v] = job[v]
    BY <1>2, <2>2 DEF CreateAssoc, Updates
  <2>3. ASSUME NEW e \in Assoc, NEW flag \in Flag, UpdatePortAssoc(w, e, flag)
        PROVE  job'[v] = job[v]
    BY <1>2, <2>3 DEF UpdatePortAssoc, Updates
  <2>4. ASSUME NEW e \in Assoc, BeginDeleteAssoc(w, e) PROVE job'[v] = job[v]
    BY <1>2, <1>3, <2>4 DEF BeginDeleteAssoc, Updates
  <2>5. ASSUME NEW r \in Router, NEW n \in Network, AddInterface(w, r, n)
        PROVE  job'[v] = job[v]
    BY <1>2, <2>5 DEF AddInterface, Updates
  <2>6. ASSUME NEW r \in Router, NEW n \in Network, BeginRemoveInterface(w, r, n)
        PROVE  job'[v] = job[v]
    BY <1>2, <1>3, <2>6 DEF BeginRemoveInterface, RemovedNotice, Updates
  <2>7. ASSUME \/ \E c \in Bgpvpn, name \in Name, rt \in RT, rd \in Rd :
                    CreateBgpvpn(w, c, name, rt, rd)
               \/ \E e \in Assoc, flag \in Flag : UpdateRouterAssoc(w, e, flag)
        PROVE  job'[v] = job[v]
    BY <2>7 DEF CreateBgpvpn, UpdateRouterAssoc
  <2>. QED
    BY <1>1, <1>5, <2>1, <2>2, <2>3, <2>4, <2>5, <2>6, <2>7 DEF Begin
<1>6. ASSUME NEW w \in Worker, Proceed(w) PROVE job'[v] = job[v]
  <2>1. CASE CommitUpdate(w)
    <3>1. PICK c, j : /\ c = job[w].bgpvpn
                      /\ j = [step |-> "tell_bgpvpn", on |-> {c}, bgpvpn |-> c]
      OBVIOUS
    <3>2. job' = [job EXCEPT ![w] = j] \/ job' = [job EXCEPT ![w] = Idle]
      BY <2>1, <3>1 DEF CommitUpdate
    <3>3. ~ Updates(j)
      BY <3>1 DEF Updates
    <3>. QED
      BY <1>2, <1>4, <3>2, <3>3
  <2>2. CASE RefuseUpdate(w) \/ CommitDeleteBgpvpn(w) \/ CommitDeleteAssoc(w)
               \/ CommitRemoveInterface(w)
    BY <1>2, <1>4, <2>2 DEF RefuseUpdate, CommitDeleteBgpvpn, CommitDeleteAssoc,
                             CommitRemoveInterface
  <2>3. CASE Build(w)
    BY <1>2, <1>3, <1>4, <2>3 DEF Build
  <2>4. CASE Push(w)
    <3>1. job[w].next \in FinalStep \cup {Idle}
      BY <2>4, JobCases DEF Push, Pushes
    <3>2. ~ Updates(job[w].next)
      BY <3>1, FinalShape DEF Updates
    <3>. QED
      BY <1>2, <2>4, <3>2 DEF Push
  <2>. QED
    BY <1>6, <2>1, <2>2, <2>3, <2>4 DEF Proceed
<1>7. ASSUME NEW w \in Worker, Rollback(w) \/ Crash(w) \/ Swallow(w)
      PROVE  job'[v] = job[v]
  BY <1>2, <1>4, <1>7 DEF Rollback, Crash, Swallow, Updates
<1>8. ASSUME \/ \E w \in Worker : Deliver(w)
             \/ \E x \in Resource : DeleteResource(x)
             \/ UNCHANGED vars
      PROVE  job' = job
  BY <1>8 DEF Deliver, DeleteResource, vars
<1>. QED
  BY <1>5, <1>6, <1>7, <1>8 DEF Next

\* Only who works on a BGPVPN changes it, unless it is new.
LEMMA VpnsStep ==
  ASSUME IInv, JobsOn, [Next]_vars, NEW c \in Bgpvpn, vpns'[c] # vpns[c]
  PROVE  c \in unused \/ \E w \in Worker : WorksOn(w, c) /\ ~ Updates(job'[w])
<1>1. ASSUME NEW w \in Worker, Begin(w) PROVE c \in unused
  <2>1. ASSUME NEW d \in Bgpvpn, NEW name \in Name, NEW rt \in RT, NEW rd \in Rd,
               CreateBgpvpn(w, d, name, rt, rd)
        PROVE  c \in unused
    BY <2>1 DEF CreateBgpvpn, IInv, TablesOK
  <2>2. ASSUME vpns' = vpns PROVE FALSE
    BY <2>2
  <2>. QED
    BY <1>1, <2>1, <2>2 DEF Begin, BeginUpdate, BeginDeleteBgpvpn, CreateAssoc, UpdatePortAssoc,
                            UpdateRouterAssoc, BeginDeleteAssoc, AddInterface,
                            BeginRemoveInterface
<1>2. ASSUME NEW w \in Worker, Proceed(w) PROVE WorksOn(w, c) /\ ~ Updates(job'[w])
  <2>1. CASE CommitUpdate(w)
    <3>1. PICK d, j : /\ d = job[w].bgpvpn
                      /\ j = [step |-> "tell_bgpvpn", on |-> {d}, bgpvpn |-> d]
      OBVIOUS
    <3>2. /\ job' = [job EXCEPT ![w] = j] \/ job' = [job EXCEPT ![w] = Idle]
          /\ job[w] # Idle /\ job[w].step = "update"
          /\ \E new : vpns' = [vpns EXCEPT ![d] = new]
      BY <2>1, <3>1 DEF CommitUpdate
    <3>3. c = d
      BY <3>2 DEF IInv, TablesOK
    <3>4. d \in job[w].on
      BY <3>1, <3>2 DEF JobsOn, JobOn, OnItsBgpvpns, Rest, Pushes
    <3>5. ~ Updates(job'[w])
      BY <3>1, <3>2, JobAfter DEF Updates
    <3>. QED
      BY <3>2, <3>3, <3>4, <3>5 DEF WorksOn
  <2>2. CASE CommitDeleteBgpvpn(w)
    <3>1. /\ job' = [job EXCEPT ![w] = Idle]
          /\ job[w] # Idle /\ job[w].step = "delete_bgpvpn"
          /\ vpns' = [vpns EXCEPT ![job[w].bgpvpn] = None]
      BY <2>2 DEF CommitDeleteBgpvpn
    <3>2. c = job[w].bgpvpn
      BY <3>1 DEF IInv, TablesOK
    <3>3. job[w].bgpvpn \in job[w].on
      BY <3>1 DEF JobsOn, JobOn, OnItsBgpvpns, Rest, Pushes
    <3>4. ~ Updates(job'[w])
      BY <3>1, JobAfter DEF Updates
    <3>. QED
      BY <3>1, <3>2, <3>3, <3>4 DEF WorksOn
  <2>3. CASE RefuseUpdate(w) \/ CommitDeleteAssoc(w) \/ CommitRemoveInterface(w) \/ Build(w)
               \/ Push(w)
    BY <2>3 DEF RefuseUpdate, CommitDeleteAssoc, CommitRemoveInterface, Build, Push
  <2>. QED
    BY <1>2, <2>1, <2>2, <2>3 DEF Proceed
<1>3. ASSUME \/ \E w \in Worker : Deliver(w) \/ Rollback(w) \/ Crash(w) \/ Swallow(w)
             \/ \E x \in Resource : DeleteResource(x)
             \/ UNCHANGED vars
      PROVE  vpns' = vpns
  BY <1>3 DEF Deliver, Rollback, Crash, Swallow, DeleteResource, vars
<1>. QED
  BY <1>1, <1>2, <1>3 DEF Next

LEMMA OldIsCurrentStep ==
  ASSUME IInv, Identity, JobsOn, OneWorker, OldIsCurrent, [Next]_vars
  PROVE  OldIsCurrent'
<1>. SUFFICES ASSUME NEW v \in Worker, Updates(job'[v]), job'[v].bgpvpn \notin raced'
              PROVE  vpns'[job'[v].bgpvpn] = job'[v].old
  BY DEF OldIsCurrent, Updates
<1>1. CASE vpns' = vpns /\ vpns'[job'[v].bgpvpn] = job'[v].old
  BY <1>1
<1>2. CASE job'[v] = job[v]
  <2>1. PICK c : c = job[v].bgpvpn
    OBVIOUS
  <2>2. /\ Updates(job[v]) /\ c \notin raced /\ c \in Bgpvpn /\ job[v].old \in Row
        /\ WorksOn(v, c)
    <3>1. Updates(job[v]) /\ c \notin raced
      BY <1>2, <2>1, RacedGrows
    <3>2. job[v] \in Job /\ c \in Bgpvpn /\ job[v].old \in Row
      BY <2>1, <3>1, JobCases, JobShape DEF Updates
    <3>3. WorksOn(v, c)
      BY <2>1, <3>1 DEF Updates, WorksOn, JobsOn, JobOn, OnItsBgpvpns, Rest, Pushes
    <3>. QED
      BY <3>1, <3>2, <3>3
  <2>3. vpns[c] = job[v].old
    BY <2>1, <2>2 DEF OldIsCurrent, Updates
  <2>4. c \notin unused
    BY <2>2, <2>3, NoneAssumption DEF Identity
  <2>5. \A w \in Worker : WorksOn(w, c) => w = v
    BY <2>2, WorksBusy DEF OneWorker
  <2>6. vpns'[c] = vpns[c]
    BY <1>2, <2>2, <2>4, <2>5, VpnsStep
  <2>. QED
    BY <1>2, <2>1, <2>3, <2>6
<1>. QED
  BY <1>1, <1>2, NewUpdate

-----------------------------------------------------------------------------
(***************************************************************************)
(* The theorems.                                                           *)
(***************************************************************************)

LEMMA AgreementInit ==
  ASSUME Init
  PROVE  Agreement
<1>1. /\ assocs = [a \in Assoc |-> None] /\ known = [a \in Assoc |-> None]
      /\ vpns = [b \in Bgpvpn |-> None]
      /\ job = [w \in Worker |-> Idle] /\ wire = [w \in Worker |-> <<>>]
  BY DEF Init
<1>2. \A w \in Worker : Coming(w) = <<>>
  BY <1>1 DEF Coming, Pushes
<1>3. \A a \in Assoc : \A b, on : ~ Mentions(a, b, on)
  <2>1. \A w \in Worker : \A a, b, on : ~ Carries(Coming(w), a, b, on)
    BY <1>2 DEF Carries
  <2>. QED
    BY <1>1, <2>1 DEF Mentions
<1>4. Identity
  BY <1>1, <1>3 DEF Identity
<1>5. JobsOn
  BY <1>1 DEF JobsOn, JobOn, OnItsBgpvpns, Rest, Pushes
<1>6. OneWorker
  <2>1. \A w \in Worker : BusyWith(w) = {}
    BY <1>1 DEF BusyWith
  <2>. QED
    BY <2>1 DEF OneWorker
<1>7. OldIsCurrent
  BY <1>1 DEF OldIsCurrent
<1>8. Settling
  BY <1>3 DEF Settling
<1>. QED
  BY <1>4, <1>5, <1>6, <1>7, <1>8 DEF Agreement

\* Whatever workers do, with any faults, on every BGPVPN that did not race: what
\* agents will hold once all notices arrived fits the database, or the one
\* worker on that BGPVPN is yet to put it right.
THEOREM AgreementCorrect == Spec => [](IInv /\ Agreement)
<1>1. Init => Agreement
  BY AgreementInit
<1>2. IInv /\ Agreement /\ [Next]_vars => Agreement'
  BY IdentityStep, JobsOnStep, OneWorkerStep, OldIsCurrentStep, SettlingStep DEF Agreement
<1>. QED
  BY <1>1, <1>2, InvariantCorrect, PTL DEF Spec

\* Once nobody works on a BGPVPN, agents and database agree on its associations,
\* for any number of workers, requests and faults elsewhere.
THEOREM AgentsAgreeCorrect == Spec => []AgentsAgree
<1>1. ASSUME IInv, Agreement PROVE AgentsAgree
  <2>. SUFFICES ASSUME NEW a \in Assoc, Subject(a, known[a]) # None,
                       Subject(a, known[a]).bgpvpn \notin Busy \cup raced,
                       Exists(Subject(a, known[a]).on)
                PROVE  Fits(a, known[a])
    BY DEF AgentsAgree, Fits
  <2>1. PICK b, on : b = Subject(a, known[a]).bgpvpn /\ on = Subject(a, known[a]).on
    OBVIOUS
  <2>2. b \in Bgpvpn \ raced /\ on \in Resource \ gone /\ b \notin Busy
    BY <1>1, <2>1 DEF Subject, IInv, TablesOK, AgentsOK, AssocRow, GoodObjects, Objects, Exists
  <2>3. Mentions(a, b, on)
    BY <2>1 DEF Subject, Mentions, Matches
  <2>4. ASSUME NEW v \in Worker PROVE ~ AboutIn(Coming(v), a) /\ ~ WorksOn(v, b)
    <3>1. b \notin BusyWith(v)
      BY <2>2 DEF Busy
    <3>2. AboutIn(Coming(v), a) => Carries(Coming(v), a, b, on)
      BY <1>1, <2>2, <2>3, MentionedOnce DEF Agreement
    <3>. QED
      BY <1>1, <3>1, <3>2, CarriesBusy, WorksBusy DEF Agreement
  <2>5. known[a] \in Futures(a)
    BY <2>4 DEF Futures
  <2>6. Settled(a, b, known[a])
    BY <1>1, <2>2, <2>3, <2>5 DEF Agreement, Settling
  <2>. QED
    BY <2>4, <2>6 DEF Settled
<1>. QED
  BY <1>1, AgreementCorrect, PTL

-----------------------------------------------------------------------------
(***************************************************************************)
(* That the driver implements EventualView.  Where an association is       *)
(* closed, nothing about it is to come and nobody will tell agents of it:  *)
(* what they hold is what Settling says, and fits.  As it fits before a    *)
(* step and after it and agents hold the same, the database does as well,  *)
(* but for what fits leaves open: the gateway of a network.                *)
(***************************************************************************)

Values == {None} \cup Objects \cup [bgpvpn: Bgpvpn, on: Resource, flag: Flag]

Truth == [a \in Assoc |-> IF assocs[a] = None THEN None ELSE Shown(Object(a))]
Sight == [a \in Assoc |-> Shown(known[a])]
OnWire == UNION {UNION {DOMAIN wire[w][i].objects : i \in DOMAIN wire[w]} : w \in Worker}
Open == (UNION {About(job[w]) : w \in Worker}) \cup OnWire \cup Lost

LEMMA Typed ==
  ASSUME IInv
  PROVE  Truth \in [Assoc -> Values] /\ Sight \in [Assoc -> Values]
<1>1. ASSUME NEW o \in Objects PROVE Shown(o) \in Values
  BY NoneAssumption DEF Shown, Objects, Values
<1>2. \A a \in Assoc : assocs[a] # None => Object(a) \in Objects
  BY ObjectGood DEF IInv, Rows, GoodObjects
<1>3. \A a \in Assoc : known[a] \in Objects \cup {None}
  BY DEF IInv, AgentsOK, GoodObjects
<1>4. Shown(None) = None /\ None \in Values
  BY DEF Shown, Values
<1>. QED
  BY <1>1, <1>2, <1>3, <1>4 DEF Truth, Sight

LEMMA OpenTyped ==
  ASSUME IInv
  PROVE  Open \subseteq Assoc
<1>1. ASSUME NEW j \in Job PROVE AboutStep(j) \subseteq Assoc
  BY <1>1, JobShape DEF AboutStep, Rows, PushedWith, AssociationsOf, OnNetwork, OfInterface
<1>2. AboutStep(Idle) = {}
  BY DEF AboutStep
<1>3. ASSUME NEW v \in Worker PROVE About(job[v]) \subseteq Assoc
  <2>1. CASE Pushes(job[v])
    BY <1>1, <1>2, <2>1, JobCases, FinalShape, NoticeShape DEF About, Pushes
  <2>2. CASE ~ Pushes(job[v])
    BY <1>1, <1>2, <2>2, JobCases DEF About, Pushes
  <2>. QED
    BY <2>1, <2>2
<1>4. ASSUME NEW v \in Worker, NEW i \in DOMAIN wire[v]
      PROVE  DOMAIN wire[v][i].objects \subseteq Assoc
  <2>1. wire[v][i] \in GoodNotices
    BY <1>4, JobCases
  <2>. QED
    BY <2>1, NoticeShape
<1>5. Lost \subseteq Assoc
  BY DEF Lost
<1>. QED
  BY <1>3, <1>4, <1>5 DEF Open, OnWire

\* Nothing about a closed association is on its way or to be told.
LEMMA ClosedIsQuiet ==
  ASSUME IInv, NEW a \in Assoc \ Open, NEW v \in Worker
  PROVE  ~ AboutIn(Coming(v), a) /\ a \notin AboutStep(Rest(job[v]))
<1>1. a \notin About(job[v]) /\ \A i \in DOMAIN wire[v] : a \notin DOMAIN wire[v][i].objects
  BY DEF Open, OnWire
<1>2. CASE ~ Pushes(job[v])
  BY <1>1, <1>2 DEF Coming, AboutIn, IsAbout, Rest, About, Pushes
<1>3. CASE Pushes(job[v])
  <2>1. a \notin DOMAIN job[v].notice.objects /\ a \notin AboutStep(job[v].next)
    BY <1>1, <1>3 DEF About, Pushes
  <2>2. wire[v] \in Seq(GoodNotices) /\ job[v].notice \in GoodNotices
    BY <1>3, JobCases
  <2>3. ~ AboutIn(wire[v], a) /\ ~ IsAbout(job[v].notice, a)
    BY <1>1, <2>1 DEF AboutIn, IsAbout
  <2>4. ~ AboutIn(Append(wire[v], job[v].notice), a)
    BY <2>2, <2>3, AppendNotice
  <2>. QED
    BY <1>3, <2>1, <2>4 DEF Coming, Rest
<1>. QED
  BY <1>2, <1>3

\* What agents hold of a closed association fits.
LEMMA ClosedFits ==
  ASSUME IInv, Agreement, NEW a \in Assoc \ Open
  PROVE  FitsShown(Truth[a], Sight[a])
<1>1. known[a] \in Futures(a)
  BY ClosedIsQuiet DEF Futures
<1>2. CASE assocs[a] = None /\ known[a] = None
  BY <1>2 DEF Sight, Truth, Shown, FitsShown
<1>3. CASE assocs[a] # None \/ known[a] # None
  <2>1. PICK b, on : b = Subject(a, known[a]).bgpvpn /\ on = Subject(a, known[a]).on
    OBVIOUS
  <2>2. /\ b \in Bgpvpn /\ on \in Resource
        /\ assocs[a] # None => assocs[a].bgpvpn = b /\ assocs[a].on = on
        /\ assocs[a] = None => known[a].bgpvpn = b /\ known[a].on = on
    BY <1>3, <2>1 DEF Subject, IInv, TablesOK, AgentsOK, AssocRow, GoodObjects, Objects
  <2>3. b \notin raced /\ on \notin gone /\ (on \in Port => vpns[b] # None)
    BY <1>3, <2>1 DEF Open, Lost, Subject, Exists
  <2>4. Mentions(a, b, on)
    BY <1>3, <2>2 DEF Mentions, Matches
  <2>5. Settled(a, b, known[a])
    BY <1>1, <2>2, <2>3, <2>4 DEF Agreement, Settling
  <2>6. Fits(a, known[a])
    BY <2>5, ClosedIsQuiet DEF Settled, Awaits
  <2>7. known[a] # None => known[a].bgpvpn = b /\ known[a].on = on
    BY <1>1, <2>2, <2>4, MentionedOnce DEF Agreement, Matches
  <2>8. CASE on \in Port
    <3>1. AgreesOnPort(a, known[a])
      BY <1>3, <2>2, <2>6, <2>8 DEF Fits, Subject
    <3>2. assocs[a] # None
      BY <1>3, <2>2, <2>3, <2>8, <3>1 DEF AgreesOnPort
    <3>3. known[a] # None /\ known[a].flag = assocs[a].flag
      BY <3>1, <3>2 DEF AgreesOnPort
    <3>4. /\ Object(a).bgpvpn = b /\ Object(a).on = on /\ Object(a).flag = assocs[a].flag
          /\ Object(a) # None
      <4>1. Object(a) \in Objects
        BY <3>2, ObjectGood DEF IInv, Rows, GoodObjects
      <4>. QED
        BY <2>2, <2>8, <3>2, <4>1, NoneAssumption DEF Object
    <3>5. Shown(Object(a)) = Shown(known[a])
      BY <2>7, <2>8, <3>3, <3>4 DEF Shown
    <3>6. Truth[a] = Sight[a]
      BY <3>2, <3>5 DEF Truth, Sight
    <3>. QED
      BY <3>6 DEF FitsShown, AsStored
  <2>9. CASE on \notin Port
    <3>1. Agrees(a, known[a])
      BY <1>3, <2>2, <2>6, <2>9 DEF Fits, Subject
    <3>2. assocs[a] # None /\ known[a] # None
      BY <1>3, <3>1 DEF Agrees
    <3>3. AsStored(Object(a), known[a])
      BY <3>1, <3>2 DEF Agrees
    <3>4. Object(a).on = on /\ Object(a) # None
      <4>1. Object(a) \in Objects
        BY <3>2, ObjectGood DEF IInv, Rows, GoodObjects
      <4>. QED
        BY <2>2, <3>2, <4>1, NoneAssumption DEF Object
    <3>5. Truth[a] = Object(a) /\ Sight[a] = known[a]
      BY <2>7, <2>9, <3>2, <3>4 DEF Truth, Sight, Shown
    <3>. QED
      BY <2>7, <2>9, <3>2, <3>3, <3>4, <3>5 DEF FitsShown
  <2>. QED
    BY <2>8, <2>9
<1>. QED
  BY <1>2, <1>3

ViewOK ==
  /\ Truth \in [Assoc -> Values] /\ Sight \in [Assoc -> Values] /\ Open \subseteq Assoc
  /\ \A a \in Rows : Object(a) \in Objects
  /\ \A a \in Assoc \ Open : FitsShown(Truth[a], Sight[a])

LEMMA ViewGood ==
  ASSUME IInv, Agreement
  PROVE  ViewOK
<1>1. \A a \in Rows : Object(a) \in Objects
  BY ObjectGood DEF IInv, GoodObjects
<1>. QED
  BY <1>1, Typed, OpenTyped, ClosedFits DEF ViewOK

\* Agents learn of nothing but what is on its way.
LEMMA SightKept ==
  ASSUME IInv, [Next]_vars, NEW a \in Assoc \ Open
  PROVE  Sight'[a] = Sight[a]
<1>1. ASSUME NEW w \in Worker, Deliver(w) PROVE known'[a] = known[a]
  <2>1. wire[w] # <<>> /\ known' = Learn(Head(wire[w])) /\ wire[w] \in Seq(GoodNotices)
    BY <1>1, JobCases DEF Deliver
  <2>2. 1 \in DOMAIN wire[w] /\ Head(wire[w]) = wire[w][1]
    BY <2>1
  <2>3. a \notin DOMAIN Head(wire[w]).objects
    BY <2>2 DEF Open, OnWire
  <2>. QED
    BY <2>1, <2>3 DEF Learn
<1>2. ASSUME NEW w \in Worker, Begin(w) PROVE known' = known
  BY <1>2 DEF Begin, CreateBgpvpn, BeginUpdate, BeginDeleteBgpvpn, CreateAssoc,
     UpdatePortAssoc, UpdateRouterAssoc, BeginDeleteAssoc, AddInterface, BeginRemoveInterface
<1>3. ASSUME NEW w \in Worker, Proceed(w) PROVE known' = known
  BY <1>3 DEF Proceed, CommitUpdate, RefuseUpdate, CommitDeleteBgpvpn, CommitDeleteAssoc,
     CommitRemoveInterface, Build, Push
<1>4. ASSUME NEW w \in Worker, Rollback(w) \/ Crash(w) \/ Swallow(w) PROVE known' = known
  BY <1>4 DEF Rollback, Crash, Swallow
<1>5. ASSUME NEW x \in Resource, DeleteResource(x) PROVE known' = known
  BY <1>5 DEF DeleteResource
<1>6. UNCHANGED vars => known' = known
  BY DEF vars
<1>7. known'[a] = known[a]
  BY <1>1, <1>2, <1>3, <1>4, <1>5, <1>6 DEF Next
<1>. QED
  BY <1>7 DEF Sight, Shown

\* A network gets and loses a gateway only while its associations are open.
LEMMA GatewayKept ==
  ASSUME IInv, [Next]_vars, NEW a \in Assoc \ (Open \cup Open'), NEW on \in Network,
         assocs[a] # None, assocs[a].on = on, NEW r \in Router
  PROVE  <<r, on>> \in plugged' <=> <<r, on>> \in plugged
<1>1. ASSUME NEW w \in Worker, NEW s \in Router, NEW n \in Network, AddInterface(w, s, n)
      PROVE  <<r, on>> \in plugged' <=> <<r, on>> \in plugged
  <2>1. PICK j : j = [step |-> "tell_network", on |-> Bgpvpn, network |-> n]
    OBVIOUS
  <2>2. plugged' = plugged \cup {<<s, n>>} /\ assocs' = assocs /\ job' = [job EXCEPT ![w] = j]
    BY <1>1, <2>1 DEF AddInterface
  <2>3. j # Idle /\ j.step = "tell_network" /\ j.network = n
    BY <2>1, SimpleIsJob, IdleAssumption
  <2>4. job'[w] = j
    BY <2>2, JobAfter
  <2>5. About(job[w])' = OnNetwork(n)'
    BY <2>3, <2>4 DEF About, AboutStep
  <2>6. a \notin OnNetwork(n)'
    BY <2>5 DEF Open
  <2>7. on # n
    BY <2>2, <2>6 DEF OnNetwork, Rows
  <2>. QED
    BY <2>2, <2>7
<1>2. ASSUME NEW w \in Worker, CommitRemoveInterface(w)
      PROVE  <<r, on>> \in plugged' <=> <<r, on>> \in plugged
  <2>1. /\ job[w] # Idle /\ job[w].step = "unplug" /\ plugged' = plugged \ {job[w].interface}
    BY <1>2 DEF CommitRemoveInterface
  <2>2. job[w].interface \in Router \X Network
    BY <2>1, JobCases, JobShape
  <2>3. PICK s \in Router, n \in Network : job[w].interface = <<s, n>>
    BY <2>2
  <2>4. About(job[w]) = OfInterface(s, n)
    BY <2>1, <2>3 DEF About, AboutStep
  <2>5. on # n
    BY <2>4 DEF Open, OfInterface, Rows
  <2>. QED
    BY <2>1, <2>3, <2>5
<1>3. ASSUME NEW w \in Worker, NEW s \in Router, NEW n \in Network, BeginRemoveInterface(w, s, n)
      PROVE  plugged' = plugged
  BY <1>3 DEF BeginRemoveInterface, neutronVars
<1>4. ASSUME NEW w \in Worker, Begin(w),
             ~ \E s \in Router, n \in Network : AddInterface(w, s, n)
      PROVE  plugged' = plugged
  BY <1>3, <1>4 DEF Begin, CreateBgpvpn, BeginUpdate, BeginDeleteBgpvpn, CreateAssoc,
     UpdatePortAssoc, UpdateRouterAssoc, BeginDeleteAssoc, neutronVars
<1>5. ASSUME NEW w \in Worker, Proceed(w), ~ CommitRemoveInterface(w) PROVE plugged' = plugged
  BY <1>5 DEF Proceed, CommitUpdate, RefuseUpdate, CommitDeleteBgpvpn, CommitDeleteAssoc,
     Build, Push, neutronVars
<1>6. ASSUME NEW w \in Worker, Deliver(w) \/ Rollback(w) \/ Crash(w) \/ Swallow(w)
      PROVE  plugged' = plugged
  BY <1>6 DEF Deliver, Rollback, Crash, Swallow, neutronVars
<1>7. ASSUME NEW x \in Resource, DeleteResource(x) PROVE plugged' = plugged
  BY <1>7 DEF DeleteResource
<1>8. UNCHANGED vars => plugged' = plugged
  BY DEF vars, neutronVars
<1>. QED
  BY <1>1, <1>2, <1>4, <1>5, <1>6, <1>7, <1>8 DEF Next

\* What the database holds changes only while an association is open.
LEMMA TruthKept ==
  ASSUME IInv, ViewOK, ViewOK', [Next]_vars, NEW a \in Assoc \ (Open \cup Open')
  PROVE  Truth'[a] = Truth[a]
<1>1. PICK t, u, s : t = Truth[a] /\ u = Truth'[a] /\ s = Sight[a]
  OBVIOUS
<1>2. FitsShown(t, s)
  BY <1>1 DEF ViewOK
<1>3. FitsShown(u, s)
  <2>1. FitsShown(Truth'[a], Sight'[a])
    BY DEF ViewOK, FitsShown, AsStored
  <2>2. Sight'[a] = s
    BY <1>1, SightKept
  <2>. QED
    BY <1>1, <2>1, <2>2
<1>4. CASE t = None \/ u = None
  BY <1>1, <1>2, <1>3, <1>4 DEF FitsShown
<1>5. CASE t # None /\ u # None
  <2>1. assocs[a] # None /\ t = Shown(Object(a))
    BY <1>1, <1>5 DEF Truth
  <2>2. assocs'[a] # None /\ u = Shown(Object(a)')
    BY <1>1, <1>5 DEF Truth, Shown
  <2>3. Object(a) \in Objects /\ Object(a)' \in Objects
    <3>1. (\A e \in Rows : Object(e) \in Objects)'
      BY DEF ViewOK
    <3>2. a \in Rows /\ a \in Rows'
      BY <2>1, <2>2 DEF Rows
    <3>3. Object(a)' \in Objects
      BY <3>1, <3>2
    <3>. QED
      BY <3>2, <3>3 DEF ViewOK
  <2>4. t.on = Object(a).on /\ u.on = Object(a)'.on
    BY <2>1, <2>2, <2>3, NoneAssumption DEF Shown
  <2>5. CASE t.on \in Port \/ u.on \in Port
    <3>1. s # None
      BY <1>2, <1>5 DEF FitsShown
    <3>. QED
      BY <1>1, <1>2, <1>3, <1>5, <2>5, <3>1 DEF FitsShown, AsStored
  <2>6. CASE t.on \notin Port /\ u.on \notin Port
    <3>1. t = Object(a) /\ u = Object(a)'
      BY <2>1, <2>2, <2>3, <2>4, <2>6, NoneAssumption DEF Shown
    <3>2. AsStored(t, s) /\ AsStored(u, s) /\ s # None
      BY <1>2, <1>3, <1>5, <2>6 DEF FitsShown
    <3>3. u.bgpvpn = t.bgpvpn /\ u.on = t.on /\ u.rt = t.rt /\ u.flag = t.flag
      BY <3>2 DEF AsStored
    <3>4. PICK on : on = t.on
      OBVIOUS
    <3>5. on \in Network \cup Router
      BY <2>3, <2>6, <3>1, <3>4 DEF Objects, Resource
    <3>6. assocs[a].on = on /\ assocs'[a].on = on
      <4>1. Object(a).on = assocs[a].on /\ Object(a)'.on = assocs'[a].on
        BY DEF Object
      <4>. QED
        BY <3>1, <3>3, <3>4, <4>1
    <3>7. CASE on \in Router
      <4>1. on \notin Network
        BY <3>7, KindAssumption
      <4>2. t.nets = t.gateways
        BY <3>1, <3>6, <3>7, <4>1 DEF Object, NetsOf
      <4>3. u.nets = u.gateways
        BY <3>1, <3>6, <3>7, <4>1 DEF Object, NetsOf
      <4>4. t.gateways = u.gateways
        BY <3>2, <3>3, <3>4, <3>7 DEF AsStored
      <4>. QED
        BY <1>1, <2>3, <3>1, <3>3, <4>2, <4>3, <4>4 DEF Objects
    <3>8. CASE on \in Network
      <4>1. t.nets = {on} /\ u.nets = {on}
        BY <3>1, <3>6, <3>8 DEF Object, NetsOf
      <4>2. \A r \in Router : <<r, on>> \in plugged' <=> <<r, on>> \in plugged
        BY <2>1, <3>6, <3>8, GatewayKept
      <4>3. t.gateways = {n \in {on} : \E r \in Router : <<r, n>> \in plugged}
        BY <3>1, <3>6, <3>8 DEF Object, NetsOf
      <4>4. u.gateways = {n \in {on} : \E r \in Router : <<r, n>> \in plugged'}
        BY <3>1, <3>6, <3>8 DEF Object, NetsOf
      <4>5. t.gateways = u.gateways
        BY <4>2, <4>3, <4>4
      <4>. QED
        BY <1>1, <2>3, <3>1, <3>3, <4>1, <4>5 DEF Objects
    <3>. QED
      BY <3>5, <3>7, <3>8
  <2>. QED
    BY <2>5, <2>6
<1>. QED
  BY <1>4, <1>5

\* Every behaviour of the driver is one of EventualView, for any number of workers
\* and requests, whatever overlaps and whatever fails.  An association of a BGPVPN
\* that did not race is open only while a request or a notice is about it itself;
\* else agents hold of it what the database holds, its networks and gateways
\* included, with the exceptions that AsStored and Shown name: a router's list of
\* networks may have more, a network may lack its gateway, and of a port only the
\* flag counts.
THEOREM KeepsPromiseCorrect == Spec => KeepsPromise
<1>1. IInv /\ Agreement => ViewOK
  BY ViewGood
<1>2. Init => View!Init
  <2>. SUFFICES ASSUME Init PROVE View!Init
    OBVIOUS
  <2>1. /\ assocs = [a \in Assoc |-> None] /\ known = [a \in Assoc |-> None]
        /\ job = [w \in Worker |-> Idle] /\ wire = [w \in Worker |-> <<>>]
    BY DEF Init
  <2>2. Truth \in [Assoc -> Values] /\ Sight \in [Assoc -> Values]
    BY <2>1 DEF Truth, Sight, Shown, Values
  <2>3. \A a \in Assoc : FitsShown(Truth[a], Sight[a])
    BY <2>1 DEF Truth, Sight, Shown, FitsShown
  <2>4. Open = {}
    BY <2>1 DEF Open, OnWire, Lost, Subject, About, AboutStep
  <2>. QED
    BY <2>2, <2>3, <2>4 DEF View!Init, View!Fitting, Truth, Sight, Values, Open, OnWire
<1>3. IInv /\ ViewOK /\ ViewOK' /\ [Next]_vars => [View!Next]_(View!vars)
  <2>. SUFFICES ASSUME IInv, ViewOK, ViewOK', [Next]_vars PROVE View!Next
    OBVIOUS
  <2>1. Truth' \in [Assoc -> Values] /\ Sight' \in [Assoc -> Values] /\ Open' \subseteq Assoc
    BY DEF ViewOK, Values
  <2>2. \A a \in Assoc \ Open' : FitsShown(Truth'[a], Sight'[a])
    BY DEF ViewOK, FitsShown, AsStored
  <2>3. \A a \in Assoc \ Open : Sight'[a] = Sight[a]
    BY SightKept
  <2>4. \A a \in Assoc \ (Open \cup Open') : Truth'[a] = Truth[a]
    BY TruthKept
  <2>. QED
    BY <2>1, <2>2, <2>3, <2>4 DEF View!Next, View!Fitting, Truth, Sight, Values, Open, OnWire
<1>. QED
  BY <1>1, <1>2, <1>3, AgreementCorrect, PTL DEF Spec, KeepsPromise, View!Spec
=============================================================================
