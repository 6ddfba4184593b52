--------------------------- MODULE MCBGPVPNPlugin ---------------------------
(***************************************************************************)
(* Instances of BGPVPNPlugin for TLC: the networks, routers and ports of   *)
(* the runs, whose they are, the symmetries that are sound, and the cases  *)
(* that keep one instance from being the product of several questions.     *)
(***************************************************************************)
EXTENDS BGPVPNPlugin, TLC

CONSTANTS pA, pB, n1, n2, r1, r2, q1, q2

\* The second project owns the second network, router and port, every other
\* resource is the first project's.
MCOwner ==
  [x \in Resource |-> IF x \in {n2, r2, q2} /\ pB \in Project THEN pB ELSE pA]

\* Everything is the first project's.
OneOwner == [x \in Resource |-> pA]

MCNetworkOf == [p \in Port |-> IF p = q2 /\ n2 \in Network THEN n2 ELSE n1]

Symmetry == Permutations(Worker) \cup Permutations(BgpvpnId)

-----------------------------------------------------------------------------
(***************************************************************************)
(* The cases.                                                              *)
(***************************************************************************)

Serving(ops) == \E w \in Worker : \E op \in ops : Serves(w, op)

\* Nothing of this kind is going on, or has left a trace.
NoPortBusiness == portAssocs = {} /\ ~ Serving({"port", "port_update"})

NoNetworkBusiness ==
  /\ netAssocs = {} /\ routerAssocs = {} /\ interfaces = {}
  /\ ~ Serving({"net", "router", "interface"})

\* Updates of BGPVPNs change names and route targets only, and the instances
\* that leave updates out have one of each.
NoBgpvpnUpdate ==
  /\ ~ Serving({"bgpvpn_update"})
  /\ \A b \in BgpvpnId : Live(b) =>
       /\ bgpvpns[b].name = CHOOSE x \in Name : TRUE
       /\ bgpvpns[b].rt = CHOOSE x \in RT : TRUE

OneAtATime == Cardinality({w \in Worker : req[w] # Idle}) <= 1

AtMostOneBgpvpn == Cardinality(uuids) <= 1

OnlyOf(project) ==
  /\ \A b \in BgpvpnId : Live(b) => bgpvpns[b].project = project
  /\ \A w \in Worker : req[w] # Idle => req[w].ctx \in {project, Admin}

\* Only these may have been deleted.
OnlyGone(rs) == Resource \ rs \subseteq resources

\* One request at a time for networks, routers and their interfaces.
Networks ==
  /\ NoPortBusiness /\ NoBgpvpnUpdate /\ OnlyGone(Network \cup Router)
  /\ OneAtATime /\ OnlyOf(pA)

\* One request at a time for the port q1, or two with one BGPVPN.
Ports ==
  /\ NoNetworkBusiness /\ NoBgpvpnUpdate /\ OnlyGone({n1, q1})
  /\ OneAtATime \/ (AtMostOneBgpvpn /\ OnlyOf(pA))

\* Two updates at a time of one BGPVPN.
Updates ==
  NoNetworkBusiness /\ NoPortBusiness /\ AtMostOneBgpvpn /\ OnlyGone({})

\* One run for all of them, as cases of one instance and not their product.
OneKind == Networks \/ Ports \/ Updates

=============================================================================
