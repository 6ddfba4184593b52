----------------------------- MODULE Dashboard -----------------------------
(***************************************************************************)
(* The Horizon panels (bgpvpn_dashboard): the forms that users of the      *)
(* project panel and administrators open and submit, each a copy of what   *)
(* Neutron had when it was opened, and the workflow that associates a      *)
(* router in several calls.  Neutron is external: it may refuse any call,  *)
(* and other clients change what it holds.                                 *)
(***************************************************************************)
EXTENDS Naturals, Sequences

CONSTANTS
  User,            \* the users that have a browser open
  Admin,           \* those that are administrators
  BgpvpnId, AssocId,
  Resource,        \* the networks and routers
  Router,          \* the routers among them
  Name, Target,    \* names, and route targets
  MaxTargets,      \* bound: how many route targets are entered at once
  WithParameters,  \* whether users open the tab with the optional parameters
  None

ASSUME AdminAssumption == Admin \subseteq User
ASSUME BoundAssumption == MaxTargets \in Nat

\* What an administrator may set as the route targets.
Targets == UNION {[1..n -> Target] : n \in 0..MaxTargets}

VARIABLES
  bgpvpns,    \* Neutron: the BGPVPNs
  assocs,     \* Neutron: the associations
  used,       \* Neutron: the ids given so far
  form,       \* the form that each user has open
  answer,     \* what each user was told of the form submitted last
  chosen,     \* history: the route targets chosen last for each BGPVPN
  overtaken,  \* history: BGPVPNs saved from an admin form with old route targets
  asked       \* history: what was asked of each association

neutron == <<bgpvpns, assocs, used>>
history == <<chosen, overtaken, asked>>
vars == <<neutron, form, answer, history>>

-----------------------------------------------------------------------------
With(f, x, value) == [y \in DOMAIN f \cup {x} |-> IF y = x THEN value ELSE f[y]]

Restrict(f, S) == [x \in S |-> f[x]]

\* A text is a sequence of route targets, with a comma between two.
JoinRts(targets) ==
  [i \in 1..(IF targets = <<>> THEN 0 ELSE 2 * Len(targets) - 1) |->
     IF i % 2 = 1 THEN targets[(i + 1) \div 2] ELSE ","]

\* What is between the commas.
FormatRt(text) == [i \in 1..((Len(text) + 1) \div 2) |-> text[2 * i - 1]]

\* Mutant: the project panel has the fields of the admin panel.
FieldsOfBoth(panel) == {"name", "targets"}

\* The fields of the edit form that are sent.
Fields(panel) == IF panel = "admin" THEN {"name", "targets"} ELSE {"name"}

Answer(u, what) == answer' = [answer EXCEPT ![u] = what] /\ form' = [form EXCEPT ![u] = None]

\* Neutron refuses, and the handler reports it and goes to the failure page.
Refused(u) == Answer(u, "error") /\ UNCHANGED <<neutron, history>>

Submits(u, page) == form[u] # None /\ form[u].page = page

Open(u, f) == form[u] = None /\ form' = [form EXCEPT ![u] = f] /\ UNCHANGED <<neutron, answer, history>>

-----------------------------------------------------------------------------
(***************************************************************************)
(* BGPVPNs.                                                                *)
(***************************************************************************)

\* CreateBgpVpn of the admin panel: the form is filled in and sent.
Create(u, b, name, targets) ==
  /\ u \in Admin /\ form[u] = None
  /\ \/ Refused(u)
     \/ /\ b \notin used
        /\ used' = used \cup {b}
        /\ bgpvpns' = With(bgpvpns, b, [name |-> name, targets |-> FormatRt(JoinRts(targets))])
        /\ chosen' = [chosen EXCEPT ![b] = targets]
        /\ Answer(u, "ok") /\ UNCHANGED <<assocs, overtaken, asked>>

\* EditDataView.get_initial.
OpenEdit(u, panel, b) ==
  /\ panel = "admin" => u \in Admin
  /\ b \in DOMAIN bgpvpns
  /\ Open(u, [page |-> "edit", panel |-> panel, bgpvpn |-> b, name |-> bgpvpns[b].name,
              text |-> JoinRts(bgpvpns[b].targets)])

\* EditDataBgpVpn.handle: the user has changed the name, the route targets,
\* both, or nothing.
SubmitEdit(u, name, text) ==
  /\ Submits(u, "edit")
  /\ LET f == form[u]
         b == f.bgpvpn
         params == [name |-> name, targets |-> FormatRt(text)]
         shown == FormatRt(f.text)
     IN \/ Refused(u)
        \/ /\ b \in DOMAIN bgpvpns
           /\ f.panel = "project" => text = f.text
           /\ bgpvpns' = [bgpvpns EXCEPT ![b] =
                [k \in DOMAIN @ |-> IF k \in Fields(f.panel) THEN params[k] ELSE @[k]]]
           /\ chosen' = [chosen EXCEPT ![b] = IF text = f.text THEN @ ELSE params.targets]
           /\ overtaken' = IF f.panel = "admin" /\ shown # bgpvpns[b].targets
                           THEN overtaken \cup {b} ELSE overtaken
           /\ Answer(u, "ok") /\ UNCHANGED <<assocs, used, asked>>

WithoutBgpvpn(b) ==
  /\ bgpvpns' = Restrict(bgpvpns, DOMAIN bgpvpns \ {b})
  /\ assocs' = Restrict(assocs, {a \in DOMAIN assocs : assocs[a].bgpvpn # b})

\* The tables delete by themselves, without a form.
DeleteBgpvpn(u, b) ==
  /\ u \in Admin /\ form[u] = None /\ b \in DOMAIN bgpvpns
  /\ \/ Refused(u)
     \/ WithoutBgpvpn(b) /\ Answer(u, "ok") /\ UNCHANGED <<used, history>>

-----------------------------------------------------------------------------
(***************************************************************************)
(* Associations.                                                           *)
(***************************************************************************)

OpenAssociate(u, b) ==
  b \in DOMAIN bgpvpns /\ Open(u, [page |-> "associate", bgpvpn |-> b])

\* A new association advertises the extra routes of its router.
Associated(b, x, a, extra) ==
  /\ b \in DOMAIN bgpvpns /\ a \notin used
  /\ \A other \in DOMAIN assocs : assocs[other].bgpvpn = b => assocs[other].resource # x
  /\ used' = used \cup {a}
  /\ assocs' = With(assocs, a, [bgpvpn |-> b, resource |-> x, extra |-> TRUE])
  /\ asked' = [asked EXCEPT ![a] = extra]
  /\ UNCHANGED <<bgpvpns, chosen, overtaken>>

\* CreateNetworkAssociation.handle, and RouterAssociation.handle without the
\* optional parameters.
SubmitAssociate(u, x, a) ==
  /\ Submits(u, "associate")
  /\ \/ Refused(u)
     \/ Associated(form[u].bgpvpn, x, a, TRUE) /\ Answer(u, "ok")

\* RouterAssociation.handle with the optional parameters.  The id to update is
\* read under a key that the answer does not have: KeyError, which nobody
\* catches, so that neither the update nor the clean-up after it is reached.
SubmitWithParameters(u, r, a, extra) ==
  /\ WithParameters
  /\ Submits(u, "associate")
  /\ \/ Refused(u)
     \/ Associated(form[u].bgpvpn, r, a, extra) /\ Answer(u, "failure")

OpenUpdate(u, a) ==
  a \in DOMAIN assocs /\ assocs[a].resource \in Router /\ Open(u, [page |-> "update", assoc |-> a])

\* UpdateRouterAssociation.handle: when Neutron refuses, the except clause names
\* a module and raises TypeError.
SubmitUpdate(u, extra) ==
  /\ Submits(u, "update")
  /\ \/ Answer(u, "failure") /\ UNCHANGED <<neutron, history>>
     \/ /\ form[u].assoc \in DOMAIN assocs
        /\ assocs' = [assocs EXCEPT ![form[u].assoc].extra = extra]
        /\ asked' = [asked EXCEPT ![form[u].assoc] = extra]
        /\ Answer(u, "ok") /\ UNCHANGED <<bgpvpns, used, chosen, overtaken>>

DeleteAssoc(u, a) ==
  /\ form[u] = None /\ a \in DOMAIN assocs
  /\ \/ Refused(u)
     \/ /\ assocs' = Restrict(assocs, DOMAIN assocs \ {a})
        /\ Answer(u, "ok") /\ UNCHANGED <<bgpvpns, used, history>>

\* Other clients.
ClientSets(b, targets) ==
  /\ b \in DOMAIN bgpvpns
  /\ bgpvpns' = [bgpvpns EXCEPT ![b].targets = targets]
  /\ chosen' = [chosen EXCEPT ![b] = targets]
  /\ UNCHANGED <<assocs, used, form, answer, overtaken, asked>>

-----------------------------------------------------------------------------
Init ==
  /\ bgpvpns = <<>> /\ assocs = <<>> /\ used = {}
  /\ form = [u \in User |-> None] /\ answer = [u \in User |-> None]
  /\ chosen = [b \in BgpvpnId |-> <<>>] /\ overtaken = {}
  /\ asked = [a \in AssocId |-> TRUE]

BgpvpnNext(u) ==
  \/ \E b \in BgpvpnId, name \in Name, targets \in Targets : Create(u, b, name, targets)
  \/ \E b \in BgpvpnId : DeleteBgpvpn(u, b) \/ \E panel \in {"project", "admin"} : OpenEdit(u, panel, b)
  \/ \E name \in Name, targets \in Targets : SubmitEdit(u, name, JoinRts(targets))

AssocNext(u) ==
  \/ \E b \in BgpvpnId : OpenAssociate(u, b)
  \/ \E x \in Resource, a \in AssocId : SubmitAssociate(u, x, a)
  \/ \E r \in Router, a \in AssocId, extra \in BOOLEAN : SubmitWithParameters(u, r, a, extra)
  \/ \E a \in AssocId : OpenUpdate(u, a) \/ DeleteAssoc(u, a)
  \/ \E extra \in BOOLEAN : SubmitUpdate(u, extra)

Next ==
  \/ \E u \in User : BgpvpnNext(u) \/ AssocNext(u)
  \/ \E b \in BgpvpnId, targets \in Targets : ClientSets(b, targets)

Spec == Init /\ [][Next]_vars

-----------------------------------------------------------------------------
\* The route targets of a BGPVPN stay as they were chosen last, whatever forms
\* were opened before and are saved after: only an administrator who saves a form
\* that shows old route targets brings them back.  Users of the project panel
\* never do ("only the name", doc/source/user/horizon.rst).
ChosenTargetsStay ==
  \A b \in DOMAIN bgpvpns \ overtaken : bgpvpns[b].targets = chosen[b]

\* Each association advertises extra routes as the user asked who made it or
\* changed it last.
AssociationsAsAsked == \A a \in DOMAIN assocs : assocs[a].extra = asked[a]
=============================================================================
