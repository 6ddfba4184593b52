-------------------------- MODULE BgpvpnApiProofs --------------------------
(***************************************************************************)
(* Theorems about BgpvpnApi: what tenants choose, see and find.            *)
(***************************************************************************)
EXTENDS BgpvpnApi, TLAPS

-----------------------------------------------------------------------------
(***************************************************************************)
(* The inductive invariant: every row has its columns.                     *)
(***************************************************************************)

Columned(row) == DOMAIN row = Attr \cup {"project_id"}

IInv ==
  /\ DOMAIN bgpvpns = BgpvpnId
  /\ \A b \in BgpvpnId : Live(b) => Columned(bgpvpns[b])

\* What an update makes of a row.
LEMMA UpdatedColumns ==
  ASSUME NEW row, NEW body
  PROVE  /\ DOMAIN Updated(row, Columns(body)) = DOMAIN row \cup DOMAIN body
         /\ \A k \in DOMAIN row \ DOMAIN body : Updated(row, Columns(body))[k] = row[k]
  BY DEF Updated, Columns

\* project_id is not among the attributes.
LEMMA ProjectIsNoAttr == "project_id" \notin Attr
  BY AttrAssumption DEF ListAttr

\* What a body has.
LEMMA BodyKeys ==
  ASSUME NEW S, NEW body \in Bodies(S)
  PROVE  DOMAIN body = S
  BY DEF Bodies

-----------------------------------------------------------------------------
(***************************************************************************)
(* What a step may do to a row: it goes, or it comes from an administrator, *)
(* or it keeps its project and what administrators alone set.              *)
(***************************************************************************)

Changes(b, row) ==
  \/ row = NoRow
  \/ Columned(row) /\ answer'.to = Admin
  \/ /\ Columned(row) /\ Live(b) /\ row.project_id = bgpvpns[b].project_id
     /\ \A k \in Attr \cap AdminUpdates : row[k] = bgpvpns[b][k]

RowsKept == bgpvpns' = bgpvpns
OneRow == \E b \in BgpvpnId : \E row : bgpvpns' = [bgpvpns EXCEPT ![b] = row] /\ Changes(b, row)

LEMMA CreateChanges ==
  ASSUME NEW ctx \in Context, NEW b \in BgpvpnId, NEW project \in Project,
         NEW body \in Bodies(Attr), CreateBgpvpn(ctx, b, project, body)
  PROVE  RowsKept \/ OneRow
<1>1. CASE Permits(ctx, "create_bgpvpn", project)
  <2>1. ctx = Admin  BY <1>1 DEF Permits, AdminActions
  <2> DEFINE row == Updated([project_id |-> project], Columns(body))
  <2>2. Columned(row)
    <3>1. DOMAIN row = DOMAIN [project_id |-> project] \cup DOMAIN body
      BY UpdatedColumns
    <3>2. DOMAIN body = Attr  BY BodyKeys
    <3>3. DOMAIN [project_id |-> project] = {"project_id"}  OBVIOUS
    <3> HIDE DEF row
    <3> QED  BY <3>1, <3>2, <3>3 DEF Columned
  <2>3. bgpvpns' = [bgpvpns EXCEPT ![b] = row] /\ answer'.to = Admin
    BY <1>1, <2>1 DEF CreateBgpvpn, Answers
  <2> QED  BY <2>2, <2>3 DEF OneRow, Changes
<1>2. CASE ~ Permits(ctx, "create_bgpvpn", project)
  BY <1>2 DEF CreateBgpvpn, Refuses, tables, RowsKept
<1> QED  BY <1>1, <1>2

LEMMA UpdateChanges ==
  ASSUME IInv, NEW ctx \in Context, NEW b \in BgpvpnId, NEW k \in Attr,
         NEW body \in Bodies({k}), UpdateBgpvpn(ctx, b, body)
  PROVE  RowsKept \/ OneRow
<1>1. CASE PermitsUpdate(ctx, body, bgpvpns[b].project_id)
  <2> DEFINE row == Updated(bgpvpns[b], Columns(body))
  <2>1. Live(b) /\ Columned(bgpvpns[b])  BY DEF UpdateBgpvpn, IInv
  <2>2. DOMAIN body = {k}  BY BodyKeys
  <2>3. Columned(row)
    <3>1. DOMAIN row = DOMAIN bgpvpns[b] \cup DOMAIN body
      BY UpdatedColumns
    <3> HIDE DEF row
    <3> QED  BY <2>1, <2>2, <3>1 DEF Columned
  <2>4. row.project_id = bgpvpns[b].project_id
    BY <2>1, <2>2, UpdatedColumns, ProjectIsNoAttr DEF Columned
  <2>5. bgpvpns' = [bgpvpns EXCEPT ![b] = row] /\ answer'.to = ctx
    BY <1>1 DEF UpdateBgpvpn, Answers
  <2>6. CASE ctx = Admin
    BY <2>3, <2>5, <2>6 DEF OneRow, Changes
  <2>7. CASE ctx # Admin
    <3>1. k \notin AdminUpdates  BY <1>1, <2>2, <2>7 DEF PermitsUpdate
    <3>2. \A c \in Attr \cap AdminUpdates : row[c] = bgpvpns[b][c]
      BY <2>1, <2>2, <3>1, UpdatedColumns DEF Columned
    <3> QED  BY <2>1, <2>3, <2>4, <2>5, <3>2 DEF OneRow, Changes
  <2> QED  BY <2>6, <2>7
<1>2. CASE ~ PermitsUpdate(ctx, body, bgpvpns[b].project_id)
  BY <1>2 DEF UpdateBgpvpn, Refuses, tables, RowsKept
<1> QED  BY <1>1, <1>2

LEMMA DeleteChanges ==
  ASSUME NEW ctx, NEW b \in BgpvpnId, DeleteBgpvpn(ctx, b)
  PROVE  RowsKept \/ OneRow
BY DEF DeleteBgpvpn, Refuses, tables, RowsKept, OneRow, Changes

LEMMA AssocKeepsRows ==
  ASSUME NEW ctx, AssocNext(ctx)
  PROVE  RowsKept
BY DEF AssocNext, CreateNetAssoc, CreatePortAssoc, CreateRouterAssoc, UpdateRouterAssoc,
       DeleteNetAssoc, DeletePortAssoc, DeleteRouterAssoc, RowsKept

LEMMA RowsStep ==
  ASSUME IInv, [Next]_vars
  PROVE  RowsKept \/ OneRow
<1>1. CASE UNCHANGED vars  BY <1>1 DEF vars, tables, RowsKept
<1>2. ASSUME NEW ctx \in Context, BgpvpnNext(ctx)
      PROVE  RowsKept \/ OneRow
  <2>1. ASSUME NEW filter \in Filter, GetBgpvpns(ctx, filter)
        PROVE  RowsKept
    BY <2>1 DEF GetBgpvpns, tables, RowsKept
  <2> QED  BY <1>2, <2>1, CreateChanges, UpdateChanges, DeleteChanges DEF BgpvpnNext
<1> QED  BY <1>1, <1>2, AssocKeepsRows DEF Next

LEMMA IInvStep ==
  ASSUME IInv, [Next]_vars
  PROVE  IInv'
<1>1. CASE RowsKept  BY <1>1 DEF RowsKept, IInv, Live
<1>2. CASE OneRow
  <2> PICK b \in BgpvpnId : \E row : bgpvpns' = [bgpvpns EXCEPT ![b] = row] /\ Changes(b, row)
    BY <1>2 DEF OneRow
  <2>1. PICK row : bgpvpns' = [bgpvpns EXCEPT ![b] = row] /\ Changes(b, row)  OBVIOUS
  <2> QED  BY <2>1 DEF IInv, Changes, Live, Columned
<1> QED  BY <1>1, <1>2, RowsStep

\* Whatever requests come, a row of the table has its project and its columns.
THEOREM InvariantCorrect == Spec => []IInv
<1>1. Init => IInv  BY DEF Init, IInv, Live
<1>2. IInv /\ [Next]_vars => IInv'  BY IInvStep
<1> QED  BY <1>1, <1>2, PTL DEF Spec

-----------------------------------------------------------------------------
(***************************************************************************)
(* What tenants choose.                                                    *)
(***************************************************************************)

LEMMA ParametersAreForAdmins == VpnParameter \subseteq AdminUpdates /\ VpnParameter \subseteq AdminReads
  BY DEF VpnParameter, ListAttr, AdminUpdates, AdminReads

\* No request of a tenant gives a BGPVPN a route target, a route distinguisher or
\* a VNI, neither its own BGPVPN nor another's (policies/bgpvpn.py).
THEOREM OnlyTheAdminChoosesCorrect == Spec => OnlyTheAdminChooses
<1> DEFINE Choice ==
      \A b \in BgpvpnId, k \in VpnParameter \cap Attr :
        bgpvpns'[b] # NoRow /\ (~ Live(b) \/ bgpvpns'[b][k] # bgpvpns[b][k]) => answer'.to = Admin
<1>1. IInv /\ [Next]_vars => [Choice]_vars
  <2> SUFFICES ASSUME IInv, [Next]_vars  PROVE Choice
    OBVIOUS
  <2>1. CASE RowsKept  BY <2>1 DEF RowsKept, Live
  <2>2. CASE OneRow
    <3> PICK b \in BgpvpnId : \E row : bgpvpns' = [bgpvpns EXCEPT ![b] = row] /\ Changes(b, row)
      BY <2>2 DEF OneRow
    <3>1. PICK row : bgpvpns' = [bgpvpns EXCEPT ![b] = row] /\ Changes(b, row)  OBVIOUS
    <3>2. \A c \in BgpvpnId \ {b} : bgpvpns'[c] = bgpvpns[c]
      BY <3>1
    <3>3. bgpvpns'[b] = row  BY <3>1 DEF IInv
    <3> QED  BY <3>1, <3>2, <3>3, ParametersAreForAdmins DEF Changes, Live
  <2> QED  BY <2>1, <2>2, RowsStep
<1> QED  BY <1>1, InvariantCorrect, PTL DEF Spec, OnlyTheAdminChooses

-----------------------------------------------------------------------------
(***************************************************************************)
(* What tenants see.                                                       *)
(***************************************************************************)

LEMMA TenantView ==
  ASSUME NEW ctx, ctx # Admin, NEW b, NEW row,
         NEW dict, dict = View(ctx, Dict(b, row), AdminReads)
  PROVE  DOMAIN dict \cap VpnParameter = {} /\ dict.id = b
<1>1. dict = [x \in DOMAIN Dict(b, row) \ AdminReads |-> Dict(b, row)[x]]
  BY DEF View, Restrict
<1>2. "id" \in DOMAIN Dict(b, row) \ AdminReads  BY DEF Dict, AdminReads
<1>3. Dict(b, row)["id"] = b  BY DEF Dict, ListAttr
<1> QED  BY <1>1, <1>2, <1>3, ParametersAreForAdmins

\* What is shown for an answer is the caller's.
ShownIsOwn ==
  \A dict \in Shown' :
    /\ DOMAIN dict \cap VpnParameter = {}
    /\ Live(dict.id)' => bgpvpns'[dict.id].project_id = answer'.to

LEMMA NothingShown ==
  ASSUME answer'.what \notin {"list", "bgpvpn"}
  PROVE  ShownIsOwn
BY DEF Shown, ShownIsOwn

LEMMA CreateShows ==
  ASSUME NEW ctx \in Context, ctx # Admin, NEW b \in BgpvpnId, NEW project \in Project,
         NEW body \in Bodies(Attr), CreateBgpvpn(ctx, b, project, body)
  PROVE  ShownIsOwn
<1>1. answer' = [to |-> ctx, what |-> "refused"]
  BY DEF CreateBgpvpn, Permits, AdminActions, Refuses, Answers
<1> QED  BY <1>1, NothingShown

LEMMA UpdateShows ==
  ASSUME IInv, NEW ctx \in Context, ctx # Admin, NEW b \in BgpvpnId, NEW k \in Attr,
         NEW body \in Bodies({k}), UpdateBgpvpn(ctx, b, body)
  PROVE  ShownIsOwn
<1>1. CASE PermitsUpdate(ctx, body, bgpvpns[b].project_id)
  <2> DEFINE row == Updated(bgpvpns[b], Columns(body))
             dict == View(ctx, Dict(b, row), AdminReads)
  <2>1. Columned(bgpvpns[b]) /\ DOMAIN body = {k}  BY BodyKeys DEF UpdateBgpvpn, IInv
  <2>2. bgpvpns[b].project_id = ctx
    BY <1>1 DEF PermitsUpdate, Permits, Owns, AdminActions
  <2>3. row.project_id = ctx
    BY <2>1, <2>2, UpdatedColumns, ProjectIsNoAttr DEF Columned
  <2>4. bgpvpns' = [bgpvpns EXCEPT ![b] = row]  BY <1>1 DEF UpdateBgpvpn
  <2>5. bgpvpns'[b].project_id = ctx  BY <2>3, <2>4 DEF IInv
  <2>6. answer' = [to |-> ctx, what |-> "bgpvpn", body |-> body, shown |-> dict]
    BY <1>1 DEF UpdateBgpvpn, Answers
  <2>7. DOMAIN dict \cap VpnParameter = {} /\ dict.id = b  BY TenantView
  <2> HIDE DEF row, dict
  <2>8. Shown' = {dict} /\ answer'.to = ctx  BY <2>6 DEF Shown
  <2> QED  BY <2>5, <2>7, <2>8 DEF ShownIsOwn
<1>2. CASE ~ PermitsUpdate(ctx, body, bgpvpns[b].project_id)
  <2>1. answer' = [to |-> ctx, what |-> "refused"]
    BY <1>2 DEF UpdateBgpvpn, Refuses, Answers
  <2> QED  BY <2>1, NothingShown
<1> QED  BY <1>1, <1>2

LEMMA GetShows ==
  ASSUME NEW ctx \in Context, ctx # Admin, NEW filter \in Filter, GetBgpvpns(ctx, filter)
  PROVE  ShownIsOwn
<1> DEFINE found == {b \in FilterHook(filter) : Permits(ctx, "get_bgpvpn", bgpvpns[b].project_id)}
           shown == {View(ctx, Dict(b, bgpvpns[b]), AdminReads) : b \in found}
<1>1. answer' = [to |-> ctx, what |-> "list", filter |-> filter, found |-> found, shown |-> shown]
  BY DEF GetBgpvpns, Answers
<1>2. bgpvpns' = bgpvpns  BY DEF GetBgpvpns, tables
<1>3. ASSUME NEW dict \in shown
      PROVE  /\ DOMAIN dict \cap VpnParameter = {}
             /\ bgpvpns[dict.id].project_id = ctx
  <2>1. PICK b \in found : dict = View(ctx, Dict(b, bgpvpns[b]), AdminReads)  BY <1>3
  <2>2. bgpvpns[b].project_id = ctx  BY DEF Permits, Owns, AdminActions
  <2> QED  BY <2>1, <2>2, TenantView
<1> HIDE DEF found, shown
<1>4. Shown' = shown /\ answer'.to = ctx  BY <1>1 DEF Shown
<1> QED  BY <1>2, <1>3, <1>4 DEF ShownIsOwn

\* The answer to a request on an association is no list of BGPVPNs.
LEMMA AssocAnswers ==
  ASSUME NEW ctx, AssocNext(ctx)
  PROVE  answer'.to = ctx /\ answer'.what \notin {"list", "bgpvpn"}
<1> DEFINE Goal == answer'.to = ctx /\ answer'.what \notin {"list", "bgpvpn"}
<1> SUFFICES Goal  OBVIOUS
<1>1. ASSUME NEW b, NEW n, CreateNetAssoc(ctx, b, n)
      PROVE  Goal
  BY <1>1 DEF CreateNetAssoc, Answers
<1>2. ASSUME NEW b, NEW p, CreatePortAssoc(ctx, b, p)
      PROVE  Goal
  BY <1>2 DEF CreatePortAssoc, Answers
<1>3. ASSUME NEW b, NEW r, NEW extra, CreateRouterAssoc(ctx, b, r, extra)
      PROVE  Goal
  BY <1>3 DEF CreateRouterAssoc, Answers
<1>4. ASSUME NEW a, NEW extra, UpdateRouterAssoc(ctx, a, extra)
      PROVE  Goal
  BY <1>4 DEF UpdateRouterAssoc, Answers
<1>5. ASSUME NEW a, DeleteNetAssoc(ctx, a) \/ DeletePortAssoc(ctx, a) \/ DeleteRouterAssoc(ctx, a)
      PROVE  Goal
  BY <1>5 DEF DeleteNetAssoc, DeletePortAssoc, DeleteRouterAssoc, Answers
<1> HIDE DEF Goal
<1> QED
  BY <1>1, <1>2, <1>3, <1>4, <1>5 DEF AssocNext

LEMMA AssocShows ==
  ASSUME NEW ctx, AssocNext(ctx)
  PROVE  ShownIsOwn
BY AssocAnswers, NothingShown

\* Every request is answered to its caller, and only a listing by a list.
LEMMA AnswersTheCaller ==
  ASSUME NEW ctx, BgpvpnNext(ctx) \/ AssocNext(ctx)
  PROVE  /\ answer'.to = ctx
         /\ answer'.what # "list" \/ \E filter \in Filter : GetBgpvpns(ctx, filter)
<1> DEFINE Goal == answer'.to = ctx /\ answer'.what # "list"
<1>1. ASSUME NEW b, NEW project, NEW body, CreateBgpvpn(ctx, b, project, body)
      PROVE  Goal
  BY <1>1 DEF CreateBgpvpn, Refuses, Answers
<1>2. ASSUME NEW b, NEW body, UpdateBgpvpn(ctx, b, body)
      PROVE  Goal
  BY <1>2 DEF UpdateBgpvpn, Refuses, Answers
<1>3. ASSUME NEW b, DeleteBgpvpn(ctx, b)
      PROVE  Goal
  BY <1>3 DEF DeleteBgpvpn, Refuses, Answers
<1>4. ASSUME NEW filter, GetBgpvpns(ctx, filter)
      PROVE  answer'.to = ctx
  BY <1>4 DEF GetBgpvpns, Answers
<1> QED  BY <1>1, <1>2, <1>3, <1>4, AssocAnswers DEF BgpvpnNext

LEMMA ShowsStep ==
  ASSUME IInv, NEW ctx \in Context, ctx # Admin, BgpvpnNext(ctx) \/ AssocNext(ctx)
  PROVE  ShownIsOwn
<1>1. ASSUME NEW b \in BgpvpnId, DeleteBgpvpn(ctx, b)
      PROVE  ShownIsOwn
  <2>1. answer'.what \in {"deleted", "refused"}
    BY <1>1 DEF DeleteBgpvpn, Refuses, Answers
  <2> QED  BY <2>1, NothingShown
<1> QED  BY <1>1, CreateShows, UpdateShows, GetShows, AssocShows DEF BgpvpnNext

\* A tenant is never shown a BGPVPN of another project, nor the route targets,
\* distinguishers or the VNI of its own, whatever was associated, updated or
\* handed to whom before (policies/bgpvpn.py, db/bgpvpn_db.py).
THEOREM TenantsAreNotToldCorrect == Spec => []TenantsAreNotTold
<1>1. Init => TenantsAreNotTold
  BY DEF Init, TenantsAreNotTold, Shown
<1>2. IInv /\ TenantsAreNotTold /\ [Next]_vars => TenantsAreNotTold'
  <2> SUFFICES ASSUME IInv, TenantsAreNotTold, [Next]_vars, answer'.to # Admin
               PROVE  ShownIsOwn
    BY DEF TenantsAreNotTold, ShownIsOwn
  <2>1. CASE UNCHANGED vars
    BY <2>1 DEF vars, tables, TenantsAreNotTold, ShownIsOwn, Shown, Live
  <2>2. CASE Next  BY <2>2, AnswersTheCaller, ShowsStep DEF Next
  <2> QED  BY <2>1, <2>2
<1> QED  BY <1>1, <1>2, InvariantCorrect, PTL DEF Spec

-----------------------------------------------------------------------------
(***************************************************************************)
(* What is stored.                                                         *)
(***************************************************************************)

\* A list comes back from its text (rtrd_list2str and rtrd_str2list).
LEMMA ListsComeBack ==
  ASSUME NEW T, NEW list \in Seq(T)
  PROVE  Str2List(List2Str(list)) = list
<1> DEFINE n == IF list = <<>> THEN 0 ELSE 2 * Len(list) - 1
           word(i) == IF i % 2 = 1 THEN list[(i + 1) \div 2] ELSE ","
           text == [i \in 1..n |-> word(i)]
<1>1. Len(list) \in Nat /\ (list # <<>> => Len(list) > 0)  OBVIOUS
<1>2. n \in Nat  BY <1>1
<1>3. (n + 1) \div 2 = Len(list)
  <2>1. CASE list = <<>>  BY <2>1
  <2>2. CASE list # <<>>  BY <1>1, <2>2
  <2> QED  BY <2>1, <2>2
<1>4. List2Str(list) = text  BY DEF List2Str
<1>5. \A i \in 1..Len(list) : 2 * i - 1 \in 1..n  BY <1>1
<1>6. ASSUME NEW i \in 1..Len(list)
      PROVE  word(2 * i - 1) = list[i]
  <2>1. (2 * i - 1) % 2 = 1 /\ (2 * i - 1 + 1) \div 2 = i  OBVIOUS
  <2> QED  BY <2>1
<1> HIDE DEF n, word
<1>7. Len(text) = n  BY <1>2
<1>8. Words(text) = [i \in 1..Len(list) |-> text[2 * i - 1]]  BY <1>3, <1>7 DEF Words
<1>9. \A i \in 1..Len(list) : text[2 * i - 1] = list[i]  BY <1>5, <1>6
<1>10. list = [i \in 1..Len(list) |-> list[i]]  OBVIOUS
<1> HIDE DEF text
<1>11. text = <<>> => list = <<>>
  <2> SUFFICES ASSUME text = <<>> PROVE list = <<>>  OBVIOUS
  <2>1. n = 0  BY <1>7
  <2>2. Len(list) = 0  BY <1>3, <2>1
  <2> QED  BY <1>1, <2>2
<1>12. [i \in 1..Len(list) |-> text[2 * i - 1]] = [i \in 1..Len(list) |-> list[i]]
  BY <1>9
<1>13. Words(text) = list  BY <1>8, <1>10, <1>12
<1> QED  BY <1>4, <1>11, <1>13 DEF Str2List

\* What a body sets is shown as it is set.
LEMMA ShownAsSet ==
  ASSUME NEW ctx, NEW b, NEW keys \in SUBSET Attr, NEW body \in Bodies(keys), NEW before,
         NEW shown, shown = View(ctx, Dict(b, Updated(before, Columns(body))), AdminReads),
         NEW k \in DOMAIN body \cap DOMAIN shown
  PROVE  shown[k] = body[k]
<1> DEFINE row == Updated(before, Columns(body))
           dict == Dict(b, row)
<1>1. DOMAIN body = keys  BY BodyKeys
<1>2. k \in Attr /\ k \notin {"id", "networks", "routers", "ports"}
  BY <1>1, AttrAssumption DEF ListAttr
<1>3. row[k] = IF k \in ListAttr THEN List2Str(body[k]) ELSE body[k]
  BY DEF Updated, Columns
<1>4. dict[k] = IF k \in ListAttr THEN Str2List(row[k]) ELSE row[k]
  BY <1>2 DEF Dict
<1>5. shown[k] = dict[k]  BY DEF View, Restrict
<1> HIDE DEF row, dict
<1>6. CASE k \in ListAttr
  <2>1. body[k] \in Lists  BY <1>1, <1>6 DEF Bodies
  <2>2. PICK n \in 0..MaxList : body[k] \in [1..n -> Rt]  BY <2>1 DEF Lists
  <2>3. body[k] \in Seq(Rt)  BY <2>2, BoundAssumption
  <2> QED  BY <1>3, <1>4, <1>5, <1>6, <2>3, ListsComeBack
<1>7. CASE k \notin ListAttr  BY <1>3, <1>4, <1>5, <1>7
<1> QED  BY <1>6, <1>7

LEMMA CreateStores ==
  ASSUME NEW ctx, NEW b, NEW project, NEW body \in Bodies(Attr), CreateBgpvpn(ctx, b, project, body)
  PROVE  StoredAsGiven'
<1>1. CASE Permits(ctx, "create_bgpvpn", project)
  <2> DEFINE shown ==
        View(ctx, Dict(b, Updated([project_id |-> project], Columns(body))), AdminReads)
  <2>1. answer' = [to |-> ctx, what |-> "bgpvpn", body |-> body, shown |-> shown]
    BY <1>1 DEF CreateBgpvpn, Answers
  <2>2. \A k \in DOMAIN body \cap DOMAIN shown : shown[k] = body[k]  BY ShownAsSet
  <2> HIDE DEF shown
  <2> QED  BY <2>1, <2>2 DEF StoredAsGiven
<1>2. CASE ~ Permits(ctx, "create_bgpvpn", project)
  <2>1. answer'.what = "refused"  BY <1>2 DEF CreateBgpvpn, Refuses, Answers
  <2> QED  BY <2>1 DEF StoredAsGiven
<1> QED  BY <1>1, <1>2

LEMMA UpdateStores ==
  ASSUME NEW ctx, NEW b, NEW k \in Attr, NEW body \in Bodies({k}), UpdateBgpvpn(ctx, b, body)
  PROVE  StoredAsGiven'
<1>1. CASE PermitsUpdate(ctx, body, bgpvpns[b].project_id)
  <2> DEFINE shown == View(ctx, Dict(b, Updated(bgpvpns[b], Columns(body))), AdminReads)
  <2>1. answer' = [to |-> ctx, what |-> "bgpvpn", body |-> body, shown |-> shown]
    BY <1>1 DEF UpdateBgpvpn, Answers
  <2>2. \A x \in DOMAIN body \cap DOMAIN shown : shown[x] = body[x]  BY ShownAsSet
  <2> HIDE DEF shown
  <2> QED  BY <2>1, <2>2 DEF StoredAsGiven
<1>2. CASE ~ PermitsUpdate(ctx, body, bgpvpns[b].project_id)
  <2>1. answer'.what = "refused"  BY <1>2 DEF UpdateBgpvpn, Refuses, Answers
  <2> QED  BY <2>1 DEF StoredAsGiven
<1> QED  BY <1>1, <1>2

\* What a creation or an update sets is what its answer shows, lists of any length
\* included, although the tables hold them as one text (rtrd_list2str,
\* rtrd_str2list, services/common/utils.py:23-42).
THEOREM StoredAsGivenCorrect == Spec => []StoredAsGiven
<1>1. Init => StoredAsGiven  BY DEF Init, StoredAsGiven
<1>2. StoredAsGiven /\ [Next]_vars => StoredAsGiven'
  <2> SUFFICES ASSUME StoredAsGiven, [Next]_vars  PROVE StoredAsGiven'
    OBVIOUS
  <2>1. CASE UNCHANGED vars  BY <2>1 DEF vars, StoredAsGiven
  <2>2. ASSUME NEW ctx \in Context, NEW b \in BgpvpnId, DeleteBgpvpn(ctx, b)
        PROVE  StoredAsGiven'
    <3>1. answer'.what \in {"deleted", "refused"}
      BY <2>2 DEF DeleteBgpvpn, Refuses, Answers
    <3> QED  BY <3>1 DEF StoredAsGiven
  <2>3. ASSUME NEW ctx \in Context, NEW filter \in Filter, GetBgpvpns(ctx, filter)
        PROVE  StoredAsGiven'
    <3>1. answer'.what = "list"  BY <2>3 DEF GetBgpvpns, Answers
    <3> QED  BY <3>1 DEF StoredAsGiven
  <2>4. ASSUME NEW ctx \in Context, AssocNext(ctx)
        PROVE  StoredAsGiven'
    BY <2>4, AssocAnswers DEF StoredAsGiven
  <2> QED  BY <2>1, <2>2, <2>3, <2>4, CreateStores, UpdateStores DEF Next, BgpvpnNext
<1> QED  BY <1>1, <1>2, PTL DEF Spec

-----------------------------------------------------------------------------
(***************************************************************************)
(* What a listing finds.                                                   *)
(***************************************************************************)

LEMMA HookMeetsFilter ==
  ASSUME NEW filter \in Filter, ~ ByPort
  PROVE  FilterHook(filter) = {b \in BgpvpnId : Live(b) /\ MeetsFilter(b, filter)}
<1>1. filter.ports = {}  BY DEF Filter
<1> QED  BY <1>1 DEF FilterHook, MeetsFilter

\* Without filters on ports (whose query joins the wrong table), a listing by
\* networks or routers finds what its caller owns and no more
\* (_list_bgpvpns_result_filter_hook, db/bgpvpn_db.py:195-211).
THEOREM FoundByResourceCorrect ==
  ASSUME ~ ByPort
  PROVE  Spec => []FoundByResource
<1>1. Init => FoundByResource  BY DEF Init, FoundByResource
<1>2. FoundByResource /\ [Next]_vars => FoundByResource'
  <2> SUFFICES ASSUME FoundByResource, [Next]_vars  PROVE FoundByResource'
    OBVIOUS
  <2>1. CASE UNCHANGED vars
    BY <2>1 DEF vars, tables, FoundByResource, MeetsFilter, Live, Of
  <2>2. ASSUME NEW ctx \in Context, NEW filter \in Filter, GetBgpvpns(ctx, filter)
        PROVE  FoundByResource'
    <3> DEFINE found == {b \in FilterHook(filter) : Permits(ctx, "get_bgpvpn", bgpvpns[b].project_id)}
    <3>1. /\ answer'.what = "list" /\ answer'.to = ctx
          /\ answer'.filter = filter /\ answer'.found = found
      BY <2>2 DEF GetBgpvpns, Answers
    <3>2. UNCHANGED tables  BY <2>2 DEF GetBgpvpns
    <3>3. found = {b \in BgpvpnId : Live(b) /\ Owns(ctx, bgpvpns[b].project_id)
                                      /\ MeetsFilter(b, filter)}
      BY HookMeetsFilter DEF Permits, AdminActions
    <3>4. \A b : Live(b)' = Live(b) /\ MeetsFilter(b, filter)' = MeetsFilter(b, filter)
      BY <3>2 DEF tables, Live, MeetsFilter, Of
    <3> HIDE DEF found
    <3> QED  BY <3>1, <3>2, <3>3, <3>4 DEF FoundByResource, tables
  <2>3. ASSUME answer'.what # "list"  PROVE FoundByResource'
    BY <2>3 DEF FoundByResource
  <2> QED  BY <2>1, <2>2, <2>3, AnswersTheCaller DEF Next
<1> QED  BY <1>1, <1>2, PTL DEF Spec

=============================================================================
