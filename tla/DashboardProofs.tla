-------------------------- MODULE DashboardProofs --------------------------
(***************************************************************************)
(* Theorems about Dashboard: route targets survive the forms.              *)
(***************************************************************************)
EXTENDS Dashboard, TLAPS

-----------------------------------------------------------------------------
(***************************************************************************)
(* Texts.                                                                  *)
(***************************************************************************)

LEMMA TargetsAreSequences ==
  ASSUME NEW targets \in Targets
  PROVE  targets \in Seq(Target)
<1>1. PICK n \in 0..MaxTargets : targets \in [1..n -> Target]  BY DEF Targets
<1>2. n \in Nat  BY <1>1, BoundAssumption
<1> QED  BY <1>1, <1>2

\* What a form shows of a list of route targets is read back as that list: in its
\* order, however many there are (_join_rts and format_rt).
THEOREM ShownAreReadBack ==
  ASSUME NEW T, NEW targets \in Seq(T)
  PROVE  FormatRt(JoinRts(targets)) = targets
<1> DEFINE n == IF targets = <<>> THEN 0 ELSE 2 * Len(targets) - 1
           word(i) == IF i % 2 = 1 THEN targets[(i + 1) \div 2] ELSE ","
           text == [i \in 1..n |-> word(i)]
<1>1. Len(targets) \in Nat /\ (targets # <<>> => Len(targets) > 0)  OBVIOUS
<1>2. n \in Nat  BY <1>1
<1>3. (n + 1) \div 2 = Len(targets)
  <2>1. CASE targets = <<>>  BY <2>1
  <2>2. CASE targets # <<>>  BY <1>1, <2>2
  <2> QED  BY <2>1, <2>2
<1>4. JoinRts(targets) = text  BY DEF JoinRts
<1>5. \A i \in 1..Len(targets) : 2 * i - 1 \in 1..n  BY <1>1
<1>6. ASSUME NEW i \in 1..Len(targets)
      PROVE  word(2 * i - 1) = targets[i]
  <2>1. (2 * i - 1) % 2 = 1 /\ (2 * i - 1 + 1) \div 2 = i  OBVIOUS
  <2> QED  BY <2>1
<1> HIDE DEF n, word
<1>7. Len(text) = n  BY <1>2
<1>8. FormatRt(text) = [i \in 1..Len(targets) |-> text[2 * i - 1]]  BY <1>3, <1>7 DEF FormatRt
<1>9. \A i \in 1..Len(targets) : text[2 * i - 1] = targets[i]  BY <1>5, <1>6
<1>10. targets = [i \in 1..Len(targets) |-> targets[i]]  OBVIOUS
<1> HIDE DEF text
<1>11. [i \in 1..Len(targets) |-> text[2 * i - 1]] = [i \in 1..Len(targets) |-> targets[i]]
  BY <1>9
<1> QED  BY <1>4, <1>8, <1>10, <1>11

-----------------------------------------------------------------------------
(***************************************************************************)
(* Forms.                                                                  *)
(***************************************************************************)

IsBgpvpn(row) == row = [name |-> row.name, targets |-> row.targets]

EditsAPanel(f) == f # None /\ f.page = "edit" => f.panel \in {"project", "admin"}

\* BGPVPNs have a name and route targets, and edit forms are of a panel.
IInv ==
  /\ DOMAIN bgpvpns \subseteq BgpvpnId
  /\ \A b \in DOMAIN bgpvpns : IsBgpvpn(bgpvpns[b])
  /\ chosen = [b \in BgpvpnId |-> chosen[b]]
  /\ form = [u \in User |-> form[u]]
  /\ \A u \in User : EditsAPanel(form[u])
  /\ ChosenTargetsStay

\* A step that leaves BGPVPNs as they are, or deletes some.
FewerBgpvpns ==
  /\ DOMAIN bgpvpns' \subseteq DOMAIN bgpvpns
  /\ \A b \in DOMAIN bgpvpns' : bgpvpns'[b] = bgpvpns[b]
  /\ chosen' = chosen /\ overtaken' = overtaken

FormsOK == form = [u \in User |-> form[u]] /\ \A u \in User : EditsAPanel(form[u])

LEMMA FewerAreKept ==
  ASSUME IInv, FewerBgpvpns, FormsOK'
  PROVE  IInv'
<1>1. \A b \in DOMAIN bgpvpns' : IsBgpvpn(bgpvpns'[b])  BY DEF IInv, FewerBgpvpns
<1>2. ChosenTargetsStay'  BY DEF IInv, FewerBgpvpns, ChosenTargetsStay
<1>3. DOMAIN bgpvpns' \subseteq BgpvpnId  BY DEF IInv, FewerBgpvpns
<1> QED  BY <1>1, <1>2, <1>3 DEF IInv, FewerBgpvpns, FormsOK, EditsAPanel, IsBgpvpn

LEMMA AnswersAreNoEdits ==
  ASSUME IInv, NEW u \in User, NEW f, EditsAPanel(f), form' = [form EXCEPT ![u] = f]
  PROVE  FormsOK'
<1>1. form = [v \in User |-> form[v]] /\ \A v \in User : EditsAPanel(form[v])  BY DEF IInv
<1>2. form' = [v \in User |-> form'[v]]  BY <1>1
<1>3. \A v \in User : form'[v] = form[v] \/ form'[v] = f  BY <1>1
<1>4. \A v \in User : EditsAPanel(form'[v])  BY <1>1, <1>3
<1> QED  BY <1>2, <1>4 DEF FormsOK, EditsAPanel

LEMMA AnswerForms ==
  ASSUME IInv, NEW u \in User, NEW what, Answer(u, what)
  PROVE  FormsOK'
<1>1. EditsAPanel(None)  BY DEF EditsAPanel
<1> QED  BY <1>1, AnswersAreNoEdits DEF Answer

LEMMA OpenKeeps ==
  ASSUME IInv, NEW u \in User, NEW f, EditsAPanel(f), Open(u, f)
  PROVE  IInv'
<1>1. FormsOK'  BY AnswersAreNoEdits DEF Open
<1>2. FewerBgpvpns  BY DEF Open, neutron, history, FewerBgpvpns
<1> QED  BY <1>1, <1>2, FewerAreKept

LEMMA RefusedKeeps ==
  ASSUME IInv, NEW u \in User, Refused(u)
  PROVE  IInv'
<1>1. FormsOK'  BY AnswerForms DEF Refused
<1>2. FewerBgpvpns  BY DEF Refused, neutron, history, FewerBgpvpns
<1> QED  BY <1>1, <1>2, FewerAreKept

\* One BGPVPN gets other values: its route targets are those chosen now, unless
\* it is overtaken.
LEMMA OneIsSet ==
  ASSUME IInv, FormsOK', NEW b \in BgpvpnId, overtaken \subseteq overtaken',
         DOMAIN bgpvpns' = DOMAIN bgpvpns \cup {b}, IsBgpvpn(bgpvpns'[b]),
         \A c \in DOMAIN bgpvpns \ {b} : bgpvpns'[c] = bgpvpns[c],
         chosen' = [c \in BgpvpnId |-> chosen'[c]],
         \A c \in BgpvpnId \ {b} : chosen'[c] = chosen[c],
         b \in overtaken' \/ bgpvpns'[b].targets = chosen'[b]
  PROVE  IInv'
<1>1. DOMAIN bgpvpns' \subseteq BgpvpnId  BY DEF IInv
<1>2. \A c \in DOMAIN bgpvpns' : IsBgpvpn(bgpvpns'[c])  BY DEF IInv
<1>3. ChosenTargetsStay'  BY <1>1 DEF IInv, ChosenTargetsStay
<1> QED  BY <1>1, <1>2, <1>3 DEF IInv, FormsOK, EditsAPanel, IsBgpvpn

LEMMA CreateKeeps ==
  ASSUME IInv, NEW u \in User, NEW b \in BgpvpnId, NEW name, NEW targets \in Targets,
         Create(u, b, name, targets)
  PROVE  IInv'
<1>1. CASE Refused(u)  BY <1>1, RefusedKeeps
<1>2. CASE ~ Refused(u)
  <2> DEFINE row == [name |-> name, targets |-> FormatRt(JoinRts(targets))]
  <2>1. /\ bgpvpns' = With(bgpvpns, b, row)
        /\ chosen' = [chosen EXCEPT ![b] = targets]
        /\ overtaken' = overtaken /\ Answer(u, "ok")
    BY <1>2 DEF Create
  <2>2. row.targets = targets
    BY TargetsAreSequences, ShownAreReadBack
  <2>3. IsBgpvpn(row)  BY DEF IsBgpvpn
  <2> HIDE DEF row
  <2>4. /\ DOMAIN bgpvpns' = DOMAIN bgpvpns \cup {b} /\ bgpvpns'[b] = row
        /\ \A c \in DOMAIN bgpvpns \ {b} : bgpvpns'[c] = bgpvpns[c]
    BY <2>1 DEF With
  <2>5. /\ chosen' = [c \in BgpvpnId |-> chosen'[c]] /\ chosen'[b] = targets
        /\ \A c \in BgpvpnId \ {b} : chosen'[c] = chosen[c]
    BY <2>1 DEF IInv
  <2>6. FormsOK'  BY <2>1, AnswerForms
  <2> QED  BY <2>1, <2>2, <2>3, <2>4, <2>5, <2>6, OneIsSet
<1> QED  BY <1>1, <1>2

LEMMA SubmitEditKeeps ==
  ASSUME IInv, NEW u \in User, NEW name, NEW text, SubmitEdit(u, name, text)
  PROVE  IInv'
<1> DEFINE f == form[u]
           b == f.bgpvpn
           params == [name |-> name, targets |-> FormatRt(text)]
           row == [k \in DOMAIN bgpvpns[b] |-> IF k \in Fields(f.panel) THEN params[k] ELSE bgpvpns[b][k]]
<1>1. CASE Refused(u)  BY <1>1, RefusedKeeps
<1>2. CASE ~ Refused(u)
  <2>1. /\ b \in DOMAIN bgpvpns
        /\ f.panel = "project" => text = f.text
        /\ bgpvpns' = [bgpvpns EXCEPT ![b] = row]
        /\ chosen' = [chosen EXCEPT ![b] = IF text = f.text THEN @ ELSE params.targets]
        /\ overtaken' = IF f.panel = "admin" /\ FormatRt(f.text) # bgpvpns[b].targets
                        THEN overtaken \cup {b} ELSE overtaken
        /\ Answer(u, "ok")
    BY <1>2 DEF SubmitEdit
  <2>2. f.panel \in {"project", "admin"}
    BY DEF IInv, EditsAPanel, SubmitEdit, Submits
  <2>3. IsBgpvpn(bgpvpns[b]) /\ b \in BgpvpnId  BY <2>1 DEF IInv
  <2>4. DOMAIN bgpvpns[b] = {"name", "targets"}  BY <2>3 DEF IsBgpvpn
  <2>5. /\ row.targets = IF f.panel = "admin" THEN FormatRt(text) ELSE bgpvpns[b].targets
        /\ IsBgpvpn(row)
    <3>1. row = [k \in {"name", "targets"} |->
                   IF k \in Fields(f.panel) THEN params[k] ELSE bgpvpns[b][k]]
      BY <2>4
    <3>2. row.targets = IF f.panel = "admin" THEN FormatRt(text) ELSE bgpvpns[b].targets
      BY <2>2, <3>1 DEF Fields
    <3>3. row = [name |-> row.name, targets |-> row.targets]  BY <3>1
    <3> QED  BY <3>2, <3>3 DEF IsBgpvpn
  <2>6. chosen'[b] = IF text = f.text THEN chosen[b] ELSE FormatRt(text)
    BY <2>1, <2>3 DEF IInv
  <2>7. b \in overtaken \/ bgpvpns[b].targets = chosen[b]
    BY <2>1 DEF IInv, ChosenTargetsStay
  <2> HIDE DEF row
  <2>8. /\ DOMAIN bgpvpns' = DOMAIN bgpvpns \cup {b} /\ bgpvpns'[b] = row
        /\ \A c \in DOMAIN bgpvpns \ {b} : bgpvpns'[c] = bgpvpns[c]
    BY <2>1
  <2>9. /\ chosen' = [c \in BgpvpnId |-> chosen'[c]]
        /\ \A c \in BgpvpnId \ {b} : chosen'[c] = chosen[c]
    BY <2>1 DEF IInv
  <2>10. b \in overtaken' \/ row.targets = chosen'[b]
    BY <2>1, <2>2, <2>5, <2>6, <2>7
  <2>11. FormsOK'  BY <2>1, AnswerForms
  <2>12. overtaken \subseteq overtaken'  BY <2>1
  <2> HIDE DEF b
  <2> QED  BY <2>3, <2>5, <2>8, <2>9, <2>10, <2>11, <2>12, OneIsSet
<1> QED  BY <1>1, <1>2

LEMMA ClientSetsKeeps ==
  ASSUME IInv, NEW b \in BgpvpnId, NEW targets, ClientSets(b, targets)
  PROVE  IInv'
<1>1. /\ b \in DOMAIN bgpvpns /\ bgpvpns' = [bgpvpns EXCEPT ![b].targets = targets]
      /\ chosen' = [chosen EXCEPT ![b] = targets] /\ overtaken' = overtaken /\ form' = form
  BY DEF ClientSets
<1>2. bgpvpns'[b] = [name |-> bgpvpns[b].name, targets |-> targets]
  BY <1>1 DEF IInv, IsBgpvpn
<1>3. IsBgpvpn(bgpvpns'[b]) /\ bgpvpns'[b].targets = targets  BY <1>2 DEF IsBgpvpn
<1>4. /\ DOMAIN bgpvpns' = DOMAIN bgpvpns \cup {b}
      /\ \A c \in DOMAIN bgpvpns \ {b} : bgpvpns'[c] = bgpvpns[c]
  BY <1>1
<1>5. /\ chosen' = [c \in BgpvpnId |-> chosen'[c]] /\ chosen'[b] = targets
      /\ \A c \in BgpvpnId \ {b} : chosen'[c] = chosen[c]
  BY <1>1 DEF IInv
<1>6. FormsOK'  BY <1>1 DEF IInv, FormsOK, EditsAPanel
<1> QED  BY <1>1, <1>3, <1>4, <1>5, <1>6, OneIsSet

LEMMA BgpvpnNextKeeps ==
  ASSUME IInv, NEW u \in User, BgpvpnNext(u)
  PROVE  IInv'
<1>1. ASSUME NEW b \in BgpvpnId, DeleteBgpvpn(u, b)
      PROVE  IInv'
  <2>1. CASE Refused(u)  BY <2>1, RefusedKeeps
  <2>2. CASE ~ Refused(u)
    <3>1. FormsOK'  BY <1>1, <2>2, AnswerForms DEF DeleteBgpvpn
    <3>2. FewerBgpvpns
      BY <1>1, <2>2 DEF DeleteBgpvpn, WithoutBgpvpn, Restrict, history, FewerBgpvpns
    <3> QED  BY <3>1, <3>2, FewerAreKept
  <2> QED  BY <2>1, <2>2
<1>2. ASSUME NEW b \in BgpvpnId, NEW panel \in {"project", "admin"}, OpenEdit(u, panel, b)
      PROVE  IInv'
  <2> DEFINE f == [page |-> "edit", panel |-> panel, bgpvpn |-> b, name |-> bgpvpns[b].name,
                   text |-> JoinRts(bgpvpns[b].targets)]
  <2>1. Open(u, f)  BY <1>2 DEF OpenEdit
  <2>2. EditsAPanel(f)  BY DEF EditsAPanel
  <2> HIDE DEF f
  <2> QED  BY <2>1, <2>2, OpenKeeps
<1> QED  BY <1>1, <1>2, CreateKeeps, SubmitEditKeeps DEF BgpvpnNext

LEMMA AssocNextKeeps ==
  ASSUME IInv, NEW u \in User, AssocNext(u)
  PROVE  IInv'
<1>1. ASSUME NEW b \in BgpvpnId, OpenAssociate(u, b)
      PROVE  IInv'
  <2> DEFINE f == [page |-> "associate", bgpvpn |-> b]
  <2>1. Open(u, f)  BY <1>1 DEF OpenAssociate
  <2>2. EditsAPanel(f)  BY DEF EditsAPanel
  <2> HIDE DEF f
  <2> QED  BY <2>1, <2>2, OpenKeeps
<1>2. ASSUME NEW a \in AssocId, OpenUpdate(u, a)
      PROVE  IInv'
  <2> DEFINE f == [page |-> "update", assoc |-> a]
  <2>1. Open(u, f)  BY <1>2 DEF OpenUpdate
  <2>2. EditsAPanel(f)  BY DEF EditsAPanel
  <2> HIDE DEF f
  <2> QED  BY <2>1, <2>2, OpenKeeps
<1>3. ASSUME NEW what, Answer(u, what), bgpvpns' = bgpvpns, chosen' = chosen, overtaken' = overtaken
      PROVE  IInv'
  <2>1. FormsOK'  BY <1>3, AnswerForms
  <2>2. FewerBgpvpns  BY <1>3 DEF FewerBgpvpns
  <2> QED  BY <2>1, <2>2, FewerAreKept
<1>4. ASSUME \/ \E x \in Resource, a \in AssocId : SubmitAssociate(u, x, a)
             \/ \E r \in Router, a \in AssocId, extra \in BOOLEAN :
                  SubmitWithParameters(u, r, a, extra)
             \/ \E a \in AssocId : DeleteAssoc(u, a)
             \/ \E extra \in BOOLEAN : SubmitUpdate(u, extra)
      PROVE  IInv'
  <2>1. /\ \E what \in {"ok", "error", "failure"} : Answer(u, what)
        /\ bgpvpns' = bgpvpns /\ chosen' = chosen /\ overtaken' = overtaken
    BY <1>4 DEF SubmitAssociate, SubmitWithParameters, DeleteAssoc, SubmitUpdate, Associated,
                Refused, neutron, history
  <2> QED  BY <1>3, <2>1
<1> QED  BY <1>1, <1>2, <1>4 DEF AssocNext

\* However many users, forms and route targets there are: a form that is saved
\* brings back no old route targets, unless an administrator saves one that shows
\* them (project/bgpvpn/forms.py:55-90).
THEOREM ChosenTargetsStayCorrect == Spec => []ChosenTargetsStay
<1>1. Init => IInv
  BY DEF Init, IInv, EditsAPanel, ChosenTargetsStay
<1>2. IInv /\ [Next]_vars => IInv'
  <2> SUFFICES ASSUME IInv, [Next]_vars PROVE IInv'  OBVIOUS
  <2>1. CASE Next  BY <2>1, BgpvpnNextKeeps, AssocNextKeeps, ClientSetsKeeps DEF Next
  <2>2. CASE UNCHANGED vars
    BY <2>2 DEF vars, neutron, history, IInv, IsBgpvpn, EditsAPanel, ChosenTargetsStay
  <2> QED  BY <2>1, <2>2
<1>3. IInv => ChosenTargetsStay  BY DEF IInv
<1> QED  BY <1>1, <1>2, <1>3, PTL DEF Spec

=============================================================================
