---------------------------- MODULE EventualView ----------------------------
(***************************************************************************)
(* What the bagpipe driver promises the agents: a view of the associations *)
(* in the database that fits, but for those that are open, because somebody*)
(* works on them or because they were lost sight of.  Only the view and the*)
(* truth of open associations move.                                        *)
(***************************************************************************)
CONSTANTS
  Key,       \* the associations
  Value,     \* what the database and the agents may hold of one
  Fit(_, _)  \* what the database holds of one, what agents may hold then

VARIABLES
  truth,  \* what the database holds of each association
  view,   \* what the agents hold of it
  open    \* the associations of which no view is promised

vars == <<truth, view, open>>

Fitting == \A k \in Key \ open : Fit(truth[k], view[k])

Init ==
  /\ truth \in [Key -> Value] /\ view \in [Key -> Value]
  /\ open = {}
  /\ Fitting

\* Associations are opened before or as their truth changes, their view changes
\* while they are open, and the view of those that are closed then fits.
Next ==
  /\ truth' \in [Key -> Value] /\ view' \in [Key -> Value] /\ open' \subseteq Key
  /\ \A k \in Key \ open : view'[k] = view[k]
  /\ \A k \in Key \ (open \cup open') : truth'[k] = truth[k]
  /\ Fitting'

Spec == Init /\ [][Next]_vars
=============================================================================
