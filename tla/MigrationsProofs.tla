-------------------------- MODULE MigrationsProofs --------------------------
(***************************************************************************)
(* Proofs about Migrations.                                                *)
(*                                                                         *)
(* The inductive invariant says, of each statement of each revision, what  *)
(* it has left behind (Works), of each column and index, which revision it *)
(* comes from (Traced), and of a revision under way, what it finds (Fresh).*)
(***************************************************************************)
EXTENDS Migrations, SequenceTheorems, FiniteSetTheorems, TLAPS

-----------------------------------------------------------------------------
(***************************************************************************)
(* What is to be proved.                                                   *)
(***************************************************************************)

Renamed == {"bgpvpns", "networks", "routers"}

\* The statements of a revision, as a set, when nothing of the renaming is done.
Of(r) ==
  CASE r = Initial -> {Statement("columns", "bgpvpns", BgpvpnColumns),
                       Statement("columns", "networks", Assoc("network_id"))}
    [] r = RouterTable -> {Statement("columns", "routers", Assoc("router_id"))}
    [] r = TenantIndexes -> {Statement("index", t, {"tenant_id"}) : t \in Renamed}
    [] r = RenameTenant -> {Statement("rename", t, {}) : t \in Renamed}
         \cup {Statement("drop_index", t, {}) : t \in Renamed}
         \cup {Statement("index", t, {"project_id"}) : t \in Renamed}
    [] r = PortTables -> {Statement("columns", "ports", PortColumns),
                          Statement("index", "ports", {"project_id"}),
                          Statement("columns", "routes", RouteColumns)}
    [] r = Vni -> {Statement("columns", "bgpvpns", {<<"vni", Nullable>>})}
    [] r = ExtraRoutes -> {Statement("columns", "routers", {ExtraRoutesColumn})}
    [] r = LocalPref -> {Statement("columns", "bgpvpns", {<<"local_pref", Nullable>>})}
    [] r = AddAttributes ->
         {Statement("columns", t, {<<"standard_attr_id", Nullable>>}) : t \in HasStandardAttr}
    [] r = FillAttributes -> {Statement("fill", t, {}) : t \in HasStandardAttr}
         \cup {Statement("not_null", t, {}) : t \in HasStandardAttr}
         \cup {Statement("index", t, {UniqueAttr}) : t \in HasStandardAttr}
         \cup {Statement("foreign_key", t, {}) : t \in HasStandardAttr}
    [] OTHER -> {}

\* A table is changed in one way once.
Apart(seq) == \A i, j \in DOMAIN seq :
  seq[i].do = seq[j].do /\ seq[i].table = seq[j].table => i = j

Filled(t) == \A x \in rows[t] : attr[x] # None

\* A column that is made NOT NULL is filled before.
Ordered(seq) == \A i \in DOMAIN seq : seq[i].do = "not_null" =>
  \/ Filled(seq[i].table)
  \/ \E j \in 1..(i - 1) : seq[j].do = "fill" /\ seq[j].table = seq[i].table

TypeInv ==
  /\ stamped \subseteq Revision
  /\ doing # None =>
       /\ doing \in Job
       /\ doing.left \in Seq(Of(doing.revision)) /\ Apart(doing.left)
  /\ columns \in [Table -> SUBSET Column]
  /\ indexes \in [Table -> SUBSET Name]
  /\ rows \in [Table -> SUBSET Id] /\ \A t \in Table : IsFiniteSet(rows[t])
  /\ attr \in [Id -> Nat \cup {None}]
  /\ standard \in Seq(HasStandardAttr)
  /\ server # None => server \in [Table -> SUBSET Name]
  /\ interrupted \subseteq Revision

Under(r) == doing # None /\ doing.revision = r
Left(s) == doing # None /\ s \in Range(doing.left)
Begun(r) == r \in stamped \cup interrupted \/ Under(r) \/ stuck

Ready(r) == DownRevision[r] \in stamped \cup {Start} /\ DependsOn(r) \subseteq stamped

\* Revisions are applied in the order of the branches and of what they depend on.
InOrder ==
  /\ \A r \in stamped : Ready(r)
  /\ doing # None => doing.revision \notin stamped /\ Ready(doing.revision)
  /\ doing # None /\ doing.revision \in Contract => server = None
  /\ stuck => doing = None /\ stamped # Revision

\* The revision that a column or an index comes from.
Origin(t, name) ==
  IF t = "routes" THEN PortTables
  ELSE IF name = "standard_attr_id" THEN AddAttributes
  ELSE IF t = "ports" THEN PortTables
  ELSE IF name = "project_id" THEN RenameTenant
  ELSE IF t = "bgpvpns" /\ name = "vni" THEN Vni
  ELSE IF t = "bgpvpns" /\ name = "local_pref" THEN LocalPref
  ELSE IF t = "routers" /\ name = "advertise_extra_routes" THEN ExtraRoutes
  ELSE IF t = "routers" THEN RouterTable
  ELSE Initial

IndexOrigin(t, name) ==
  IF name = "tenant_id" THEN TenantIndexes
  ELSE IF name = UniqueAttr THEN FillAttributes
  ELSE IF t = "ports" THEN PortTables
  ELSE RenameTenant

Traced == \A t \in Table :
  /\ \A n \in Names(columns[t]) : Begun(Origin(t, n))
  /\ \A n \in indexes[t] : Begun(IndexOrigin(t, n))

New(s) ==
  /\ s.do = "columns" => Names(s.new) \cap Names(columns[s.table]) = {}
  /\ s.do = "index" => s.new \cap indexes[s.table] = {}

\* A revision that runs for the first time finds nothing of what it creates.
Fresh ==
  /\ doing # None /\ doing.revision \notin interrupted => \A s \in Range(doing.left) : New(s)
  /\ doing # None => Ordered(doing.left)
  /\ stuck => interrupted \ stamped # {}

\* A column is there, as it was created or as it has become.
Present(t, c) ==
  \/ c \in columns[t]
  \/ c[1] = "tenant_id" /\ <<"project_id", c[2]>> \in columns[t]
  \/ c[1] = "standard_attr_id" /\ <<"standard_attr_id", Required>> \in columns[t]

NotNull(t) == <<"standard_attr_id", Nullable>> \notin columns[t]

\* What a statement leaves behind.
Worked(s) ==
  /\ s.do = "columns" => \A c \in s.new : Present(s.table, c)
  /\ s.do = "index" => \A n \in s.new : 
       n \in indexes[s.table] \/ (n = "tenant_id" /\ Begun(RenameTenant))
  /\ s.do = "not_null" => NotNull(s.table)

\* Every statement of a revision has left its work behind, or is still to run.
Works == \A r \in Revision \ {RenameTenant} : \A s \in Of(r) :
  /\ r \in stamped => Worked(s)
  /\ Under(r) => Worked(s) \/ Left(s)

Allowed(t) == Models[t] \cup
  (IF t \in Renamed THEN {<<"tenant_id", IF t = "bgpvpns" THEN Nullable ELSE Required>>} ELSE {})
  \cup (IF t \in HasStandardAttr THEN {<<"standard_attr_id", Nullable>>} ELSE {})

AllowedIndexes(t) ==
  ModelIndexes(t) \cup (IF t \in Renamed THEN {"tenant_id"} ELSE {})

\* Nothing is there that the models do not have, unless it is still to change.
Bounded == \A t \in Table : columns[t] \subseteq Allowed(t) /\ indexes[t] \subseteq AllowedIndexes(t)

\* The renaming: the columns, even when it is interrupted; the indexes, if it is not.
Renames == \A t \in Renamed :
  /\ RenameTenant \in stamped => "tenant_id" \notin Names(columns[t])
  /\ Under(RenameTenant) /\ "tenant_id" \in Names(columns[t]) => Left(Statement("rename", t, {}))
  /\ RenameTenant \in stamped \ interrupted =>
       "tenant_id" \notin indexes[t] /\ "project_id" \in indexes[t]
  /\ Under(RenameTenant) /\ RenameTenant \notin interrupted =>
       /\ "tenant_id" \in indexes[t] => Left(Statement("drop_index", t, {}))
       /\ "project_id" \in indexes[t] \/ Left(Statement("index", t, {"project_id"}))

\* A running server knows columns that are there, and all that it must fill in.
Served ==
  /\ \A t \in Table : columns[t] # {} => "id" \in Names(columns[t])
  /\ server # None => \A t \in Table :
       /\ server[t] \subseteq Names(columns[t])
       /\ server[t] # {} => \A c \in columns[t] : c[2] = Required => c[1] \in server[t]
  /\ rejected = FALSE

\* Attributes are of the type of their row, and no two rows share one.
Typed ==
  /\ \A t, u \in Table : t # u => rows[t] \cap rows[u] = {}
  /\ \A x \in Id : attr[x] # None =>
       \E t \in HasStandardAttr : x \in rows[t] /\ attr[x] \in DOMAIN standard /\ standard[attr[x]] = t
  /\ \A x, y \in Id : attr[x] # None /\ attr[x] = attr[y] => x = y

\* Every row has an attribute once its table is filled.
AllFilled ==
  /\ \A t \in HasStandardAttr :
       /\ FillAttributes \in stamped => Filled(t)
       /\ Under(FillAttributes) => Filled(t) \/ Left(Statement("fill", t, {}))
  /\ FillAttributes \in stamped /\ server # None => \A t \in HasStandardAttr :
       server[t] # {} => "standard_attr_id" \in server[t]

Inv == TypeInv /\ InOrder /\ Traced /\ Fresh /\ Works /\ Bounded /\ Renames /\ Served /\ Typed
         /\ AllFilled

-----------------------------------------------------------------------------
(***************************************************************************)
(* The statements of the revisions.                                        *)
(***************************************************************************)

\* A sequence of statements of S, each of them in it, in a proper order.
Consists(seq, S) ==
  /\ seq \in Seq(S) /\ Range(seq) = S
  /\ Apart(seq)
  /\ \A i \in DOMAIN seq : seq[i].do = "not_null" =>
       \E j \in 1..(i - 1) : seq[j].do = "fill" /\ seq[j].table = seq[i].table

\* Two sets of statements have nothing to do with each other.
Disjoint(S, T) == \A s \in S, t \in T : s.do # t.do \/ s.table # t.table

LEMMA ConsistsEmpty == Consists(<<>>, {})
  BY DEF Consists, Range, Apart

LEMMA ConsistsOne ==
  ASSUME NEW s, s.do # "not_null"
  PROVE  Consists(<<s>>, {s})
  BY DEF Consists, Range, Apart

LEMMA ConsistsConcat ==
  ASSUME NEW S, NEW T, NEW a, NEW b, Consists(a, S), Consists(b, T), Disjoint(S, T)
  PROVE  Consists(a \o b, S \cup T)
<1> DEFINE U == S \cup T
<1>1. a \in Seq(U) /\ b \in Seq(U)
  BY SeqMonotonic DEF Consists
<1>2. /\ Len(a) \in Nat /\ Len(b) \in Nat
      /\ DOMAIN a = 1..Len(a) /\ DOMAIN b = 1..Len(b)
  BY <1>1, LenProperties
<1>3. /\ a \o b \in Seq(U)
      /\ Len(a \o b) = Len(a) + Len(b)
      /\ \A i \in 1..(Len(a) + Len(b)) : (a \o b)[i] = IF i <= Len(a) THEN a[i] ELSE b[i - Len(a)]
  BY <1>1, ConcatProperties
<1> DEFINE c == a \o b
<1>4. DOMAIN c = 1..(Len(a) + Len(b))
  BY <1>3, LenProperties
<1>5. \A i \in DOMAIN c :
        \/ i \in DOMAIN a /\ c[i] = a[i]
        \/ i - Len(a) \in DOMAIN b /\ i - Len(a) \in 1..Len(b) /\ c[i] = b[i - Len(a)]
  BY <1>2, <1>3, <1>4
<1>6. /\ \A i \in DOMAIN a : i \in DOMAIN c /\ c[i] = a[i]
      /\ \A i \in DOMAIN b : i + Len(a) \in DOMAIN c /\ c[i + Len(a)] = b[i]
  BY <1>2, <1>3, <1>4
<1> HIDE DEF c
<1>7. Range(c) = U
  <2>1. Range(a) = S /\ Range(b) = T
    BY DEF Consists
  <2> QED
    BY <2>1, <1>5, <1>6 DEF Range
<1>8. Apart(c)
  <2>1. \A i \in DOMAIN a, j \in DOMAIN b : a[i].do # b[j].do \/ a[i].table # b[j].table
    BY DEF Consists, Disjoint, Range
  <2> SUFFICES ASSUME NEW i \in DOMAIN c, NEW j \in DOMAIN c,
                      c[i].do = c[j].do, c[i].table = c[j].table
               PROVE  i = j
    BY DEF Apart
  <2>2. Apart(a) /\ Apart(b)
    BY DEF Consists
  <2>3. i - Len(a) = j - Len(a) => i = j
    BY <1>2, <1>4
  <2> QED
    BY <1>5, <2>1, <2>2, <2>3 DEF Apart
<1>9. ASSUME NEW i \in DOMAIN c, c[i].do = "not_null"
      PROVE  \E j \in 1..(i - 1) : c[j].do = "fill" /\ c[j].table = c[i].table
  <2>1. CASE i \in DOMAIN a /\ c[i] = a[i]
    <3>1. PICK j \in 1..(i - 1) : a[j].do = "fill" /\ a[j].table = a[i].table
      BY <1>9, <2>1 DEF Consists
    <3>2. j \in DOMAIN a
      BY <1>2, <2>1
    <3> QED
      BY <1>6, <2>1, <3>1, <3>2
  <2>2. CASE i - Len(a) \in DOMAIN b /\ i - Len(a) \in 1..Len(b) /\ c[i] = b[i - Len(a)]
    <3>1. PICK j \in 1..(i - Len(a) - 1) : b[j].do = "fill" /\ b[j].table = b[i - Len(a)].table
      BY <1>9, <2>2 DEF Consists
    <3>2. j \in DOMAIN b /\ j + Len(a) \in 1..(i - 1)
      BY <1>2, <1>4, <2>2
    <3> QED
      BY <1>6, <2>2, <3>1, <3>2
  <2> QED
    BY <1>5, <2>1, <2>2
<1> QED
  BY <1>3, <1>7, <1>8, <1>9 DEF Consists, c

USE DEF Start, Initial, ContractInitial, RouterTable, TenantIndexes, RenameTenant, PortTables,
  Vni, ExtraRoutes, LocalPref, AddAttributes, FillAttributes

LEMMA ConsistsStep ==
  ASSUME NEW what, NEW t, NEW new, what # "not_null"
  PROVE  Consists(Step(what, t, new), {Statement(what, t, new)})
  BY ConsistsOne DEF Step, Statement

\* The statements of one table of the filling are in order.
LEMMA ConsistsFill ==
  ASSUME NEW t
  PROVE  Consists(FillSteps(t), {Statement("fill", t, {}), Statement("not_null", t, {}),
                                 Statement("index", t, {UniqueAttr}),
                                 Statement("foreign_key", t, {})})
<1> DEFINE f == Statement("fill", t, {})
           n == Statement("not_null", t, {})
           i == Statement("index", t, {UniqueAttr})
           k == Statement("foreign_key", t, {})
           two == Step("fill", t, {}) \o Step("not_null", t, {})
<1>1. two \in Seq({f, n}) /\ Len(two) = 2 /\ two[1] = f /\ two[2] = n
  <2>1. <<f>> \in Seq({f, n}) /\ <<n>> \in Seq({f, n})
    OBVIOUS
  <2>2. Len(<<f>>) = 1 /\ Len(<<n>>) = 1 /\ <<f>>[1] = f /\ <<n>>[1] = n
    OBVIOUS
  <2> HIDE DEF f, n
  <2> QED
    BY <2>1, <2>2, ConcatProperties DEF Step, f, n
<1>2. Consists(two, {f, n})
  <2>1. DOMAIN two = {1, 2}
    BY <1>1, LenProperties
  <2>2. f.do = "fill" /\ n.do = "not_null" /\ f.table = n.table
    BY DEF Statement
  <2> HIDE DEF f, n, two
  <2>3. Range(two) = {f, n}
    BY <1>1, <2>1 DEF Range
  <2>4. Apart(two)
    BY <1>1, <2>1, <2>2 DEF Apart
  <2>5. \A m \in DOMAIN two : two[m].do = "not_null" =>
          \E j \in 1..(m - 1) : two[j].do = "fill" /\ two[j].table = two[m].table
    <3>1. 1 \in 1..(2 - 1)
      OBVIOUS
    <3> QED
      BY <1>1, <2>1, <2>2, <3>1
  <2> QED
    BY <1>1, <2>3, <2>4, <2>5 DEF Consists
<1>3. Consists(CreateIndex(t, UniqueAttr), {i}) /\ Consists(Step("foreign_key", t, {}), {k})
  BY ConsistsStep DEF CreateIndex
<1>4. Disjoint({f, n}, {i}) /\ Disjoint({f, n} \cup {i}, {k})
  BY DEF Disjoint, Statement
<1>5. Consists(two \o CreateIndex(t, UniqueAttr), {f, n} \cup {i})
  BY <1>2, <1>3, <1>4, ConsistsConcat
<1>6. Consists((two \o CreateIndex(t, UniqueAttr)) \o Step("foreign_key", t, {}),
               ({f, n} \cup {i}) \cup {k})
  BY <1>3, <1>4, <1>5, ConsistsConcat
<1>7. ({f, n} \cup {i}) \cup {k} = {f, n, i, k}
  OBVIOUS
<1> QED
  BY <1>6, <1>7 DEF FillSteps

LEMMA ConsistsFilling == Consists(Filling, Of(FillAttributes))
<1> DEFINE S(t) == {Statement("fill", t, {}), Statement("not_null", t, {}),
                    Statement("index", t, {UniqueAttr}), Statement("foreign_key", t, {})}
<1>1. \A t \in HasStandardAttr : Consists(FillSteps(t), S(t))
  BY ConsistsFill
<1>2. \A t, u \in HasStandardAttr : t # u => Disjoint(S(t), S(u))
  BY DEF Disjoint, Statement
<1>3. Consists(FillSteps("bgpvpns") \o FillSteps("networks"), S("bgpvpns") \cup S("networks"))
  BY <1>1, <1>2, ConsistsConcat DEF HasStandardAttr
<1>4. Disjoint(S("bgpvpns") \cup S("networks"), S("routers"))
  BY <1>2 DEF Disjoint, HasStandardAttr
<1> DEFINE three == (S("bgpvpns") \cup S("networks")) \cup S("routers")
<1>5. Consists((FillSteps("bgpvpns") \o FillSteps("networks")) \o FillSteps("routers"), three)
  BY <1>1, <1>3, <1>4, ConsistsConcat DEF HasStandardAttr
<1>6. Disjoint(three, S("ports"))
  BY <1>2 DEF Disjoint, HasStandardAttr
<1>7. Consists(Filling, three \cup S("ports"))
  BY <1>1, <1>5, <1>6, ConsistsConcat DEF Filling, HasStandardAttr
<1>8. three \cup S("ports") = Of(FillAttributes)
  BY DEF Of, HasStandardAttr
<1> QED
  BY <1>7, <1>8

\* All revisions but the renaming have the same statements whatever the state.
LEMMA ConsistsStatements ==
  ASSUME NEW r \in Revision, r # RenameTenant
  PROVE  Consists(Statements(r), Of(r))
<1>1. CASE r = Initial
  <2> DEFINE a == Statement("columns", "bgpvpns", BgpvpnColumns)
             b == Statement("columns", "networks", Assoc("network_id"))
  <2>1. /\ Consists(CreateTable("bgpvpns", BgpvpnColumns), {a})
        /\ Consists(CreateTable("networks", Assoc("network_id")), {b})
    BY ConsistsStep DEF CreateTable
  <2>2. Disjoint({a}, {b})
    BY DEF Disjoint, Statement
  <2>3. {a} \cup {b} = Of(r) /\ Statements(r) =
          CreateTable("bgpvpns", BgpvpnColumns) \o CreateTable("networks", Assoc("network_id"))
    BY <1>1 DEF Of, Statements
  <2> HIDE DEF a, b
  <2> QED
    BY <2>1, <2>2, <2>3, ConsistsConcat
<1>2. CASE r = ContractInitial
  BY <1>2, ConsistsEmpty DEF Of, Statements
<1>3. CASE r = RouterTable
  BY <1>3, ConsistsStep DEF Of, Statements, CreateTable
<1>4. CASE r = TenantIndexes
  <2> DEFINE S(t) == {Statement("index", t, {"tenant_id"})}
             Seq1(t) == CreateIndex(t, "tenant_id")
  <2>1. \A t \in Renamed : Consists(Seq1(t), S(t))
    BY ConsistsStep DEF CreateIndex
  <2>2. \A t, u \in Renamed : t # u => Disjoint(S(t), S(u))
    BY DEF Disjoint, Statement
  <2>3. Consists(Seq1("bgpvpns") \o Seq1("networks"), S("bgpvpns") \cup S("networks"))
    BY <2>1, <2>2, ConsistsConcat DEF Renamed
  <2>4. Disjoint(S("bgpvpns") \cup S("networks"), S("routers"))
    BY <2>2 DEF Disjoint, Renamed
  <2>5. Consists((Seq1("bgpvpns") \o Seq1("networks")) \o Seq1("routers"),
                 (S("bgpvpns") \cup S("networks")) \cup S("routers"))
    BY <2>1, <2>3, <2>4, ConsistsConcat DEF Renamed
  <2>6. (S("bgpvpns") \cup S("networks")) \cup S("routers") = Of(r)
    BY <1>4 DEF Of, Renamed
  <2> QED
    BY <1>4, <2>5, <2>6 DEF Statements
<1>5. CASE r = PortTables
  <2> DEFINE a == Statement("columns", "ports", PortColumns)
             b == Statement("index", "ports", {"project_id"})
             c == Statement("columns", "routes", RouteColumns)
  <2>1. /\ Consists(CreateTable("ports", PortColumns), {a})
        /\ Consists(CreateIndex("ports", "project_id"), {b})
        /\ Consists(CreateTable("routes", RouteColumns), {c})
    BY ConsistsStep DEF CreateTable, CreateIndex
  <2>2. Disjoint({a}, {b}) /\ Disjoint({a} \cup {b}, {c})
    BY DEF Disjoint, Statement
  <2>3. ({a} \cup {b}) \cup {c} = Of(r) /\ Statements(r) =
          (CreateTable("ports", PortColumns) \o CreateIndex("ports", "project_id"))
             \o CreateTable("routes", RouteColumns)
    BY <1>5 DEF Of, Statements
  <2> HIDE DEF a, b, c
  <2>4. Consists(CreateTable("ports", PortColumns) \o CreateIndex("ports", "project_id"),
                 {a} \cup {b})
    BY <2>1, <2>2, ConsistsConcat
  <2>5. Consists((CreateTable("ports", PortColumns) \o CreateIndex("ports", "project_id"))
                    \o CreateTable("routes", RouteColumns), ({a} \cup {b}) \cup {c})
    BY <2>1, <2>2, <2>4, ConsistsConcat
  <2> QED
    BY <2>3, <2>5
<1>6. CASE r \in {Vni, ExtraRoutes, LocalPref}
  BY <1>6, ConsistsStep DEF Of, Statements, CreateTable
<1>7. CASE r = AddAttributes
  <2> DEFINE S(t) == {Statement("columns", t, {<<"standard_attr_id", Nullable>>})}
  <2>1. \A t \in HasStandardAttr : Consists(AttrColumn(t), S(t))
    BY ConsistsStep DEF AttrColumn, CreateTable
  <2>2. \A t, u \in HasStandardAttr : t # u => Disjoint(S(t), S(u))
    BY DEF Disjoint, Statement
  <2>3. Consists(AttrColumn("bgpvpns") \o AttrColumn("networks"), S("bgpvpns") \cup S("networks"))
    BY <2>1, <2>2, ConsistsConcat DEF HasStandardAttr
  <2>4. Disjoint(S("bgpvpns") \cup S("networks"), S("routers"))
    BY <2>2 DEF Disjoint, HasStandardAttr
  <2> DEFINE three == (S("bgpvpns") \cup S("networks")) \cup S("routers")
  <2>5. Consists((AttrColumn("bgpvpns") \o AttrColumn("networks")) \o AttrColumn("routers"), three)
    BY <2>1, <2>3, <2>4, ConsistsConcat DEF HasStandardAttr
  <2>6. Disjoint(three, S("ports"))
    BY <2>2 DEF Disjoint, HasStandardAttr
  <2>7. Consists(((AttrColumn("bgpvpns") \o AttrColumn("networks")) \o AttrColumn("routers"))
                    \o AttrColumn("ports"), three \cup S("ports"))
    BY <2>1, <2>5, <2>6, ConsistsConcat DEF HasStandardAttr
  <2>8. three \cup S("ports") = Of(r)
    BY <1>7 DEF Of, HasStandardAttr
  <2> QED
    BY <1>7, <2>7, <2>8 DEF Statements
<1>8. CASE r = FillAttributes
  BY <1>8, ConsistsFilling DEF Statements
<1> QED
  BY <1>1, <1>2, <1>3, <1>4, <1>5, <1>6, <1>7, <1>8 DEF Revision

-----------------------------------------------------------------------------
(***************************************************************************)
(* What the statements of a revision are about.                            *)
(***************************************************************************)

USE DEF Nullable, Required, Defaulted, UniqueAttr, Table, HasStandardAttr, Renamed

LEMMA NamesOfProduct ==
  ASSUME NEW S, NEW K, K # {}
  PROVE  Names(S \X K) = S
<1>1. \A c \in S \X K : c[1] \in S
  OBVIOUS
<1>2. \A n \in S, k \in K : <<n, k>> \in S \X K /\ <<n, k>>[1] = n
  OBVIOUS
<1> QED
  BY <1>1, <1>2 DEF Names

LEMMA NamesOfUnion ==
  ASSUME NEW S, NEW T
  PROVE  Names(S \cup T) = Names(S) \cup Names(T)
  BY DEF Names

LEMMA NamesOfColumns ==
  /\ Names(BgpvpnColumns) = {"id", "type", "route_targets", "name", "tenant_id",
                              "import_targets", "export_targets", "route_distinguishers"}
  /\ Names(PortColumns) = {"id", "project_id", "bgpvpn_id", "port_id", "advertise_fixed_ips"}
  /\ Names(RouteColumns) = {"id", "port_association_id", "type", "local_pref", "prefix", "bgpvpn_id"}
  /\ \A resource : Names(Assoc(resource)) = {"id", "tenant_id", "bgpvpn_id", resource}
  /\ \A c : Names({c}) = {c[1]}
<1> DEFINE b1 == {"id", "type", "route_targets"}
           b2 == {"name", "tenant_id", "import_targets", "export_targets", "route_distinguishers"}
           p1 == {"id", "project_id", "bgpvpn_id", "port_id"}
           r1 == {"id", "port_association_id", "type"}
           r2 == {"local_pref", "prefix", "bgpvpn_id"}
           required == {Required}
           nullable == {Nullable}
           fixed == {<<"advertise_fixed_ips", Defaulted>>}
<1>0. /\ BgpvpnColumns = (b1 \X required) \cup (b2 \X nullable)
      /\ PortColumns = (p1 \X required) \cup fixed
      /\ RouteColumns = (r1 \X required) \cup (r2 \X nullable)
      /\ \A resource : Assoc(resource) = {"id", "tenant_id", "bgpvpn_id", resource} \X required
      /\ required # {} /\ nullable # {} /\ Names(fixed) = {"advertise_fixed_ips"}
  BY DEF BgpvpnColumns, PortColumns, RouteColumns, Assoc, Names
<1>5. \A c : Names({c}) = {c[1]}
  BY DEF Names
<1> HIDE DEF b1, b2, p1, r1, r2, fixed, required, nullable
<1>6. Names(b1 \X required) = b1 /\ Names(p1 \X required) = p1 /\ Names(r1 \X required) = r1
  BY <1>0, NamesOfProduct
<1>7. Names(b2 \X nullable) = b2 /\ Names(r2 \X nullable) = r2
  BY <1>0, NamesOfProduct
<1>1. Names(BgpvpnColumns) = b1 \cup b2
  BY <1>0, <1>6, <1>7 DEF Names
<1>2. Names(PortColumns) = p1 \cup {"advertise_fixed_ips"}
  BY <1>0, <1>6 DEF Names
<1>3. Names(RouteColumns) = r1 \cup r2
  BY <1>0, <1>6, <1>7 DEF Names
<1>4. \A resource : Names(Assoc(resource)) = {"id", "tenant_id", "bgpvpn_id", resource}
  BY <1>0, NamesOfProduct
<1> QED
  BY <1>1, <1>2, <1>3, <1>4, <1>5 DEF b1, b2, p1, r1, r2

\* Which revisions have which statements.
LEMMA KindOfStatement ==
  ASSUME NEW r \in Revision, NEW s \in Of(r)
  PROVE  /\ s = Statement(s.do, s.table, s.new)
         /\ s.do \in {"columns", "index", "rename", "drop_index", "fill", "not_null", "foreign_key"}
         /\ s.table \in Table
         /\ s.do \in {"rename", "drop_index"} =>
              r = RenameTenant /\ s.table \in Renamed /\ s.new = {}
         /\ s.do \in {"fill", "not_null", "foreign_key"} =>
              r = FillAttributes /\ s.table \in HasStandardAttr /\ s.new = {}
         /\ r = RenameTenant => s.do \in {"rename", "drop_index", "index"}
         /\ r = TenantIndexes => s.do = "index" /\ s.table \in Renamed /\ s.new = {"tenant_id"}
         /\ r = AddAttributes => s.do = "columns"
         /\ r = FillAttributes => s.do \in {"fill", "not_null", "foreign_key", "index"}
  BY DEF Revision, Of, Statement

LEMMA ColumnsOfStatement ==
  ASSUME NEW r \in Revision, NEW s \in Of(r), s.do = "columns"
  PROVE  /\ s.new \subseteq Column
         /\ s.new \subseteq Allowed(s.table)
<1>1. /\ BgpvpnColumns \subseteq Column /\ RouteColumns \subseteq Column
      /\ PortColumns \subseteq Column
      /\ \A resource \in Name : Assoc(resource) \subseteq Column
  <2>1. BgpvpnColumns \subseteq Column /\ RouteColumns \subseteq Column
    BY DEF BgpvpnColumns, RouteColumns, Column, Name
  <2>2. PortColumns \subseteq Column
    BY DEF PortColumns, Column, Name
  <2>3. \A resource \in Name : Assoc(resource) \subseteq Column
    BY DEF Assoc, Column, Name
  <2> QED
    BY <2>1, <2>2, <2>3
<1>2. /\ \A name \in {"vni", "local_pref", "standard_attr_id"} : <<name, Nullable>> \in Column
      /\ ExtraRoutesColumn \in Column
      /\ {"network_id", "router_id"} \subseteq Name
  BY DEF ExtraRoutesColumn, Column, Name
<1>3. s.new \subseteq Column
  BY <1>1, <1>2 DEF Revision, Of, Statement
<1>4. /\ BgpvpnColumns \subseteq Allowed("bgpvpns")
      /\ PortColumns \subseteq Allowed("ports")
      /\ RouteColumns \subseteq Allowed("routes")
      /\ Assoc("network_id") \subseteq Allowed("networks")
      /\ Assoc("router_id") \subseteq Allowed("routers")
      /\ {<<"vni", Nullable>>, <<"local_pref", Nullable>>} \subseteq Allowed("bgpvpns")
      /\ ExtraRoutesColumn \in Allowed("routers")
      /\ \A t \in HasStandardAttr : <<"standard_attr_id", Nullable>> \in Allowed(t)
  <2>1. BgpvpnColumns \subseteq Allowed("bgpvpns")
    BY DEF BgpvpnColumns, Allowed, Models
  <2>2. PortColumns \subseteq Allowed("ports") /\ RouteColumns \subseteq Allowed("routes")
    BY DEF PortColumns, RouteColumns, Allowed, Models, AssocModel
  <2>3. /\ Assoc("network_id") \subseteq Allowed("networks")
        /\ Assoc("router_id") \subseteq Allowed("routers")
    BY DEF Assoc, Allowed, Models, AssocModel
  <2>4. /\ {<<"vni", Nullable>>, <<"local_pref", Nullable>>} \subseteq Allowed("bgpvpns")
        /\ ExtraRoutesColumn \in Allowed("routers")
    BY DEF Allowed, Models, ExtraRoutesColumn
  <2>5. \A t \in HasStandardAttr : <<"standard_attr_id", Nullable>> \in Allowed(t)
    BY DEF Allowed
  <2> QED
    BY <2>1, <2>2, <2>3, <2>4, <2>5
<1>5. s.new \subseteq Allowed(s.table)
  BY <1>4 DEF Revision, Of, Statement
<1> QED
  BY <1>3, <1>5

LEMMA IndexOfStatement ==
  ASSUME NEW r \in Revision, NEW s \in Of(r), s.do = "index"
  PROVE  /\ \E name \in Name : s.new = {name}
         /\ s.new \subseteq AllowedIndexes(s.table)
         /\ \A n \in s.new : IndexOrigin(s.table, n) = r
<1>1. \E name \in {"tenant_id", "project_id", UniqueAttr} : s.new = {name}
  BY DEF Revision, Of, Statement
<1>2. s.new \subseteq AllowedIndexes(s.table)
  BY DEF Revision, Of, Statement, AllowedIndexes, ModelIndexes
<1>3. \A n \in s.new : IndexOrigin(s.table, n) = r
  BY DEF Revision, Of, Statement, IndexOrigin
<1>4. {"tenant_id", "project_id", UniqueAttr} \subseteq Name
  BY DEF Name
<1> QED
  BY <1>1, <1>2, <1>3, <1>4

LEMMA OriginOfColumns ==
  ASSUME NEW r \in Revision, NEW s \in Of(r), s.do = "columns", NEW n \in Names(s.new)
  PROVE  Origin(s.table, n) = r
<1>1. PICK c \in s.new : n = c[1]
  BY DEF Names
<1>2. /\ r = Initial => \/ s.table = "bgpvpns" /\ c \in BgpvpnColumns
                        \/ s.table = "networks" /\ c \in Assoc("network_id")
      /\ r = RouterTable => s.table = "routers" /\ c \in Assoc("router_id")
      /\ r = PortTables => s.table \in {"ports", "routes"} /\ (s.table = "ports" => c \in PortColumns)
      /\ r = Vni => s.table = "bgpvpns" /\ c = <<"vni", Nullable>>
      /\ r = ExtraRoutes => s.table = "routers" /\ c = ExtraRoutesColumn
      /\ r = LocalPref => s.table = "bgpvpns" /\ c = <<"local_pref", Nullable>>
      /\ r = AddAttributes => s.table \in HasStandardAttr /\ c = <<"standard_attr_id", Nullable>>
      /\ r \in {Initial, RouterTable, PortTables, Vni, ExtraRoutes, LocalPref, AddAttributes}
  BY DEF Revision, Of, Statement
<1>3. /\ c \in BgpvpnColumns => n \in Names(BgpvpnColumns)
      /\ c \in PortColumns => n \in Names(PortColumns)
      /\ \A resource : c \in Assoc(resource) => n \in Names(Assoc(resource))
  BY <1>1 DEF Names
<1> QED
  BY <1>1, <1>2, <1>3, NamesOfColumns DEF Origin, ExtraRoutesColumn

-----------------------------------------------------------------------------
(***************************************************************************)
(* The revision under way.                                                 *)
(***************************************************************************)

Whats == {"columns", "index", "rename", "drop_index", "fill", "not_null", "foreign_key"}

LEMMA JobOf ==
  ASSUME NEW r \in Revision, NEW l \in Seq(Of(r))
  PROVE  /\ [revision |-> r, left |-> l] \in Job
         /\ [revision |-> r, left |-> l] # None
<1> DEFINE S == [do : Whats, table : Table, new : SUBSET (Name \cup Column)]
<1>1. \A s \in Of(r) : s \in S
  <2> SUFFICES ASSUME NEW s \in Of(r) PROVE s \in S
    OBVIOUS
  <2>1. s = Statement(s.do, s.table, s.new) /\ s.do \in Whats /\ s.table \in Table
    BY KindOfStatement DEF Whats
  <2>2. s.new \subseteq Name \cup Column
    <3>1. CASE s.do = "columns"
      BY <3>1, ColumnsOfStatement
    <3>2. CASE s.do = "index"
      BY <3>2, IndexOfStatement
    <3>3. CASE s.do \notin {"columns", "index"}
      <4>1. s.new = {}
        BY <2>1, <3>3, KindOfStatement
      <4> QED
        BY <4>1
    <3> QED
      BY <3>1, <3>2, <3>3
  <2> QED
    BY <2>1, <2>2 DEF Statement
<1>2. l \in Seq(S)
  BY <1>1, SeqMonotonic
<1>3. [revision |-> r, left |-> l] \in Job
  BY <1>2 DEF Job, Whats
<1> QED
  BY <1>3, NoneAssumption

\* The first of the statements, and the others.
LEMMA HeadAndTail ==
  ASSUME NEW r \in Revision, NEW l \in Seq(Of(r)), l # <<>>, Apart(l)
  PROVE  /\ Head(l) \in Of(r) /\ Head(l) \in Range(l)
         /\ Tail(l) \in Seq(Of(r)) /\ Apart(Tail(l))
         /\ \A s \in Range(l) : s = Head(l) \/ s \in Range(Tail(l))
         /\ \A s \in Range(Tail(l)) :
              s \in Range(l) /\ s \in Of(r) /\ (s.do # Head(l).do \/ s.table # Head(l).table)
         /\ 1 \in DOMAIN l /\ Head(l) = l[1]
         /\ \A i \in DOMAIN Tail(l) : i + 1 \in DOMAIN l /\ Tail(l)[i] = l[i + 1]
         /\ \A i \in DOMAIN l : i # 1 => i - 1 \in DOMAIN Tail(l) /\ Tail(l)[i - 1] = l[i]
         /\ DOMAIN l \subseteq Nat \ {0} /\ DOMAIN Tail(l) \subseteq Nat \ {0}
<1> DEFINE k == Tail(l)
           h == Head(l)
<1>1. /\ h \in Of(r) /\ k \in Seq(Of(r)) /\ Len(k) = Len(l) - 1
      /\ \A i \in 1..Len(k) : k[i] = l[i + 1]
  BY HeadTailProperties
<1>2. /\ Len(l) \in Nat /\ Len(k) \in Nat /\ DOMAIN l = 1..Len(l) /\ DOMAIN k = 1..Len(k)
  BY <1>1, LenProperties
<1>3. h = l[1] /\ 1 \in DOMAIN l
  BY <1>2, EmptySeq
<1>4. \A i \in DOMAIN k : i + 1 \in DOMAIN l /\ i + 1 # 1 /\ k[i] = l[i + 1]
  BY <1>1, <1>2
<1>5. \A i \in DOMAIN l : i # 1 => i - 1 \in DOMAIN k /\ k[i - 1] = l[i]
  BY <1>1, <1>2
<1>6. DOMAIN l \subseteq Nat \ {0} /\ DOMAIN k \subseteq Nat \ {0}
  BY <1>2
<1>7. \A i \in DOMAIN k : k[i] \in Of(r)
  BY <1>1, <1>2, ElementOfSeq
<1> HIDE DEF k, h
<1>8. Apart(k)
  BY <1>4, <1>6 DEF Apart
<1>9. \A s \in Range(l) : s = h \/ s \in Range(k)
  BY <1>3, <1>5 DEF Range
<1>10. \A s \in Range(k) : s \in Range(l) /\ s \in Of(r) /\ (s.do # h.do \/ s.table # h.table)
  BY <1>3, <1>4, <1>7 DEF Range, Apart
<1>11. h \in Range(l)
  BY <1>3 DEF Range
<1> QED
  BY <1>1, <1>3, <1>4, <1>5, <1>6, <1>8, <1>9, <1>10, <1>11 DEF k, h

\* What a statement does when it succeeds.
Effect(s) ==
  /\ \A t \in Table : t # s.table => columns'[t] = columns[t] /\ indexes'[t] = indexes[t]
  /\ s.do = "columns" => columns'[s.table] = columns[s.table] \cup s.new /\ New(s)
  /\ s.do = "rename" => columns'[s.table] =
       {IF c[1] = "tenant_id" THEN <<"project_id", c[2]>> ELSE c : c \in columns[s.table]}
  /\ s.do = "not_null" => Filled(s.table) /\ columns'[s.table] =
       {IF c[1] = "standard_attr_id" THEN <<c[1], Required>> ELSE c : c \in columns[s.table]}
  /\ s.do \notin {"columns", "rename", "not_null"} => columns' = columns
  /\ s.do = "index" => indexes'[s.table] = indexes[s.table] \cup s.new /\ New(s)
  /\ s.do = "drop_index" => indexes'[s.table] = indexes[s.table] \ {"tenant_id"}
  /\ s.do \notin {"index", "drop_index"} => indexes' = indexes
  /\ s.do # "fill" => UNCHANGED <<attr, standard>>

\* A statement fails, and the revision ends there.
Failure(s) ==
  /\ doing' = None /\ stuck' = TRUE
  /\ UNCHANGED <<columns, indexes, attr, standard>>
  /\ \/ s.do \in {"columns", "index"} /\ ~ New(s)
     \/ s.do = "not_null" /\ ~ Filled(s.table)

\* Or it succeeds, and the others are left.
Success(s) ==
  /\ Effect(s)
  /\ doing' = [doing EXCEPT !.left = Tail(@)] /\ stuck' = stuck
  /\ doing' # None /\ doing'.revision = doing.revision /\ doing'.left = Tail(doing.left)

LEMMA RunningJob ==
  ASSUME TypeInv, RunStatement
  PROVE  /\ doing # None /\ doing \in Job /\ doing.revision \in Revision
         /\ doing.left \in Seq(Of(doing.revision)) /\ doing.left # <<>> /\ Apart(doing.left)
         /\ Subject \in Of(doing.revision) /\ Subject.table \in Table
<1>1. /\ doing # None /\ doing \in Job /\ doing.revision \in Revision
      /\ doing.left \in Seq(Of(doing.revision)) /\ doing.left # <<>> /\ Apart(doing.left)
  BY DEF TypeInv, RunStatement, Runs, Job, AddColumns, AddIndex, DropTenantIndex, RenameColumn,
         FillRows, SetNotNull, AddForeignKey
<1> QED
  BY <1>1, HeadAndTail, KindOfStatement DEF Subject

LEMMA RunEffect ==
  ASSUME TypeInv, RunStatement
  PROVE  /\ UNCHANGED <<stamped, rows, server, rejected, interrupted, crashes>>
         /\ Failure(Subject) \/ Success(Subject)
<1> DEFINE s == Subject
           t == Subject.table
<1>1. /\ doing # None /\ doing \in Job /\ doing.revision \in Revision
      /\ doing.left \in Seq(Of(doing.revision)) /\ doing.left # <<>> /\ Apart(doing.left)
      /\ s \in Of(doing.revision) /\ t \in Table
  BY RunningJob
<1>2. Done => /\ doing' = [doing EXCEPT !.left = Tail(@)] /\ stuck' = stuck
              /\ doing' # None /\ doing'.revision = doing.revision /\ doing'.left = Tail(doing.left)
  <2>1. doing = [revision |-> doing.revision, left |-> doing.left]
    BY <1>1 DEF Job
  <2>2. Done => doing' = [revision |-> doing.revision, left |-> Tail(doing.left)]
    BY <2>1 DEF Done
  <2>3. Tail(doing.left) \in Seq(Of(doing.revision))
    BY <1>1, HeadAndTail
  <2> QED
    BY <1>1, <2>2, <2>3, JobOf DEF Done
<1>3. /\ columns \in [Table -> SUBSET Column] /\ indexes \in [Table -> SUBSET Name]
  BY DEF TypeInv
<1> HIDE DEF s
<1>4. CASE AddColumns
  <2>1. s.do = "columns"
    BY <1>4 DEF AddColumns, Runs, s, Subject
  <2>2. Names(s.new) \cap Names(columns[t]) = {} <=> New(s)
    BY <2>1 DEF New, s
  <2> QED
    BY <1>1, <1>2, <1>3, <1>4, <2>1, <2>2
    DEF AddColumns, Effect, Failure, Success, Fail, Done, schema, data, s
<1>5. CASE AddIndex
  <2>1. s.do = "index"
    BY <1>5 DEF AddIndex, Runs, s, Subject
  <2>2. s.new \cap indexes[t] = {} <=> New(s)
    BY <2>1 DEF New, s
  <2> QED
    BY <1>1, <1>2, <1>3, <1>5, <2>1, <2>2
    DEF AddIndex, Effect, Failure, Success, Fail, Done, schema, data, s
<1>6. CASE DropTenantIndex
  <2>1. s.do = "drop_index"
    BY <1>6 DEF DropTenantIndex, Runs, s, Subject
  <2> QED
    BY <1>1, <1>2, <1>3, <1>6, <2>1 DEF DropTenantIndex, Effect, Success, schema, data, s
<1>7. CASE RenameColumn
  <2>1. s.do = "rename"
    BY <1>7 DEF RenameColumn, Runs, s, Subject
  <2> QED
    BY <1>1, <1>2, <1>3, <1>7, <2>1 DEF RenameColumn, Effect, Success, schema, data, s
<1>8. CASE FillRows
  <2>1. s.do = "fill"
    BY <1>8 DEF FillRows, Runs, s, Subject
  <2> QED
    BY <1>1, <1>2, <1>3, <1>8, <2>1 DEF FillRows, Effect, Success, schema, data, s
<1>9. CASE SetNotNull
  <2>1. s.do = "not_null"
    BY <1>9 DEF SetNotNull, Runs, s, Subject
  <2>2. (\A x \in rows[t] : attr[x] # None) <=> Filled(t)
    BY DEF Filled
  <2> QED
    BY <1>1, <1>2, <1>3, <1>9, <2>1, <2>2
    DEF SetNotNull, Effect, Failure, Success, Fail, Done, schema, data, s
<1>10. CASE AddForeignKey
  <2>1. s.do = "foreign_key"
    BY <1>10 DEF AddForeignKey, Runs, s, Subject
  <2> QED
    BY <1>1, <1>2, <1>3, <1>10, <2>1 DEF AddForeignKey, Effect, Success, schema, data, s
<1> QED
  BY <1>4, <1>5, <1>6, <1>7, <1>8, <1>9, <1>10 DEF RunStatement, s

\* Which action ran the statement.
LEMMA RunsFill ==
  ASSUME TypeInv, RunStatement, Subject.do = "fill"
  PROVE  FillRows
  BY DEF RunStatement, Runs, Subject, AddColumns, AddIndex, DropTenantIndex, RenameColumn,
         SetNotNull, AddForeignKey

LEMMA FillEffect ==
  ASSUME TypeInv, RunStatement, Subject.do = "fill"
  PROVE  /\ Subject.table \in HasStandardAttr
         /\ attr' \in [Id -> Nat \cup {None}] /\ standard' \in Seq(HasStandardAttr)
         /\ \A x \in Id \ rows[Subject.table] : attr'[x] = attr[x]
         /\ \A x \in rows[Subject.table] :
              /\ attr'[x] \in Nat /\ attr'[x] > Len(standard)
              /\ attr'[x] \in DOMAIN standard' /\ standard'[attr'[x]] = Subject.table
         /\ \A x, y \in rows[Subject.table] : attr'[x] = attr'[y] => x = y
         /\ \A i \in DOMAIN standard :
              i \in DOMAIN standard' /\ standard'[i] = standard[i] /\ i <= Len(standard)
<1> DEFINE t == Subject.table
           n == Len(standard)
           count == Cardinality(rows[t])
           more == [i \in 1..count |-> t]
<1>1. FillRows
  BY RunsFill
<1>2. t \in HasStandardAttr
  BY RunningJob, KindOfStatement
<1>3. /\ standard \in Seq(HasStandardAttr) /\ n \in Nat /\ DOMAIN standard = 1..n
      /\ attr \in [Id -> Nat \cup {None}] /\ rows[t] \subseteq Id /\ IsFiniteSet(rows[t])
  BY <1>2, LenProperties DEF TypeInv
<1>4. count \in Nat
  BY <1>3, FS_CardinalityType
<1>5. PICK order \in [rows[t] -> (n + 1)..(n + count)] :
        /\ \A x, y \in rows[t] : order[x] = order[y] => x = y
        /\ attr' = [x \in Id |-> IF x \in rows[t] THEN order[x] ELSE attr[x]]
        /\ standard' = standard \o more
  BY <1>1 DEF FillRows
<1> HIDE DEF t, n, count
<1>6. /\ more \in Seq(HasStandardAttr) /\ Len(more) = count
      /\ \A i \in 1..count : more[i] = t
  BY <1>2, <1>4
<1> HIDE DEF more
<1>7. /\ standard' \in Seq(HasStandardAttr) /\ Len(standard') = n + count
      /\ \A i \in 1..(n + count) : standard'[i] = IF i <= n THEN standard[i] ELSE more[i - n]
  <2> DEFINE Types == HasStandardAttr
  <2>0. standard \in Seq(Types) /\ more \in Seq(Types)
    BY <1>3, <1>6
  <2> HIDE DEF Types
  <2>1. /\ standard \o more \in Seq(Types)
        /\ Len(standard \o more) = Len(standard) + Len(more)
        /\ \A i \in 1..(Len(standard) + Len(more)) :
             (standard \o more)[i] = IF i <= Len(standard) THEN standard[i] ELSE more[i - Len(standard)]
    BY <2>0, ConcatProperties
  <2> QED
    BY <1>5, <1>6, <2>1 DEF n, Types
<1>8. DOMAIN standard' = 1..(n + count)
  BY <1>7, LenProperties
<1>9. \A x \in rows[t] : /\ attr'[x] = order[x] /\ order[x] \in (n + 1)..(n + count)
                         /\ order[x] - n \in 1..count
  BY <1>3, <1>4, <1>5
<1>10. \A x \in rows[t] : /\ attr'[x] \in Nat /\ attr'[x] > n
                          /\ attr'[x] \in DOMAIN standard' /\ standard'[attr'[x]] = t
  BY <1>3, <1>4, <1>6, <1>7, <1>8, <1>9
<1>11. \A x \in Id \ rows[t] : attr'[x] = attr[x]
  BY <1>5
<1>12. attr' \in [Id -> Nat \cup {None}]
  BY <1>3, <1>5, <1>10, <1>11
<1>13. \A x, y \in rows[t] : attr'[x] = attr'[y] => x = y
  BY <1>5, <1>9
<1>14. \A i \in DOMAIN standard : i \in DOMAIN standard' /\ standard'[i] = standard[i] /\ i <= n
  BY <1>3, <1>4, <1>7, <1>8
<1> QED
  BY <1>2, <1>7, <1>10, <1>11, <1>12, <1>13, <1>14 DEF t, n

LEMMA InsertEffect ==
  ASSUME TypeInv, NEW t \in Written, NEW x \in Id, InsertRow(t, x), Accepts(t)
  PROVE  /\ t \in HasStandardAttr /\ rows' = [rows EXCEPT ![t] = @ \cup {x}]
         /\ "standard_attr_id" \notin server[t] => UNCHANGED <<attr, standard>>
         /\ "standard_attr_id" \in server[t] =>
              /\ attr' \in [Id -> Nat \cup {None}] /\ standard' \in Seq(HasStandardAttr)
              /\ \A y \in Id \ {x} : attr'[y] = attr[y]
              /\ attr'[x] \in Nat /\ attr'[x] > Len(standard)
              /\ attr'[x] \in DOMAIN standard' /\ standard'[attr'[x]] = t
              /\ \A i \in DOMAIN standard :
                   i \in DOMAIN standard' /\ standard'[i] = standard[i] /\ i <= Len(standard)

<1> DEFINE n == Len(standard)
<1>1. t \in HasStandardAttr /\ rows' = [rows EXCEPT ![t] = @ \cup {x}]
  BY WrittenAssumption DEF InsertRow
<1>2. CASE "standard_attr_id" \notin server[t]
  BY <1>1, <1>2 DEF InsertRow
<1>3. CASE "standard_attr_id" \in server[t]
  <2>1. /\ standard \in Seq(HasStandardAttr) /\ n \in Nat /\ DOMAIN standard = 1..n
        /\ attr \in [Id -> Nat \cup {None}]
    BY LenProperties DEF TypeInv
  <2>2. standard' = Append(standard, t) /\ attr' = [attr EXCEPT ![x] = Len(standard')]
    BY <1>3 DEF InsertRow
  <2>3. /\ Append(standard, t) \in Seq(HasStandardAttr) /\ Len(Append(standard, t)) = n + 1
        /\ \A i \in 1..n : Append(standard, t)[i] = standard[i]
        /\ Append(standard, t)[n + 1] = t
    BY <1>1, <2>1, AppendProperties
  <2>4. DOMAIN standard' = 1..(n + 1)
    BY <2>2, <2>3, LenProperties
  <2>5. attr'[x] = n + 1 /\ \A y \in Id \ {x} : attr'[y] = attr[y]
    BY <2>1, <2>2, <2>3
  <2>6. attr' \in [Id -> Nat \cup {None}]
    BY <2>1, <2>2, <2>3
  <2>7. \A i \in DOMAIN standard : i \in DOMAIN standard' /\ standard'[i] = standard[i] /\ i <= n
    BY <2>1, <2>2, <2>3, <2>4
  <2>8. n + 1 \in Nat /\ n + 1 > n /\ n + 1 \in 1..(n + 1)
    BY <2>1
  <2> HIDE DEF n, HasStandardAttr
  <2> QED
    BY <1>1, <1>3, <2>2, <2>3, <2>4, <2>5, <2>6, <2>7, <2>8 DEF n
<1> QED
  BY <1>2, <1>3

\* The statements of the renaming depend on what it finds when it starts.
Due(t) ==
  IF "tenant_id" \notin Names(columns[t]) THEN {}
  ELSE {Statement("rename", t, {})} \cup
         (IF "tenant_id" \in indexes[t]
          THEN {Statement("drop_index", t, {})} \cup {Statement("index", t, {"project_id"})} ELSE {})

LEMMA ConsistsRenaming ==
  /\ Consists(Renaming, UNION {Due(t) : t \in Renamed})
  /\ UNION {Due(t) : t \in Renamed} \subseteq Of(RenameTenant)
<1> DEFINE R(t) == Step("rename", t, {})
           D(t) == Step("drop_index", t, {})
           I(t) == CreateIndex(t, "project_id")
           r(t) == {Statement("rename", t, {})}
           d(t) == {Statement("drop_index", t, {})}
           i(t) == {Statement("index", t, {"project_id"})}
<1>1. \A t : Consists(RenameSteps(t), Due(t))
  <2> SUFFICES ASSUME NEW t PROVE Consists(RenameSteps(t), Due(t))
    OBVIOUS
  <2>1. Consists(R(t), r(t)) /\ Consists(D(t), d(t)) /\ Consists(I(t), i(t))
    BY ConsistsStep DEF CreateIndex
  <2>2. Disjoint(d(t), i(t)) /\ Disjoint(r(t), d(t) \cup i(t)) /\ Disjoint(r(t), {})
    BY DEF Disjoint, Statement
  <2>3. Consists(D(t) \o I(t), d(t) \cup i(t))
    BY <2>1, <2>2, ConsistsConcat
  <2>4. Consists(R(t) \o (D(t) \o I(t)), r(t) \cup (d(t) \cup i(t)))
    BY <2>1, <2>2, <2>3, ConsistsConcat
  <2>5. Consists(R(t) \o <<>>, r(t) \cup {})
    BY <2>1, <2>2, ConsistsConcat, ConsistsEmpty
  <2>6. CASE "tenant_id" \notin Names(columns[t])
    BY <2>6, ConsistsEmpty DEF RenameSteps, Due
  <2>7. CASE "tenant_id" \in Names(columns[t]) /\ "tenant_id" \in indexes[t]
    <3>1. RenameSteps(t) = R(t) \o (D(t) \o I(t)) /\ Due(t) = r(t) \cup (d(t) \cup i(t))
      BY <2>7 DEF RenameSteps, Due
    <3> HIDE DEF R, D, I, r, d, i
    <3> QED
      BY <2>4, <3>1
  <2>8. CASE "tenant_id" \in Names(columns[t]) /\ "tenant_id" \notin indexes[t]
    <3>1. RenameSteps(t) = R(t) \o <<>> /\ Due(t) = r(t) \cup {}
      BY <2>8 DEF RenameSteps, Due
    <3> HIDE DEF R, D, I, r, d, i
    <3> QED
      BY <2>5, <3>1
  <2> QED
    BY <2>6, <2>7, <2>8
<1>2. \A t : Due(t) \subseteq r(t) \cup d(t) \cup i(t)
  BY DEF Due
<1>3. \A t, u : t # u => Disjoint(Due(t), Due(u))
  BY <1>2 DEF Disjoint, Statement
<1>4. Consists(RenameSteps("routers") \o RenameSteps("bgpvpns"), Due("routers") \cup Due("bgpvpns"))
  BY <1>1, <1>3, ConsistsConcat
<1>5. Disjoint(Due("routers") \cup Due("bgpvpns"), Due("networks"))
  BY <1>3 DEF Disjoint
<1>6. Consists((RenameSteps("routers") \o RenameSteps("bgpvpns")) \o RenameSteps("networks"),
               (Due("routers") \cup Due("bgpvpns")) \cup Due("networks"))
  BY <1>1, <1>4, <1>5, ConsistsConcat
<1>7. (Due("routers") \cup Due("bgpvpns")) \cup Due("networks") = UNION {Due(t) : t \in Renamed}
  <2> HIDE DEF r, d, i
  <2> QED
    OBVIOUS
<1>8. UNION {Due(t) : t \in Renamed} \subseteq Of(RenameTenant)
  BY <1>2 DEF Of, Revision
<1> QED
  BY <1>6, <1>7, <1>8 DEF Renaming

\* What an upgrade has to do.
LEMMA Upgrading ==
  ASSUME NEW r \in Revision, Upgrade(r)
  PROVE  /\ doing' # None /\ doing' \in Job /\ doing'.revision = r /\ doing'.left = Statements(r)
         /\ Statements(r) \in Seq(Of(r)) /\ Apart(Statements(r))
         /\ r # RenameTenant => Range(Statements(r)) = Of(r)
         /\ r = RenameTenant => Range(Statements(r)) = UNION {Due(t) : t \in Renamed}
         /\ \A s \in Range(Statements(r)) : s \in Of(r)
         /\ \A i \in DOMAIN Statements(r) : Statements(r)[i].do = "not_null" =>
              \E j \in 1..(i - 1) : /\ Statements(r)[j].do = "fill"
                                    /\ Statements(r)[j].table = Statements(r)[i].table
<1> DEFINE S == IF r = RenameTenant THEN UNION {Due(t) : t \in Renamed} ELSE Of(r)
<1>1. Consists(Statements(r), S) /\ S \subseteq Of(r)
  <2>1. CASE r = RenameTenant
    <3>1. Statements(r) = Renaming
      BY <2>1 DEF Statements
    <3> QED
      BY <2>1, <3>1, ConsistsRenaming
  <2>2. CASE r # RenameTenant
    BY <2>2, ConsistsStatements
  <2> QED
    BY <2>1, <2>2
<1>2. Statements(r) \in Seq(Of(r))
  BY <1>1, SeqMonotonic DEF Consists
<1>3. doing' = [revision |-> r, left |-> Statements(r)]
  BY DEF Upgrade
<1> QED
  BY <1>1, <1>2, <1>3, JobOf DEF Consists

-----------------------------------------------------------------------------
(***************************************************************************)
(* Types, and the order of the revisions.                                  *)
(***************************************************************************)

USE DEF schema, data, trouble

LEMMA TypeInit == Init => TypeInv
<1> SUFFICES ASSUME Init PROVE TypeInv
  OBVIOUS
<1>1. IsFiniteSet({})
  BY FS_EmptySet
<1>2. <<>> \in Seq(HasStandardAttr)
  OBVIOUS
<1> QED
  BY <1>1, <1>2 DEF Init, TypeInv

LEMMA ColumnsType ==
  ASSUME TypeInv, RunStatement, Success(Subject)
  PROVE  columns' \in [Table -> SUBSET Column] /\ indexes' \in [Table -> SUBSET Name]
<1> DEFINE s == Subject
<1>1. /\ s \in Of(doing.revision) /\ doing.revision \in Revision /\ s.table \in Table
  BY RunningJob
<1>2. /\ columns \in [Table -> SUBSET Column] /\ indexes \in [Table -> SUBSET Name]
  BY DEF TypeInv
<1>3. \A k : k \in {Nullable, Required, Defaulted} =>
        <<"project_id", k>> \in Column /\ <<"standard_attr_id", Required>> \in Column
  BY DEF Column, Name
<1>4. \A c \in Column : c[2] \in {Nullable, Required, Defaulted}
  BY DEF Column
<1>5. s.do = "columns" => s.new \subseteq Column
  BY <1>1, ColumnsOfStatement
<1>6. s.do = "index" => s.new \subseteq Name
  BY <1>1, IndexOfStatement
<1>7. UNION {columns'[t] : t \in Table} \subseteq Column /\ UNION {indexes'[t] : t \in Table} \subseteq Name
  <2> SUFFICES ASSUME NEW t \in Table PROVE columns'[t] \subseteq Column /\ indexes'[t] \subseteq Name
    OBVIOUS
  <2> HIDE DEF s, Table
  <2>1. CASE t # s.table
    BY <1>2, <2>1 DEF Success, Effect, s
  <2>2. CASE t = s.table
    <3>1. indexes'[t] \subseteq Name
      BY <1>2, <1>6, <2>2 DEF Success, Effect, s
    <3>2. columns'[t] \subseteq Column
      <4>1. columns[t] \subseteq Column
        BY <1>2
      <4>2. CASE s.do \in {"rename", "not_null"}
        <5>1. \A c \in columns[t] : /\ <<"project_id", c[2]>> \in Column
                                    /\ <<"standard_attr_id", Required>> \in Column
          BY <1>3, <1>4, <4>1
        <5>2. \A c \in columns'[t] : \/ c \in columns[t]
                                     \/ \E b \in columns[t] : c = <<"project_id", b[2]>>
                                     \/ c = <<"standard_attr_id", Required>>
          BY <2>2, <4>2 DEF Success, Effect, s
        <5>3. \A c \in columns'[t] : columns[t] # {}
          BY <2>2, <4>2 DEF Success, Effect, s
        <5> QED
          BY <4>1, <5>1, <5>2, <5>3
      <4>3. CASE s.do \notin {"rename", "not_null"}
        BY <1>5, <2>2, <4>1, <4>3 DEF Success, Effect, s
      <4> QED
        BY <4>2, <4>3
    <3> QED
      BY <3>1, <3>2
  <2> QED
    BY <2>1, <2>2
<1>8. DOMAIN columns' = Table /\ DOMAIN indexes' = Table
        /\ columns' = [t \in Table |-> columns'[t]] /\ indexes' = [t \in Table |-> indexes'[t]]
  BY <1>2 DEF RunStatement, AddColumns, AddIndex, DropTenantIndex, RenameColumn, FillRows,
              SetNotNull, AddForeignKey
<1> QED
  BY <1>7, <1>8

LEMMA TypeStep == TypeInv /\ [Next]_vars => TypeInv'
<1> SUFFICES ASSUME TypeInv, [Next]_vars PROVE TypeInv'
  OBVIOUS
<1> USE DEF TypeInv
<1>1. CASE \E r \in Revision : Upgrade(r)
  <2>1. PICK r \in Revision : Upgrade(r)
    BY <1>1
  <2>2. /\ doing' \in Job /\ doing'.revision = r /\ doing'.left = Statements(r)
        /\ Statements(r) \in Seq(Of(r)) /\ Apart(Statements(r))
    BY <2>1, Upgrading
  <2>3. doing'.left \in Seq(Of(doing'.revision)) /\ Apart(doing'.left)
    BY <2>2
  <2>4. UNCHANGED <<stamped, columns, indexes, rows, attr, standard, server, interrupted>>
    BY <2>1 DEF Upgrade
  <2> QED
    BY <2>2, <2>3, <2>4
<1>2. CASE RunStatement
  <2>1. /\ UNCHANGED <<stamped, rows, server, interrupted>>
        /\ Failure(Subject) \/ Success(Subject)
    BY <1>2, RunEffect
  <2>2. CASE Failure(Subject)
    BY <2>1, <2>2 DEF Failure
  <2>3. CASE Success(Subject)
    <3>1. /\ doing \in Job /\ doing.revision \in Revision /\ doing.left # <<>> /\ doing # None
      BY <1>2, RunningJob
    <3>2. Tail(doing.left) \in Seq(Of(doing.revision)) /\ Apart(Tail(doing.left))
      BY <3>1, HeadAndTail
    <3>3. doing' = [revision |-> doing.revision, left |-> Tail(doing.left)]
      BY <2>3, <3>1 DEF Success, Job
    <3>4. doing' \in Job /\ doing'.left \in Seq(Of(doing'.revision)) /\ Apart(doing'.left)
      BY <3>1, <3>2, <3>3, JobOf
    <3>5. columns' \in [Table -> SUBSET Column] /\ indexes' \in [Table -> SUBSET Name]
      BY <1>2, <2>3, ColumnsType
    <3>6. attr' \in [Id -> Nat \cup {None}] /\ standard' \in Seq(HasStandardAttr)
      BY <1>2, <2>3, FillEffect DEF Success, Effect
    <3> QED
      BY <2>1, <3>4, <3>5, <3>6
  <2> QED
    BY <2>1, <2>2, <2>3
<1>3. CASE Stamp
  BY <1>3 DEF Stamp, Job
<1>4. CASE Crash
  BY <1>4 DEF Crash, Job
<1>5. CASE StartServer
  <2>1. \A t \in Table : Names(columns[t]) \subseteq Name
    BY DEF Names, Column
  <2>2. server' \in [Table -> SUBSET Name]
    BY <1>5, <2>1 DEF StartServer
  <2> QED
    BY <1>5, <2>2 DEF StartServer
<1>6. CASE StopServer
  BY <1>6 DEF StopServer
<1>7. CASE \E t \in Written, x \in Id : InsertRow(t, x)
  <2>1. PICK t \in Written, x \in Id : InsertRow(t, x)
    BY <1>7
  <2>2. CASE Accepts(t)
    <3>1. t \in HasStandardAttr /\ rows' = [rows EXCEPT ![t] = @ \cup {x}]
      BY <2>1, <2>2, InsertEffect
    <3>2. attr' \in [Id -> Nat \cup {None}] /\ standard' \in Seq(HasStandardAttr)
      BY <2>1, <2>2, InsertEffect
    <3>3. IsFiniteSet(rows[t] \cup {x})
      BY <3>1, FS_AddElement
    <3>4. /\ rows' \in [Table -> SUBSET Id] /\ \A u \in Table : IsFiniteSet(rows'[u])
      BY <3>1, <3>3
    <3> QED
      BY <2>1, <3>2, <3>4 DEF InsertRow
  <2>3. CASE ~ Accepts(t)
    BY <2>1, <2>3 DEF InsertRow
  <2> QED
    BY <2>2, <2>3
<1>8. CASE UNCHANGED vars
  BY <1>8 DEF vars
<1> QED
  BY <1>1, <1>2, <1>3, <1>4, <1>5, <1>6, <1>7, <1>8 DEF Next

LEMMA OrderInit == Init => InOrder
  BY DEF Init, InOrder, Revision

LEMMA OrderStep == TypeInv /\ InOrder /\ [Next]_vars => InOrder'
<1> SUFFICES ASSUME TypeInv, InOrder, [Next]_vars PROVE InOrder'
  OBVIOUS
<1> USE DEF InOrder, Ready
<1>1. CASE \E r \in Revision : Upgrade(r)
  <2>1. PICK r \in Revision : Upgrade(r)
    BY <1>1
  <2>2. doing' # None /\ doing'.revision = r
    BY <2>1, Upgrading
  <2> QED
    BY <2>1, <2>2 DEF Upgrade
<1>2. CASE RunStatement
  <2>1. /\ UNCHANGED <<stamped, server>>
        /\ Failure(Subject) \/ Success(Subject)
        /\ doing # None /\ doing.revision \in Revision
    BY <1>2, RunEffect, RunningJob
  <2> QED
    BY <2>1 DEF Failure, Success
<1>3. CASE Stamp
  BY <1>3 DEF Stamp
<1>4. CASE Crash
  BY <1>4 DEF Crash
<1>5. CASE StartServer
  BY <1>5 DEF StartServer
<1>6. CASE StopServer
  BY <1>6 DEF StopServer
<1>7. CASE \E t \in Written, x \in Id : InsertRow(t, x)
  BY <1>7 DEF InsertRow
<1>8. CASE UNCHANGED vars
  BY <1>8 DEF vars
<1> QED
  BY <1>1, <1>2, <1>3, <1>4, <1>5, <1>6, <1>7, <1>8 DEF Next

-----------------------------------------------------------------------------
(***************************************************************************)
(* What is there comes from a revision that was begun.                     *)
(***************************************************************************)

LEMMA BegunStays ==
  ASSUME TypeInv, [Next]_vars, NEW r, Begun(r)
  PROVE  Begun(r)'
<1> USE DEF Begun, Under
<1>1. CASE \E q \in Revision : Upgrade(q)
  BY <1>1 DEF Upgrade
<1>2. CASE RunStatement
  <2>1. /\ UNCHANGED <<stamped, interrupted>>
        /\ Failure(Subject) \/ Success(Subject)
    BY <1>2, RunEffect
  <2> QED
    BY <2>1 DEF Failure, Success
<1>3. CASE Stamp
  BY <1>3 DEF Stamp
<1>4. CASE Crash
  BY <1>4 DEF Crash
<1>5. CASE StartServer
  BY <1>5 DEF StartServer
<1>6. CASE StopServer
  BY <1>6 DEF StopServer
<1>7. CASE \E t \in Written, x \in Id : InsertRow(t, x)
  BY <1>7 DEF InsertRow
<1>8. CASE UNCHANGED vars
  BY <1>8 DEF vars
<1> QED
  BY <1>1, <1>2, <1>3, <1>4, <1>5, <1>6, <1>7, <1>8 DEF Next

\* Only a statement that succeeds changes the tables.
LEMMA SchemaStep ==
  ASSUME TypeInv, [Next]_vars
  PROVE  (RunStatement /\ Success(Subject)) \/ UNCHANGED <<columns, indexes>>
  BY RunEffect DEF Next, vars, Failure, Upgrade, Stamp, Crash, StartServer, StopServer, InsertRow

LEMMA NamesAfter ==
  ASSUME TypeInv, RunStatement, Success(Subject), NEW t \in Table, NEW n
  PROVE  /\ n \in Names(columns'[t]) =>
              \/ n \in Names(columns[t])
              \/ t = Subject.table /\ Subject.do = "columns" /\ n \in Names(Subject.new)
              \/ t = Subject.table /\ Subject.do = "rename" /\ n = "project_id"
         /\ n \in Names(columns[t]) =>
              \/ n \in Names(columns'[t])
              \/ t = Subject.table /\ Subject.do = "rename" /\ n = "tenant_id"
         /\ Subject.do = "rename" /\ t = Subject.table => "tenant_id" \notin Names(columns'[t])
<1> DEFINE s == Subject
<1>1. Effect(s)
  BY DEF Success
<1> HIDE DEF s
<1>2. CASE t # s.table \/ s.do \notin {"columns", "rename", "not_null"}
  <2>1. columns'[t] = columns[t]
    BY <1>1, <1>2 DEF Effect
  <2> QED
    BY <1>2, <2>1 DEF s
<1>3. CASE t = s.table /\ s.do = "columns"
  BY <1>1, <1>3 DEF Effect, Names, s
<1>4. CASE t = s.table /\ s.do = "rename"
  <2>1. columns'[t] = {IF c[1] = "tenant_id" THEN <<"project_id", c[2]>> ELSE c : c \in columns[t]}
    BY <1>1, <1>4 DEF Effect
  <2>2. \A b \in columns'[t] : b[1] # "tenant_id" /\ (b \in columns[t] \/ b[1] = "project_id")
    BY <2>1
  <2>3. \A c \in columns[t] : c[1] # "tenant_id" => c \in columns'[t]
    BY <2>1
  <2> QED
    BY <1>4, <2>2, <2>3 DEF Names, s
<1>5. CASE t = s.table /\ s.do = "not_null"
  <2>1. columns'[t] =
          {IF c[1] = "standard_attr_id" THEN <<c[1], Required>> ELSE c : c \in columns[t]}
    BY <1>1, <1>5 DEF Effect
  <2>2. \A b \in columns'[t] : \E c \in columns[t] : b[1] = c[1]
    BY <2>1
  <2>3. ASSUME NEW c \in columns[t] PROVE \E b \in columns'[t] : b[1] = c[1]
    <3>1. (IF c[1] = "standard_attr_id" THEN <<c[1], Required>> ELSE c) \in columns'[t]
      BY <2>1
    <3> QED
      BY <3>1
  <2> QED
    BY <1>5, <2>2, <2>3 DEF Names, s
<1> QED
  BY <1>2, <1>3, <1>4, <1>5

LEMMA TracedInit == Init => Traced
  BY DEF Init, Traced, Names

LEMMA TracedStep == TypeInv /\ Traced /\ [Next]_vars => Traced'
<1> SUFFICES ASSUME TypeInv, Traced, [Next]_vars PROVE Traced'
  OBVIOUS
<1>1. CASE UNCHANGED <<columns, indexes>>
  <2>1. \A t, n : /\ Begun(Origin(t, n)) => Begun(Origin(t, n))'
                  /\ Begun(IndexOrigin(t, n)) => Begun(IndexOrigin(t, n))'
    BY BegunStays
  <2> QED
    BY <1>1, <2>1 DEF Traced, Names
<1>2. CASE RunStatement /\ Success(Subject)
  <2> DEFINE s == Subject
  <2>0. PICK r \in Revision : r = doing.revision
    BY <1>2, RunningJob
  <2>1. s \in Of(r) /\ s.table \in Table
    BY <1>2, <2>0, RunningJob
  <2>2. Begun(r)'
    BY <1>2, <2>0 DEF Success, Begun, Under
  <2> SUFFICES ASSUME NEW t \in Table
               PROVE  /\ \A n \in Names(columns'[t]) : Begun(Origin(t, n))'
                      /\ \A n \in indexes'[t] : Begun(IndexOrigin(t, n))'
    BY DEF Traced, Names
  <2>3. ASSUME NEW n \in Names(columns'[t]) PROVE Begun(Origin(t, n))'
    <3>1. CASE n \in Names(columns[t])
      <4>1. Begun(Origin(t, n))
        BY <3>1 DEF Traced
      <4> QED
        BY <4>1, BegunStays
    <3>2. CASE t = s.table /\ s.do = "columns" /\ n \in Names(s.new)
      <4>1. Origin(t, n) = r
        BY <2>1, <3>2, OriginOfColumns
      <4> QED
        BY <2>2, <4>1
    <3>3. CASE t = s.table /\ s.do = "rename" /\ n = "project_id"
      <4>1. r = RenameTenant /\ t \in Renamed
        BY <2>1, <3>3, KindOfStatement
      <4>2. Origin(t, n) = r
        BY <3>3, <4>1 DEF Origin
      <4> QED
        BY <2>2, <4>2
    <3> QED
      BY <1>2, <2>3, <3>1, <3>2, <3>3, NamesAfter
  <2>4. ASSUME NEW n \in indexes'[t] PROVE Begun(IndexOrigin(t, n))'
    <3>1. CASE n \in indexes[t]
      <4>1. Begun(IndexOrigin(t, n))
        BY <3>1 DEF Traced
      <4> QED
        BY <4>1, BegunStays
    <3>2. CASE n \notin indexes[t]
      <4>1. t = s.table /\ s.do = "index" /\ n \in s.new
        BY <1>2, <2>4, <3>2 DEF Success, Effect
      <4>2. IndexOrigin(t, n) = r
        BY <2>1, <4>1, IndexOfStatement
      <4> QED
        BY <2>2, <4>2
    <3> QED
      BY <3>1, <3>2
  <2> QED
    BY <2>3, <2>4
<1> QED
  BY <1>1, <1>2, SchemaStep

-----------------------------------------------------------------------------
(***************************************************************************)
(* A revision that was not interrupted does not fail.                      *)
(***************************************************************************)

\* Statements leave filled tables filled, and fill the one they are to fill.
LEMMA FilledAfter ==
  ASSUME TypeInv, RunStatement, Success(Subject), NEW t \in Table,
         Filled(t) \/ (Subject.do = "fill" /\ Subject.table = t)
  PROVE  Filled(t)'
<1>1. rows' = rows
  BY RunEffect
<1>2. CASE Subject.do = "fill"
  <2>1. /\ \A x \in Id \ rows[Subject.table] : attr'[x] = attr[x]
        /\ \A x \in rows[Subject.table] : attr'[x] \in Nat
    BY <1>2, FillEffect
  <2>2. rows[t] \subseteq Id
    BY DEF TypeInv
  <2>3. \A x \in rows[t] : attr'[x] # None
    BY <2>1, <2>2, NoneAssumption DEF Filled
  <2> QED
    BY <1>1, <2>3 DEF Filled
<1>3. CASE Subject.do # "fill"
  <2>1. attr' = attr
    BY <1>3 DEF Success, Effect
  <2> QED
    BY <1>1, <1>3, <2>1 DEF Filled
<1> QED
  BY <1>2, <1>3

\* Statements leave alone what the others are to create.
LEMMA NewAfter ==
  ASSUME TypeInv, RunStatement, Success(Subject), NEW s \in Range(Tail(doing.left)), New(s)
  PROVE  New(s)'
<1> DEFINE h == Subject
           r == doing.revision
<1>1. /\ r \in Revision /\ doing.left \in Seq(Of(r)) /\ doing.left # <<>> /\ Apart(doing.left)
      /\ h \in Of(r)
  BY RunningJob
<1>2. s \in Of(r) /\ (s.do # h.do \/ s.table # h.table)
  BY <1>1, HeadAndTail DEF Subject
<1>3. s.table \in Table /\ Effect(h)
  BY <1>1, <1>2, KindOfStatement DEF Success
<1> HIDE DEF h, r
<1>4. ASSUME s.do = "columns" PROVE columns'[s.table] = columns[s.table]
  <2>1. CASE s.table # h.table
    BY <1>3, <2>1 DEF Effect
  <2>2. CASE h.do \in {"rename", "not_null"}
    BY <1>1, <1>2, <1>4, <2>2, KindOfStatement
  <2>3. CASE h.do \notin {"columns", "rename", "not_null"}
    BY <1>3, <2>3 DEF Effect
  <2> QED
    BY <1>2, <1>4, <2>1, <2>2, <2>3
<1>5. ASSUME s.do = "index" PROVE indexes'[s.table] \subseteq indexes[s.table]
  <2>1. CASE s.table # h.table
    BY <1>3, <2>1 DEF Effect
  <2>2. CASE s.table = h.table /\ h.do = "drop_index"
    BY <1>3, <2>2 DEF Effect
  <2>3. CASE h.do \notin {"index", "drop_index"}
    BY <1>3, <2>3 DEF Effect
  <2> QED
    BY <1>2, <1>5, <2>1, <2>2, <2>3
<1> QED
  BY <1>4, <1>5 DEF New

LEMMA OrderedAfter ==
  ASSUME TypeInv, RunStatement, Success(Subject), Ordered(doing.left)
  PROVE  Ordered(doing.left)'
<1> DEFINE l == doing.left
<1>0. PICK k : k = Tail(l)
  OBVIOUS
<1>1. /\ \A i \in DOMAIN k : i + 1 \in DOMAIN l /\ k[i] = l[i + 1]
      /\ \A i \in DOMAIN l : i # 1 => i - 1 \in DOMAIN k /\ k[i - 1] = l[i]
      /\ DOMAIN l \subseteq Nat \ {0} /\ DOMAIN k \subseteq Nat \ {0}
      /\ l[1] = Subject
  BY <1>0, RunningJob, HeadAndTail DEF Subject
<1>2. \A i \in DOMAIN k : k[i].table \in Table
  <2>1. doing.revision \in Revision /\ k \in Seq(Of(doing.revision))
    BY <1>0, RunningJob, HeadAndTail
  <2>2. \A i \in DOMAIN k : k[i] \in Of(doing.revision)
    BY <2>1, LenProperties, ElementOfSeq
  <2> QED
    BY <2>1, <2>2, KindOfStatement
<1>3. doing'.left = k
  BY <1>0 DEF Success
<1>4. DOMAIN l = 1..Len(l) /\ Len(l) \in Nat
  BY RunningJob, LenProperties
<1>5. ASSUME NEW i \in DOMAIN k, k[i].do = "not_null", NEW t \in Table, t = k[i].table
      PROVE  \/ Filled(t)'
             \/ \E j \in 1..(i - 1) : k[j].do = "fill" /\ k[j].table = t
  <2>1. CASE Filled(t)
    BY <2>1, FilledAfter
  <2>2. CASE ~ Filled(t)
    <3>1. PICK j \in 1..((i + 1) - 1) : l[j].do = "fill" /\ l[j].table = t
      BY <1>1, <1>5, <2>2 DEF Ordered
    <3>2. CASE j = 1
      BY <1>1, <3>1, <3>2, FilledAfter
    <3>3. CASE j # 1
      <4>1. j \in DOMAIN l /\ j - 1 \in 1..(i - 1)
        BY <1>1, <1>4, <3>1, <3>3
      <4> QED
        BY <1>1, <3>1, <3>3, <4>1
    <3> QED
      BY <3>2, <3>3
  <2> QED
    BY <2>1, <2>2
<1> QED
  BY <1>2, <1>3, <1>5 DEF Ordered, Filled

LEMMA FreshInit == Init => Fresh
  BY DEF Init, Fresh

LEMMA FreshStep == TypeInv /\ InOrder /\ Traced /\ Fresh /\ [Next]_vars => Fresh'
<1> SUFFICES ASSUME TypeInv, InOrder, Traced, Fresh, [Next]_vars PROVE Fresh'
  OBVIOUS
<1>1. CASE \E r \in Revision : Upgrade(r)
  <2>1. PICK r \in Revision : Upgrade(r)
    BY <1>1
  <2>2. PICK l : l = Statements(r)
    OBVIOUS
  <2>3. /\ doing' # None /\ doing'.revision = r /\ doing'.left = l
        /\ \A s \in Range(l) : s \in Of(r)
        /\ \A i \in DOMAIN l : l[i].do = "not_null" =>
             \E j \in 1..(i - 1) : l[j].do = "fill" /\ l[j].table = l[i].table
    BY <2>1, <2>2, Upgrading
  <2>4. /\ doing = None /\ ~ stuck /\ r \notin stamped
        /\ UNCHANGED <<stamped, columns, indexes, interrupted, stuck>>
    BY <2>1 DEF Upgrade
  <2>5. ASSUME NEW s \in Of(r), r \notin interrupted PROVE New(s)
    <3>1. ~ Begun(r)
      BY <2>4, <2>5 DEF Begun, Under
    <3>2. s.table \in Table
      BY KindOfStatement
    <3>3. s.do = "columns" => Names(s.new) \cap Names(columns[s.table]) = {}
      BY <3>1, <3>2, OriginOfColumns DEF Traced
    <3>4. s.do = "index" => s.new \cap indexes[s.table] = {}
      BY <3>1, <3>2, IndexOfStatement DEF Traced
    <3> QED
      BY <3>3, <3>4 DEF New
  <2>6. r \notin interrupted => \A s \in Range(l) : New(s)'
    BY <2>3, <2>4, <2>5 DEF New
  <2>7. Ordered(l)'
    BY <2>3 DEF Ordered
  <2> QED
    BY <2>3, <2>4, <2>6, <2>7 DEF Fresh, Ordered, Filled, New
<1>2. CASE RunStatement
  <2> DEFINE h == Subject
  <2>1. /\ UNCHANGED <<stamped, interrupted>>
        /\ Failure(h) \/ Success(h)
    BY <1>2, RunEffect
  <2>2. /\ doing # None /\ doing.revision \notin stamped /\ h \in Range(doing.left)
        /\ 1 \in DOMAIN doing.left /\ h = doing.left[1]
    BY <1>2, RunningJob, HeadAndTail DEF InOrder, Subject
  <2> HIDE DEF h
  <2>3. CASE Failure(h)
    <3>1. h.do = "not_null" => Filled(h.table)
      BY <2>2 DEF Fresh, Ordered
    <3>2. ~ New(h)
      BY <2>3, <3>1 DEF Failure
    <3>3. doing.revision \in interrupted
      BY <2>2, <3>2 DEF Fresh
    <3> QED
      BY <2>1, <2>2, <2>3, <3>3 DEF Fresh, Failure
  <2>4. CASE Success(h)
    <3>1. /\ doing'.revision = doing.revision /\ doing'.left = Tail(doing.left) /\ stuck' = stuck
      BY <2>4 DEF Success
    <3>2. PICK k : k = Tail(doing.left)
      OBVIOUS
    <3>3. ASSUME doing.revision \notin interrupted, NEW s \in Range(k)
          PROVE  New(s)'
      <4>1. s \in Range(doing.left)
        BY <1>2, <3>2, <3>3, RunningJob, HeadAndTail
      <4>2. New(s)
        BY <2>2, <3>3, <4>1 DEF Fresh
      <4> QED
        BY <1>2, <2>4, <3>2, <3>3, <4>2, NewAfter DEF h
    <3>4. Ordered(doing.left)'
      BY <1>2, <2>2, <2>4, OrderedAfter DEF Fresh, h
    <3> QED
      BY <2>1, <2>2, <3>1, <3>2, <3>3, <3>4 DEF Fresh, New
  <2> QED
    BY <2>1, <2>3, <2>4
<1>3. CASE Stamp
  BY <1>3 DEF Stamp, Fresh, InOrder
<1>4. CASE Crash
  BY <1>4 DEF Crash, Fresh, InOrder
<1>5. CASE StartServer
  BY <1>5 DEF StartServer, Fresh, Ordered, Filled, New
<1>6. CASE StopServer
  BY <1>6 DEF StopServer, Fresh, Ordered, Filled, New
<1>7. CASE \E t \in Written, x \in Id : InsertRow(t, x)
  <2>1. /\ server # None
        /\ UNCHANGED <<stamped, doing, columns, indexes, stuck, interrupted>>
    BY <1>7 DEF InsertRow
  <2>2. doing # None => Ordered(doing.left)'
    <3> SUFFICES ASSUME doing # None PROVE \A i \in DOMAIN doing.left : doing.left[i].do # "not_null"
      BY <2>1 DEF Ordered
    <3>1. /\ doing.revision \in Revision /\ doing.left \in Seq(Of(doing.revision))
          /\ doing.revision # FillAttributes
      BY <2>1 DEF TypeInv, InOrder, Contract, Job
    <3>2. \A i \in DOMAIN doing.left : doing.left[i] \in Of(doing.revision)
      BY <3>1, LenProperties, ElementOfSeq
    <3> QED
      BY <3>1, <3>2, KindOfStatement
  <2> QED
    BY <2>1, <2>2 DEF Fresh, New
<1>8. CASE UNCHANGED vars
  BY <1>8 DEF vars, Fresh, Ordered, Filled, New
<1> QED
  BY <1>1, <1>2, <1>3, <1>4, <1>5, <1>6, <1>7, <1>8 DEF Next

-----------------------------------------------------------------------------
(***************************************************************************)
(* What the statements leave behind.                                       *)
(***************************************************************************)

LEMMA PresentStays ==
  ASSUME TypeInv, RunStatement, Success(Subject), NEW t \in Table, NEW c \in Column, Present(t, c)
  PROVE  Present(t, c)'
<1> DEFINE h == Subject
<1>1. Effect(h)
  BY DEF Success
<1>2. c = <<c[1], c[2]>>
  BY DEF Column
<1> HIDE DEF h
<1>3. CASE t # h.table \/ h.do \notin {"columns", "rename", "not_null"}
  <2>1. columns'[t] = columns[t]
    BY <1>1, <1>3 DEF Effect
  <2> QED
    BY <2>1 DEF Present
<1>4. CASE t = h.table /\ h.do = "columns"
  <2>1. columns[t] \subseteq columns'[t]
    BY <1>1, <1>4 DEF Effect
  <2> QED
    BY <2>1 DEF Present
<1>5. CASE t = h.table /\ h.do = "rename"
  <2>1. columns'[t] = {IF b[1] = "tenant_id" THEN <<"project_id", b[2]>> ELSE b : b \in columns[t]}
    BY <1>1, <1>5 DEF Effect
  <2>2. \A b \in columns[t] : b[1] # "tenant_id" => b \in columns'[t]
    BY <2>1
  <2>3. \A b \in columns[t] : b[1] = "tenant_id" => <<"project_id", b[2]>> \in columns'[t]
    BY <2>1
  <2>4. /\ \A k : <<"project_id", k>> \in columns[t] => <<"project_id", k>> \in columns'[t]
        /\ \A k : <<"standard_attr_id", k>> \in columns[t] =>
             <<"standard_attr_id", k>> \in columns'[t]
    <3>1. \A k : <<"project_id", k>>[1] # "tenant_id" /\ <<"standard_attr_id", k>>[1] # "tenant_id"
      OBVIOUS
    <3> QED
      BY <2>2, <3>1
  <2> QED
    BY <2>2, <2>3, <2>4 DEF Present
<1>6. CASE t = h.table /\ h.do = "not_null"
  <2>1. columns'[t] =
          {IF b[1] = "standard_attr_id" THEN <<b[1], Required>> ELSE b : b \in columns[t]}
    BY <1>1, <1>6 DEF Effect
  <2>2. \A b \in columns[t] : b[1] # "standard_attr_id" => b \in columns'[t]
    BY <2>1
  <2>3. \A b \in columns[t] : b[1] = "standard_attr_id" =>
          <<"standard_attr_id", Required>> \in columns'[t]
    BY <2>1
  <2>4. /\ \A k : <<"project_id", k>> \in columns[t] => <<"project_id", k>> \in columns'[t]
        /\ <<"standard_attr_id", Required>> \in columns[t] =>
             <<"standard_attr_id", Required>> \in columns'[t]
    <3>1. /\ \A k : <<"project_id", k>>[1] # "standard_attr_id"
          /\ <<"standard_attr_id", Required>>[1] = "standard_attr_id"
      OBVIOUS
    <3> QED
      BY <2>2, <2>3, <3>1
  <2> QED
    BY <2>2, <2>3, <2>4 DEF Present
<1> QED
  BY <1>3, <1>4, <1>5, <1>6

LEMMA NotNullStays ==
  ASSUME TypeInv, InOrder, RunStatement, Success(Subject), NEW t \in Table, NotNull(t),
         FillAttributes \in stamped \/ Under(FillAttributes)
  PROVE  NotNull(t)'
<1> DEFINE h == Subject
           q == doing.revision
<1>1. /\ Effect(h) /\ h \in Of(q) /\ q \in Revision /\ doing # None
  BY RunningJob DEF Success
<1>2. q # AddAttributes
  <2>1. FillAttributes \in stamped => AddAttributes \in stamped
    BY DEF InOrder, Ready, DependsOn
  <2> QED
    BY <1>1, <2>1 DEF InOrder, Under
<1>3. h.do = "columns" => <<"standard_attr_id", Nullable>> \notin h.new
  <2> SUFFICES ASSUME h.do = "columns", <<"standard_attr_id", Nullable>> \in h.new PROVE FALSE
    OBVIOUS
  <2>1. "standard_attr_id" \in Names(h.new)
    BY DEF Names
  <2>2. h.table # "routes" => Origin(h.table, "standard_attr_id") = AddAttributes
    BY DEF Origin
  <2>3. <<"standard_attr_id", Nullable>> \in Allowed(h.table)
    BY <1>1, ColumnsOfStatement
  <2>4. h.table # "routes"
    BY <2>3 DEF Allowed, Models
  <2> QED
    BY <1>1, <1>2, <2>1, <2>2, <2>4, OriginOfColumns
<1> HIDE DEF h, q
<1>4. CASE t # h.table \/ h.do \notin {"columns", "rename", "not_null"}
  <2>1. columns'[t] = columns[t]
    BY <1>1, <1>4 DEF Effect
  <2> QED
    BY <2>1 DEF NotNull
<1>5. CASE t = h.table /\ h.do = "columns"
  BY <1>1, <1>3, <1>5 DEF Effect, NotNull
<1>6. CASE t = h.table /\ h.do = "rename"
  <2>1. \A b \in columns'[t] : b \in columns[t] \/ b[1] = "project_id"
    BY <1>1, <1>6 DEF Effect
  <2> QED
    BY <2>1 DEF NotNull
<1>7. CASE t = h.table /\ h.do = "not_null"
  <2>1. \A b \in columns'[t] : b \in columns[t] \/ b[2] = Required
    BY <1>1, <1>7 DEF Effect
  <2> QED
    BY <2>1 DEF NotNull
<1> QED
  BY <1>4, <1>5, <1>6, <1>7

LEMMA WorkedStays ==
  ASSUME TypeInv, InOrder, [Next]_vars, NEW r \in Revision \ {RenameTenant}, NEW s \in Of(r),
         Worked(s), r \in stamped \/ Under(r)
  PROVE  Worked(s)'
<1>1. Begun(RenameTenant) => Begun(RenameTenant)'
  BY BegunStays
<1>2. CASE UNCHANGED <<columns, indexes>>
  BY <1>1, <1>2 DEF Worked, Present, NotNull
<1>3. CASE RunStatement /\ Success(Subject)
  <2> DEFINE h == Subject
  <2>1. /\ Effect(h) /\ h \in Of(doing.revision) /\ doing.revision \in Revision /\ doing # None
    BY <1>3, RunningJob DEF Success
  <2>2. s.table \in Table
    BY KindOfStatement
  <2>3. s.do = "columns" => \A c \in s.new : Present(s.table, c)'
    BY <1>3, <2>2, ColumnsOfStatement, PresentStays DEF Worked
  <2>4. s.do = "not_null" => NotNull(s.table)'
    <3>1. s.do = "not_null" => r = FillAttributes
      BY KindOfStatement
    <3> QED
      BY <1>3, <2>2, <3>1, NotNullStays DEF Worked
  <2>5. ASSUME s.do = "index", NEW n \in s.new
        PROVE  n \in indexes'[s.table] \/ (n = "tenant_id" /\ Begun(RenameTenant)')
    <3>1. n \in indexes[s.table] \/ (n = "tenant_id" /\ Begun(RenameTenant))
      BY <2>5 DEF Worked
    <3>2. CASE n \in indexes[s.table] /\ n \notin indexes'[s.table]
      <4>1. n = "tenant_id" /\ h.do = "drop_index"
        BY <2>1, <2>2, <3>2 DEF Effect
      <4>2. Under(RenameTenant)
        BY <2>1, <4>1, KindOfStatement DEF Under
      <4>3. Begun(RenameTenant)
        BY <4>2 DEF Begun
      <4> QED
        BY <1>1, <4>1, <4>3
    <3> QED
      BY <1>1, <3>1, <3>2
  <2> QED
    BY <2>3, <2>4, <2>5 DEF Worked
<1> QED
  BY <1>2, <1>3, SchemaStep

\* A statement that has run has worked.
LEMMA WorkedAfter ==
  ASSUME TypeInv, RunStatement, Success(Subject), NEW s, s = Subject
  PROVE  Worked(s)'
<1>1. Effect(s) /\ s.table \in Table
  BY RunningJob DEF Success
<1>2. s.do = "columns" => \A c \in s.new : Present(s.table, c)'
  BY <1>1 DEF Effect, Present
<1>3. s.do = "index" => \A n \in s.new : n \in indexes'[s.table]
  BY <1>1 DEF Effect
<1>4. s.do = "not_null" => NotNull(s.table)'
  <2> SUFFICES ASSUME s.do = "not_null" PROVE NotNull(s.table)'
    OBVIOUS
  <2>1. \A b \in columns'[s.table] : b[1] = "standard_attr_id" => b[2] = Required
    BY <1>1 DEF Effect
  <2> QED
    BY <2>1 DEF NotNull
<1> QED
  BY <1>2, <1>3, <1>4 DEF Worked

LEMMA WorksInit == Init => Works
  BY DEF Init, Works, Under

LEMMA WorksStep == TypeInv /\ InOrder /\ Works /\ [Next]_vars => Works'
<1> SUFFICES ASSUME TypeInv, InOrder, Works, [Next]_vars,
                    NEW r \in Revision \ {RenameTenant}, NEW s \in Of(r)
             PROVE  /\ (r \in stamped)' => Worked(s)'
                    /\ Under(r)' => Worked(s)' \/ Left(s)'
  BY DEF Works
<1>1. /\ r \in stamped => Worked(s)'
      /\ Under(r) => Worked(s)' \/ Left(s)
  BY WorkedStays DEF Works
<1>2. CASE \E q \in Revision : Upgrade(q)
  <2>1. PICK q \in Revision : Upgrade(q)
    BY <1>2
  <2>2. /\ doing' # None /\ doing'.revision = q /\ stamped' = stamped
        /\ q # RenameTenant => Range(doing'.left) = Of(q)
    <3>1. doing'.left = Statements(q) /\ (q # RenameTenant => Range(Statements(q)) = Of(q))
      BY <2>1, Upgrading
    <3> QED
      BY <2>1, <3>1, Upgrading DEF Upgrade, Range
  <2>3. Under(r)' => Left(s)'
    BY <2>2 DEF Under, Left
  <2> QED
    BY <1>1, <2>2, <2>3
<1>3. CASE RunStatement
  <2>1. /\ stamped' = stamped
        /\ Failure(Subject) \/ Success(Subject)
    BY <1>3, RunEffect
  <2>2. CASE Failure(Subject)
    BY <1>1, <2>1, <2>2 DEF Failure, Under
  <2>3. CASE Success(Subject)
    <3>1. doing' # None /\ doing'.revision = doing.revision /\ doing'.left = Tail(doing.left)
      BY <2>3 DEF Success
    <3>2. ASSUME Under(r), Left(s) PROVE Worked(s)' \/ Left(s)'
      <4>1. s = Subject \/ s \in Range(Tail(doing.left))
        BY <1>3, <3>2, RunningJob, HeadAndTail DEF Left, Subject
      <4>2. s \in Range(Tail(doing.left)) => Left(s)'
        BY <3>1 DEF Left, Range
      <4> QED
        BY <1>3, <2>3, <4>1, <4>2, WorkedAfter
    <3> QED
      BY <1>1, <2>1, <3>1, <3>2, RunningJob, <1>3 DEF Under
  <2> QED
    BY <2>1, <2>2, <2>3
<1>4. CASE Stamp
  <2>1. Under(r) => ~ Left(s)
    BY <1>4 DEF Stamp, Left, Range
  <2> QED
    BY <1>1, <1>4, <2>1 DEF Stamp, Under
<1>5. CASE Crash
  BY <1>1, <1>5 DEF Crash, Under
<1>6. CASE StartServer
  BY <1>1, <1>6 DEF StartServer, Under, Left
<1>7. CASE StopServer
  BY <1>1, <1>7 DEF StopServer, Under, Left
<1>8. CASE \E t \in Written, x \in Id : InsertRow(t, x)
  BY <1>1, <1>8 DEF InsertRow, Under, Left
<1>9. CASE UNCHANGED vars
  BY <1>1, <1>9 DEF vars, Under, Left
<1> QED
  BY <1>2, <1>3, <1>4, <1>5, <1>6, <1>7, <1>8, <1>9 DEF Next

-----------------------------------------------------------------------------
(***************************************************************************)
(* Nothing is there that the models do not have in the end.                *)
(***************************************************************************)

LEMMA BoundedInit == Init => Bounded
  BY DEF Init, Bounded

LEMMA BoundedStep == TypeInv /\ Bounded /\ [Next]_vars => Bounded'
<1> SUFFICES ASSUME TypeInv, Bounded, [Next]_vars PROVE Bounded'
  OBVIOUS
<1>1. CASE UNCHANGED <<columns, indexes>>
  BY <1>1 DEF Bounded
<1>2. CASE RunStatement /\ Success(Subject)
  <2> DEFINE h == Subject
  <2>1. /\ Effect(h) /\ h \in Of(doing.revision) /\ doing.revision \in Revision
        /\ h.table \in Table
    BY <1>2, RunningJob DEF Success
  <2> SUFFICES ASSUME NEW t \in Table
               PROVE  columns'[t] \subseteq Allowed(t) /\ indexes'[t] \subseteq AllowedIndexes(t)
    BY DEF Bounded
  <2>2. columns[t] \subseteq Allowed(t) /\ indexes[t] \subseteq AllowedIndexes(t)
    BY DEF Bounded
  <2>3. h.do = "columns" => h.new \subseteq Allowed(h.table)
    BY <2>1, ColumnsOfStatement
  <2>4. h.do = "index" => h.new \subseteq AllowedIndexes(h.table)
    BY <2>1, IndexOfStatement
  <2>5. /\ h.do = "rename" => h.table \in Renamed
        /\ h.do = "not_null" => h.table \in HasStandardAttr
    BY <2>1, KindOfStatement
  <2>6. indexes'[t] \subseteq AllowedIndexes(t)
    BY <2>1, <2>2, <2>4 DEF Effect
  <2>7. ASSUME NEW c \in Allowed(t), c[1] = "tenant_id", t \in Renamed
        PROVE  <<"project_id", c[2]>> \in Allowed(t)
    <3>1. c \notin Models[t]
      BY <2>7 DEF Models, AssocModel
    <3>2. c = <<"tenant_id", IF t = "bgpvpns" THEN Nullable ELSE Required>>
      BY <2>7, <3>1 DEF Allowed
    <3> QED
      BY <2>7, <3>2 DEF Allowed, Models, AssocModel
  <2>8. t \in HasStandardAttr => <<"standard_attr_id", Required>> \in Allowed(t)
    BY DEF Allowed, Models, AssocModel
  <2> HIDE DEF h, HasStandardAttr, Renamed
  <2>9. columns'[t] \subseteq Allowed(t)
    <3>1. CASE t # h.table \/ h.do \notin {"columns", "rename", "not_null"}
      BY <2>1, <2>2, <3>1 DEF Effect
    <3>2. CASE t = h.table /\ h.do = "columns"
      BY <2>1, <2>2, <2>3, <3>2 DEF Effect
    <3>3. CASE t = h.table /\ h.do = "rename"
      BY <2>1, <2>2, <2>5, <2>7, <3>3 DEF Effect
    <3>4. CASE t = h.table /\ h.do = "not_null"
      BY <2>1, <2>2, <2>5, <2>8, <3>4 DEF Effect
    <3> QED
      BY <3>1, <3>2, <3>3, <3>4
  <2> QED
    BY <2>6, <2>9
<1> QED
  BY <1>1, <1>2, SchemaStep

-----------------------------------------------------------------------------
(***************************************************************************)
(* The renaming of the tenant.                                             *)
(***************************************************************************)

\* What is applied before a revision.
LEMMA Before ==
  ASSUME InOrder, NEW r, r \in stamped \/ Under(r)
  PROVE  /\ r = RouterTable => Initial \in stamped
         /\ r = TenantIndexes => {Initial, RouterTable} \subseteq stamped
         /\ r = PortTables => {Initial, RouterTable, TenantIndexes} \subseteq stamped
         /\ r \in {Vni, ExtraRoutes, LocalPref, AddAttributes} =>
              {Initial, RouterTable, TenantIndexes, PortTables} \subseteq stamped
         /\ r = RenameTenant => {Initial, RouterTable, TenantIndexes} \subseteq stamped
         /\ r = FillAttributes =>
              {Initial, RouterTable, TenantIndexes, RenameTenant, PortTables, AddAttributes}
                \subseteq stamped
<1>1. \A q \in Revision : q \in stamped \/ Under(q) =>
        DownRevision[q] \in stamped \cup {Start} /\ DependsOn(q) \subseteq stamped
  BY DEF InOrder, Ready, Under
<1>2. /\ RouterTable \in stamped \/ Under(RouterTable) => Initial \in stamped
      /\ TenantIndexes \in stamped \/ Under(TenantIndexes) => RouterTable \in stamped
      /\ PortTables \in stamped \/ Under(PortTables) => TenantIndexes \in stamped
      /\ Vni \in stamped \/ Under(Vni) => PortTables \in stamped
      /\ ExtraRoutes \in stamped \/ Under(ExtraRoutes) => Vni \in stamped
      /\ LocalPref \in stamped \/ Under(LocalPref) => ExtraRoutes \in stamped
      /\ AddAttributes \in stamped \/ Under(AddAttributes) => LocalPref \in stamped
      /\ RenameTenant \in stamped \/ Under(RenameTenant) => TenantIndexes \in stamped
      /\ FillAttributes \in stamped \/ Under(FillAttributes) =>
           RenameTenant \in stamped /\ AddAttributes \in stamped
  BY <1>1 DEF Revision, DownRevision, DependsOn
<1> QED
  BY <1>2

\* The tables that are to be renamed have a tenant before.
LEMMA TenantThere ==
  ASSUME TypeInv, InOrder, Traced, Works, TenantIndexes \in stamped, ~ Begun(RenameTenant),
         NEW t \in Renamed
  PROVE  "tenant_id" \in Names(columns[t]) /\ "tenant_id" \in indexes[t]
<1>1. {Initial, RouterTable} \subseteq stamped
  BY Before
<1> DEFINE k == IF t = "bgpvpns" THEN Nullable ELSE Required
           q == IF t = "routers" THEN RouterTable ELSE Initial
<1>2. PICK s \in Of(q) : s.do = "columns" /\ s.table = t /\ <<"tenant_id", k>> \in s.new
  <2>1. /\ <<"tenant_id", Nullable>> \in BgpvpnColumns
        /\ \A resource : <<"tenant_id", Required>> \in Assoc(resource)
    BY DEF BgpvpnColumns, Assoc
  <2>2. CASE t = "bgpvpns"
    <3>1. Statement("columns", "bgpvpns", BgpvpnColumns) \in Of(q)
      BY <2>2 DEF Of
    <3> QED
      BY <2>1, <2>2, <3>1 DEF Statement
  <2>3. CASE t = "networks"
    <3>1. Statement("columns", "networks", Assoc("network_id")) \in Of(q)
      BY <2>3 DEF Of
    <3> QED
      BY <2>1, <2>3, <3>1 DEF Statement
  <2>4. CASE t = "routers"
    <3>1. Statement("columns", "routers", Assoc("router_id")) \in Of(q)
      BY <2>4 DEF Of
    <3> QED
      BY <2>1, <2>4, <3>1 DEF Statement
  <2> QED
    BY <2>2, <2>3, <2>4
<1>3. Worked(s)
  BY <1>1 DEF Works, Revision
<1>4. Present(t, <<"tenant_id", k>>)
  BY <1>2, <1>3 DEF Worked
<1>5. <<"project_id", k>> \notin columns[t]
  <2>1. "project_id" \in Names(columns[t]) => Begun(RenameTenant)
    BY DEF Traced, Origin
  <2> QED
    BY <2>1 DEF Names
<1>6. "tenant_id" \in Names(columns[t])
  BY <1>4, <1>5 DEF Present, Names
<1>7. "tenant_id" \in indexes[t]
  <2>1. Statement("index", t, {"tenant_id"}) \in Of(TenantIndexes)
    BY DEF Of
  <2>2. Worked(Statement("index", t, {"tenant_id"}))
    BY <2>1 DEF Works, Revision
  <2> QED
    BY <2>2 DEF Worked, Statement
<1> QED
  BY <1>6, <1>7

LEMMA RenamesInit == Init => Renames
  BY DEF Init, Renames, Under

LEMMA RenamesStep == TypeInv /\ InOrder /\ Traced /\ Works /\ Renames /\ [Next]_vars => Renames'
<1> SUFFICES ASSUME TypeInv, InOrder, Traced, Works, Renames, [Next]_vars, NEW t \in Renamed
             PROVE  /\ (RenameTenant \in stamped => "tenant_id" \notin Names(columns[t]))'
                    /\ (Under(RenameTenant) /\ "tenant_id" \in Names(columns[t]) =>
                          Left(Statement("rename", t, {})))'
                    /\ (RenameTenant \in stamped \ interrupted =>
                          "tenant_id" \notin indexes[t] /\ "project_id" \in indexes[t])'
                    /\ (Under(RenameTenant) /\ RenameTenant \notin interrupted =>
                          /\ "tenant_id" \in indexes[t] => Left(Statement("drop_index", t, {}))
                          /\ "project_id" \in indexes[t] \/ Left(Statement("index", t, {"project_id"})))'
  BY DEF Renames
<1> DEFINE R == Statement("rename", t, {})
           D == Statement("drop_index", t, {})
           I == Statement("index", t, {"project_id"})
<1>0. /\ RenameTenant \in stamped => "tenant_id" \notin Names(columns[t])
      /\ Under(RenameTenant) /\ "tenant_id" \in Names(columns[t]) => Left(R)
      /\ RenameTenant \in stamped \ interrupted =>
           "tenant_id" \notin indexes[t] /\ "project_id" \in indexes[t]
      /\ Under(RenameTenant) /\ RenameTenant \notin interrupted =>
           /\ "tenant_id" \in indexes[t] => Left(D)
           /\ "project_id" \in indexes[t] \/ Left(I)
  BY DEF Renames
<1>1. CASE \E r \in Revision : Upgrade(r)
  <2>1. PICK r \in Revision : Upgrade(r)
    BY <1>1
  <2>2. UNCHANGED <<stamped, interrupted, columns, indexes>> /\ doing = None /\ ~ stuck
    BY <2>1 DEF Upgrade
  <2>3. /\ doing' # None /\ doing'.revision = r /\ doing'.left = Statements(r)
    BY <2>1, Upgrading
  <2>4. CASE r # RenameTenant
    BY <1>0, <2>2, <2>3, <2>4 DEF Under, Names
  <2>5. CASE r = RenameTenant
    <3>1. \A s \in Due(t) : Left(s)'
      <4>1. \A s \in Due(t) : s \in Range(Statements(r))
        BY <2>1, <2>5, Upgrading
      <4> QED
        BY <2>3, <4>1 DEF Left, Range
    <3>2. "tenant_id" \in Names(columns[t]) => Left(R)'
      BY <3>1 DEF Due
    <3>3. RenameTenant \notin interrupted => Left(D)' /\ Left(I)'
      <4> SUFFICES ASSUME RenameTenant \notin interrupted PROVE Left(D)' /\ Left(I)'
        OBVIOUS
      <4>1. ~ Begun(RenameTenant) /\ TenantIndexes \in stamped
        BY <2>1, <2>2, <2>5 DEF Upgrade, Begun, Under, DependsOn
      <4>2. "tenant_id" \in Names(columns[t]) /\ "tenant_id" \in indexes[t]
        BY <4>1, TenantThere
      <4>3. D \in Due(t) /\ I \in Due(t)
        BY <4>2 DEF Due
      <4> QED
        BY <3>1, <4>3
    <3>4. RenameTenant \notin stamped
      BY <2>1, <2>5 DEF Upgrade
    <3> QED
      BY <2>2, <3>2, <3>3, <3>4 DEF Names
  <2> QED
    BY <2>4, <2>5
<1>2. CASE RunStatement
  <2> DEFINE h == Subject
  <2>1. /\ UNCHANGED <<stamped, interrupted>>
        /\ Failure(h) \/ Success(h)
        /\ doing # None /\ doing.revision \in Revision /\ h \in Of(doing.revision)
        /\ doing.revision \notin stamped
    BY <1>2, RunEffect, RunningJob DEF InOrder
  <2>2. CASE Failure(h)
    BY <1>0, <2>1, <2>2 DEF Failure, Under, Names
  <2>3. CASE Success(h)
    <3>1. /\ Effect(h)
          /\ doing' # None /\ doing'.revision = doing.revision /\ doing'.left = Tail(doing.left)
      BY <2>3 DEF Success
    <3>2. ASSUME NEW s, Left(s), s # h PROVE Left(s)'
      <4>1. s \in Range(Tail(doing.left))
        BY <1>2, <3>2, RunningJob, HeadAndTail DEF Left, Subject
      <4> QED
        BY <3>1, <4>1 DEF Left, Range
    <3>3. "tenant_id" \in Names(columns'[t]) =>
            \/ "tenant_id" \in Names(columns[t]) /\ ~ (t = h.table /\ h.do = "rename")
            \/ h.do = "columns" /\ doing.revision = Origin(t, "tenant_id")
      BY <1>2, <2>1, <2>3, NamesAfter, OriginOfColumns
    <3>4. Origin(t, "tenant_id") \in {Initial, RouterTable}
      BY DEF Origin
    <3>5. /\ "tenant_id" \in indexes'[t] =>
               \/ "tenant_id" \in indexes[t] /\ ~ (t = h.table /\ h.do = "drop_index")
               \/ h.do = "index" /\ doing.revision = TenantIndexes
          /\ "project_id" \in indexes[t] => "project_id" \in indexes'[t]
      <4>1. h.do = "index" /\ "tenant_id" \in h.new => doing.revision = TenantIndexes
        BY <2>1, IndexOfStatement DEF IndexOrigin
      <4> HIDE DEF h
      <4> QED
        BY <3>1, <4>1 DEF Effect
    <3>6. RenameTenant \in stamped => {Initial, RouterTable, TenantIndexes} \subseteq stamped
      BY Before
    <3>7. Under(RenameTenant)' = Under(RenameTenant)
      BY <2>1, <3>1 DEF Under
    <3>8. /\ h = R => t = h.table /\ h.do = "rename"
          /\ h = D => t = h.table /\ h.do = "drop_index"
          /\ h = I => "project_id" \in indexes'[t]
      BY <3>1 DEF Statement, Effect
    <3>9. Under(RenameTenant) => doing.revision = RenameTenant
      BY DEF Under
    <3> HIDE DEF h, R, D, I
    <3>10. /\ RenameTenant \in stamped' => "tenant_id" \notin Names(columns'[t])
           /\ Under(RenameTenant)' /\ "tenant_id" \in Names(columns'[t]) => Left(R)'
      BY <1>0, <2>1, <3>2, <3>3, <3>4, <3>6, <3>7, <3>8, <3>9
    <3>11. /\ RenameTenant \in stamped' \ interrupted' =>
                "tenant_id" \notin indexes'[t] /\ "project_id" \in indexes'[t]
           /\ Under(RenameTenant)' /\ RenameTenant \notin interrupted' =>
                /\ "tenant_id" \in indexes'[t] => Left(D)'
                /\ "project_id" \in indexes'[t] \/ Left(I)'
      BY <1>0, <2>1, <3>2, <3>5, <3>6, <3>7, <3>8, <3>9
    <3> QED
      BY <3>10, <3>11 DEF Names, R, D, I
  <2> QED
    BY <2>1, <2>2, <2>3
<1>3. CASE Stamp
  <2>1. /\ UNCHANGED <<columns, indexes, interrupted>> /\ doing' = None
        /\ stamped' = stamped \cup {doing.revision} /\ doing # None
        /\ \A s : ~ Left(s)
    BY <1>3 DEF Stamp, Left, Range
  <2> QED
    BY <1>0, <2>1 DEF Under, Names
<1>4. CASE Crash
  BY <1>0, <1>4 DEF Crash, Under, Names
<1>5. CASE StartServer
  BY <1>0, <1>5 DEF StartServer, Under, Left, Names
<1>6. CASE StopServer
  BY <1>0, <1>6 DEF StopServer, Under, Left, Names
<1>7. CASE \E u \in Written, x \in Id : InsertRow(u, x)
  BY <1>0, <1>7 DEF InsertRow, Under, Left, Names
<1>8. CASE UNCHANGED vars
  BY <1>0, <1>8 DEF vars, Under, Left, Names
<1> QED
  BY <1>1, <1>2, <1>3, <1>4, <1>5, <1>6, <1>7, <1>8 DEF Next

-----------------------------------------------------------------------------
(***************************************************************************)
(* Servers.                                                                *)
(***************************************************************************)

\* Only a statement that creates a table adds columns that inserts must fill in.
LEMMA NewTable ==
  ASSUME NEW r \in Revision, NEW s \in Of(r), s.do = "columns", "id" \notin Names(s.new)
  PROVE  /\ r \in {Vni, ExtraRoutes, LocalPref, AddAttributes}
         /\ s.table \in HasStandardAttr
         /\ \A c \in s.new : c[2] # Required
<1>1. /\ s.new # BgpvpnColumns /\ s.new # PortColumns /\ s.new # RouteColumns
      /\ \A resource : s.new # Assoc(resource)
  <2>1. \A S : "id" \in Names(S) => s.new # S
    OBVIOUS
  <2> QED
    BY <2>1, NamesOfColumns
<1>2. /\ r \in {Vni, ExtraRoutes, LocalPref, AddAttributes}
      /\ s.table \in HasStandardAttr
  BY <1>1 DEF Revision, Of, Statement
<1>3. \A c \in s.new : c \in {<<"vni", Nullable>>, ExtraRoutesColumn, <<"local_pref", Nullable>>,
                              <<"standard_attr_id", Nullable>>}
  BY <1>2 DEF Of, Statement
<1> QED
  BY <1>2, <1>3 DEF ExtraRoutesColumn

\* A table whose revision is applied has an id.
LEMMA IdThere ==
  ASSUME TypeInv, Works, {Initial, RouterTable, PortTables} \subseteq stamped,
         NEW t \in HasStandardAttr
  PROVE  "id" \in Names(columns[t])
<1> DEFINE q == IF t = "routers" THEN RouterTable ELSE IF t = "ports" THEN PortTables ELSE Initial
<1>1. PICK s \in Of(q) : s.do = "columns" /\ s.table = t /\ <<"id", Required>> \in s.new
  <2>1. /\ <<"id", Required>> \in BgpvpnColumns
        /\ <<"id", Required>> \in PortColumns
        /\ \A resource : <<"id", Required>> \in Assoc(resource)
    BY DEF BgpvpnColumns, PortColumns, Assoc
  <2>2. CASE t = "bgpvpns"
    <3>1. Statement("columns", "bgpvpns", BgpvpnColumns) \in Of(q)
      BY <2>2 DEF Of
    <3> QED
      BY <2>1, <2>2, <3>1 DEF Statement
  <2>3. CASE t = "networks"
    <3>1. Statement("columns", "networks", Assoc("network_id")) \in Of(q)
      BY <2>3 DEF Of
    <3> QED
      BY <2>1, <2>3, <3>1 DEF Statement
  <2>4. CASE t = "routers"
    <3>1. Statement("columns", "routers", Assoc("router_id")) \in Of(q)
      BY <2>4 DEF Of
    <3> QED
      BY <2>1, <2>4, <3>1 DEF Statement
  <2>5. CASE t = "ports"
    <3>1. Statement("columns", "ports", PortColumns) \in Of(q)
      BY <2>5 DEF Of
    <3> QED
      BY <2>1, <2>5, <3>1 DEF Statement
  <2> QED
    BY <2>2, <2>3, <2>4, <2>5
<1>2. Worked(s)
  BY DEF Works, Revision
<1>3. Present(t, <<"id", Required>>)
  BY <1>1, <1>2 DEF Worked
<1> QED
  BY <1>3 DEF Present, Names

LEMMA ServedInit == Init => Served
  BY DEF Init, Served

LEMMA ServedStep == TypeInv /\ InOrder /\ Works /\ Served /\ [Next]_vars => Served'
<1> SUFFICES ASSUME TypeInv, InOrder, Works, Served, [Next]_vars PROVE Served'
  OBVIOUS
<1>1. CASE RunStatement /\ Success(Subject)
  <2> DEFINE h == Subject
             q == doing.revision
  <2>1. /\ Effect(h) /\ h \in Of(q) /\ q \in Revision /\ h.table \in Table /\ doing # None
        /\ UNCHANGED <<server, rejected>>
    BY <1>1, RunningJob, RunEffect DEF Success
  <2>2. ASSUME h.do = "columns", columns[h.table] # {}
        PROVE  "id" \notin Names(h.new)
    BY <2>1, <2>2 DEF Served, Effect, New
  <2>3. ASSUME h.do = "columns", columns[h.table] = {}
        PROVE  "id" \in Names(h.new)
    <3> SUFFICES ASSUME "id" \notin Names(h.new) PROVE FALSE
      OBVIOUS
    <3>1. q \in {Vni, ExtraRoutes, LocalPref, AddAttributes} /\ h.table \in HasStandardAttr
      BY <2>1, <2>3, NewTable
    <3>2. {Initial, RouterTable, PortTables} \subseteq stamped
      BY <2>1, <3>1, Before DEF Under
    <3>3. "id" \in Names(columns[h.table])
      BY <3>1, <3>2, IdThere
    <3> QED
      BY <2>3, <3>3 DEF Names
  <2>4. ASSUME NEW t \in Table, columns'[t] # {} PROVE "id" \in Names(columns'[t])
    <3>1. CASE columns[t] # {}
      <4>1. "id" \in Names(columns[t])
        BY <3>1 DEF Served
      <4> QED
        BY <1>1, <4>1, NamesAfter
    <3>2. CASE columns[t] = {}
      <4>1. t = h.table /\ h.do = "columns"
        <5> HIDE DEF h
        <5>1. CASE t = h.table /\ h.do \in {"rename", "not_null"}
          BY <2>1, <2>4, <3>2, <5>1 DEF Effect
        <5>2. CASE t # h.table \/ h.do \notin {"columns", "rename", "not_null"}
          BY <2>1, <2>4, <3>2, <5>2 DEF Effect
        <5> QED
          BY <5>1, <5>2
      <4>2. "id" \in Names(h.new) /\ columns'[t] = columns[t] \cup h.new
        BY <2>1, <2>3, <3>2, <4>1 DEF Effect
      <4> QED
        BY <4>2 DEF Names
    <3> QED
      BY <3>1, <3>2
  <2>5. ASSUME server # None, NEW t \in Table
        PROVE  /\ server[t] \subseteq Names(columns'[t])
               /\ server[t] # {} => \A c \in columns'[t] : c[2] = Required => c[1] \in server[t]
    <3>1. h.do \notin {"rename", "not_null"}
      <4>1. q \notin Contract
        BY <2>1, <2>5 DEF InOrder
      <4> QED
        BY <2>1, <4>1, KindOfStatement DEF Contract
    <3>2. server[t] \subseteq Names(columns[t])
      BY <2>5 DEF Served
    <3>3. server[t] \subseteq Names(columns'[t])
      BY <1>1, <3>1, <3>2, NamesAfter
    <3>4. ASSUME server[t] # {}, NEW c \in columns'[t], c[2] = Required
          PROVE  c[1] \in server[t]
      <4>1. CASE c \in columns[t]
        BY <2>5, <3>4, <4>1 DEF Served
      <4>2. CASE c \notin columns[t]
        <5>1. t = h.table /\ h.do = "columns" /\ c \in h.new
          <6> HIDE DEF h
          <6> QED
            BY <2>1, <3>1, <3>4, <4>2 DEF Effect
        <5>2. columns[t] # {}
          BY <3>2, <3>4 DEF Names
        <5>3. "id" \notin Names(h.new)
          BY <2>2, <5>1, <5>2
        <5> QED
          BY <2>1, <3>4, <5>1, <5>3, NewTable
      <4> QED
        BY <4>1, <4>2
    <3> QED
      BY <3>3, <3>4
  <2> QED
    BY <2>1, <2>4, <2>5 DEF Served, Names
<1>2. CASE StartServer
  <2>1. \A t \in Table : server'[t] = Names(columns[t])
    BY <1>2 DEF StartServer
  <2>2. \A t \in Table : \A c \in columns[t] : c[1] \in Names(columns[t])
    BY DEF Names
  <2> QED
    BY <1>2, <2>1, <2>2 DEF StartServer, Served, Names
<1>3. CASE StopServer
  BY <1>3 DEF StopServer, Served, Names
<1>4. CASE \E t \in Written, x \in Id : InsertRow(t, x)
  <2>1. PICK t \in Written, x \in Id : InsertRow(t, x)
    BY <1>4
  <2>2. t \in Table /\ server # None /\ server[t] # {}
    BY <2>1, WrittenAssumption DEF InsertRow
  <2>3. Accepts(t)
    BY <2>2 DEF Accepts, Served
  <2> QED
    BY <2>1, <2>3 DEF InsertRow, Served, Names
<1>5. CASE UNCHANGED <<columns, server, rejected>>
  BY <1>5 DEF Served, Names
<1>6. \/ RunStatement /\ Success(Subject)
      \/ StartServer \/ StopServer
      \/ \E t \in Written, x \in Id : InsertRow(t, x)
      \/ UNCHANGED <<columns, server, rejected>>
  BY RunEffect DEF Next, vars, Failure, Upgrade, Stamp, Crash
<1> QED
  BY <1>1, <1>2, <1>3, <1>4, <1>5, <1>6

-----------------------------------------------------------------------------
(***************************************************************************)
(* Rows and their attributes.                                              *)
(***************************************************************************)

LEMMA TypedInit == Init => Typed
  BY DEF Init, Typed

LEMMA TypedStep == TypeInv /\ Typed /\ [Next]_vars => Typed'
<1> SUFFICES ASSUME TypeInv, Typed, [Next]_vars PROVE Typed'
  OBVIOUS
<1>0. /\ rows \in [Table -> SUBSET Id] /\ attr \in [Id -> Nat \cup {None}]
      /\ standard \in Seq(HasStandardAttr)
      /\ \A x \in Id : attr[x] # None => attr[x] \in Nat
  BY DEF TypeInv
<1>1. CASE RunStatement /\ Success(Subject) /\ Subject.do = "fill"
  <2> DEFINE u == Subject.table
  <2>1. /\ u \in HasStandardAttr /\ rows' = rows
        /\ \A x \in Id \ rows[u] : attr'[x] = attr[x]
        /\ \A x \in rows[u] : /\ attr'[x] \in Nat /\ attr'[x] > Len(standard)
                              /\ attr'[x] \in DOMAIN standard' /\ standard'[attr'[x]] = u
        /\ \A x, y \in rows[u] : attr'[x] = attr'[y] => x = y
        /\ \A i \in DOMAIN standard :
             i \in DOMAIN standard' /\ standard'[i] = standard[i] /\ i <= Len(standard)
    BY <1>1, FillEffect, RunEffect
  <2> HIDE DEF u, HasStandardAttr, Table
  <2>2. ASSUME NEW x \in Id, attr'[x] # None
        PROVE  \E t \in HasStandardAttr :
                 x \in rows[t] /\ attr'[x] \in DOMAIN standard' /\ standard'[attr'[x]] = t
    <3>1. CASE x \in rows[u]
      BY <2>1, <3>1
    <3>2. CASE x \notin rows[u]
      <4>1. attr'[x] = attr[x]
        BY <2>1, <3>2
      <4>2. PICK t \in HasStandardAttr :
              x \in rows[t] /\ attr[x] \in DOMAIN standard /\ standard[attr[x]] = t
        BY <2>2, <4>1 DEF Typed
      <4> QED
        BY <2>1, <4>1, <4>2
    <3> QED
      BY <3>1, <3>2
  <2>3. ASSUME NEW x \in Id, NEW y \in Id, attr'[x] # None, attr'[x] = attr'[y]
        PROVE  x = y
    <3>1. \A z \in Id \ rows[u] : attr'[z] # None => attr'[z] \in Nat /\ attr'[z] <= Len(standard)
      BY <1>0, <2>1 DEF Typed
    <3>2. Len(standard) \in Nat
      BY <1>0, LenProperties
    <3>3. CASE x \in rows[u] /\ y \in rows[u]
      BY <2>1, <2>3, <3>3
    <3>4. CASE x \notin rows[u] /\ y \notin rows[u]
      BY <2>1, <2>3, <3>4 DEF Typed
    <3>5. CASE x \in rows[u] /\ y \notin rows[u]
      BY <2>1, <2>3, <3>1, <3>2, <3>5
    <3>6. CASE x \notin rows[u] /\ y \in rows[u]
      BY <2>1, <2>3, <3>1, <3>2, <3>6
    <3> QED
      BY <3>3, <3>4, <3>5, <3>6
  <2> QED
    BY <2>1, <2>2, <2>3 DEF Typed
<1>2. CASE \E t \in Written, x \in Id : InsertRow(t, x) /\ Accepts(t)
  <2>1. PICK u \in Written, z \in Id : InsertRow(u, z) /\ Accepts(u)
    BY <1>2
  <2>2. /\ u \in HasStandardAttr /\ rows' = [rows EXCEPT ![u] = @ \cup {z}]
    BY <2>1, InsertEffect
  <2>3. \A other \in Table : z \notin rows[other]
    BY <2>1 DEF InsertRow
  <2>4. \A t \in Table : /\ rows[t] \subseteq rows'[t]
                         /\ rows'[t] = IF t = u THEN rows[t] \cup {z} ELSE rows[t]
    BY <1>0, <2>2
  <2>5. \A t, v \in Table : t # v => rows'[t] \cap rows'[v] = {}
    BY <2>3, <2>4 DEF Typed
  <2>6. attr[z] = None
    BY <2>3 DEF Typed
  <2>7. CASE "standard_attr_id" \notin server[u]
    <3>1. UNCHANGED <<attr, standard>>
      BY <2>1, <2>7, InsertEffect
    <3> QED
      BY <2>4, <2>5, <3>1 DEF Typed
  <2>8. CASE "standard_attr_id" \in server[u]
    <3>1. /\ \A y \in Id \ {z} : attr'[y] = attr[y]
          /\ attr'[z] \in Nat /\ attr'[z] > Len(standard)
          /\ attr'[z] \in DOMAIN standard' /\ standard'[attr'[z]] = u
          /\ \A i \in DOMAIN standard :
               i \in DOMAIN standard' /\ standard'[i] = standard[i] /\ i <= Len(standard)
      BY <2>1, <2>8, InsertEffect
    <3> HIDE DEF HasStandardAttr, Table
    <3>2. HasStandardAttr \subseteq Table
      BY DEF HasStandardAttr, Table
    <3>3. ASSUME NEW x \in Id, attr'[x] # None
          PROVE  \E t \in HasStandardAttr :
                   x \in rows'[t] /\ attr'[x] \in DOMAIN standard' /\ standard'[attr'[x]] = t
      <4>1. CASE x = z
        <5>1. z \in rows'[u]
          BY <2>2, <2>4, <3>2
        <5> QED
          BY <2>2, <3>1, <4>1, <5>1
      <4>2. CASE x # z
        <5>1. attr'[x] = attr[x]
          BY <3>1, <4>2
        <5>2. PICK t \in HasStandardAttr :
                x \in rows[t] /\ attr[x] \in DOMAIN standard /\ standard[attr[x]] = t
          BY <3>3, <5>1 DEF Typed
        <5> QED
          BY <2>4, <3>1, <3>2, <5>1, <5>2
      <4> QED
        BY <4>1, <4>2
    <3>4. ASSUME NEW x \in Id, NEW y \in Id, attr'[x] # None, attr'[x] = attr'[y]
          PROVE  x = y
      <4>1. \A w \in Id \ {z} : attr'[w] # None => attr'[w] \in Nat /\ attr'[w] <= Len(standard)
        BY <1>0, <3>1 DEF Typed
      <4>2. Len(standard) \in Nat
        BY <1>0, LenProperties
      <4>3. CASE x # z /\ y # z
        BY <3>1, <3>4, <4>3 DEF Typed
      <4>4. CASE x = z \/ y = z
        BY <3>1, <3>4, <4>1, <4>2, <4>4
      <4> QED
        BY <4>3, <4>4
    <3> QED
      BY <2>5, <3>3, <3>4 DEF Typed
  <2> QED
    BY <2>7, <2>8
<1>3. CASE UNCHANGED <<rows, attr, standard>>
  BY <1>3 DEF Typed
<1>4. \/ RunStatement /\ Success(Subject) /\ Subject.do = "fill"
      \/ \E t \in Written, x \in Id : InsertRow(t, x) /\ Accepts(t)
      \/ UNCHANGED <<rows, attr, standard>>
  BY RunEffect DEF Next, vars, Failure, Success, Effect, Upgrade, Stamp, Crash, StartServer,
                   StopServer, InsertRow
<1> QED
  BY <1>1, <1>2, <1>3, <1>4

LEMMA AllFilledInit == Init => AllFilled
  BY DEF Init, AllFilled, Under

\* A server that starts after the standard attributes knows them.
LEMMA AttributeKnown ==
  ASSUME TypeInv, InOrder, Works, FillAttributes \in stamped, NEW t \in HasStandardAttr
  PROVE  "standard_attr_id" \in Names(columns[t])
<1>1. AddAttributes \in stamped
  BY Before
<1>2. Statement("columns", t, {<<"standard_attr_id", Nullable>>}) \in Of(AddAttributes)
  BY DEF Of
<1>3. Worked(Statement("columns", t, {<<"standard_attr_id", Nullable>>}))
  BY <1>1, <1>2 DEF Works, Revision
<1>4. Present(t, <<"standard_attr_id", Nullable>>)
  BY <1>3 DEF Worked, Statement
<1> QED
  BY <1>4 DEF Present, Names

LEMMA AllFilledStep == TypeInv /\ InOrder /\ Works /\ Typed /\ AllFilled /\ [Next]_vars => AllFilled'
<1> SUFFICES ASSUME TypeInv, InOrder, Works, Typed, AllFilled, [Next]_vars PROVE AllFilled'
  OBVIOUS
<1> USE DEF AllFilled
<1>1. CASE \E r \in Revision : Upgrade(r)
  <2>1. PICK r \in Revision : Upgrade(r)
    BY <1>1
  <2>2. UNCHANGED <<stamped, server, rows, attr>>
    BY <2>1 DEF Upgrade
  <2>3. /\ doing' # None /\ doing'.revision = r /\ doing'.left = Statements(r)
        /\ r # RenameTenant => Range(Statements(r)) = Of(r)
    BY <2>1, Upgrading
  <2>4. ASSUME NEW t \in HasStandardAttr, r = FillAttributes
        PROVE  Left(Statement("fill", t, {}))'
    <3>1. Statement("fill", t, {}) \in Of(FillAttributes)
      BY DEF Of
    <3> QED
      BY <2>3, <2>4, <3>1 DEF Left, Range
  <2> QED
    BY <2>2, <2>3, <2>4 DEF Under, Filled
<1>2. CASE RunStatement
  <2> DEFINE h == Subject
  <2>1. /\ UNCHANGED <<stamped, server, rows>>
        /\ Failure(h) \/ Success(h)
    BY <1>2, RunEffect
  <2>2. CASE Failure(h)
    BY <2>1, <2>2 DEF Failure, Under, Filled
  <2>3. CASE Success(h)
    <3>1. doing' # None /\ doing'.revision = doing.revision /\ doing'.left = Tail(doing.left)
          /\ doing # None
      BY <1>2, <2>3, RunningJob DEF Success
    <3>2. ASSUME NEW t \in HasStandardAttr, Left(Statement("fill", t, {}))
          PROVE  Filled(t)' \/ Left(Statement("fill", t, {}))'
      <4>1. CASE Statement("fill", t, {}) = h
        <5>1. h.do = "fill" /\ h.table = t
          BY <4>1 DEF Statement
        <5> QED
          BY <1>2, <2>3, <5>1, FilledAfter
      <4>2. CASE Statement("fill", t, {}) # h
        <5>1. Statement("fill", t, {}) \in Range(Tail(doing.left))
          BY <1>2, <3>2, <4>2, RunningJob, HeadAndTail DEF Left, Subject
        <5> QED
          BY <3>1, <5>1 DEF Left, Range
      <4> QED
        BY <4>1, <4>2
    <3>3. ASSUME NEW t \in HasStandardAttr, Filled(t) PROVE Filled(t)'
      BY <1>2, <2>3, <3>3, FilledAfter
    <3> QED
      BY <2>1, <3>1, <3>2, <3>3 DEF Under
  <2> QED
    BY <2>1, <2>2, <2>3
<1>3. CASE Stamp
  <2>1. /\ UNCHANGED <<rows, attr, server>> /\ doing' = None /\ doing # None
        /\ stamped' = stamped \cup {doing.revision}
        /\ \A s : ~ Left(s)
    BY <1>3 DEF Stamp, Left, Range
  <2>2. Under(FillAttributes) => server = None
    BY DEF Under, InOrder, Contract
  <2> QED
    BY <2>1, <2>2 DEF Under, Filled
<1>4. CASE Crash
  BY <1>4 DEF Crash, Under, Filled
<1>5. CASE StartServer
  <2>1. \A t \in HasStandardAttr : server'[t] = Names(columns[t])
    BY <1>5 DEF StartServer
  <2>2. FillAttributes \in stamped =>
          \A t \in HasStandardAttr : "standard_attr_id" \in Names(columns[t])
    BY AttributeKnown
  <2> QED
    BY <1>5, <2>1, <2>2 DEF StartServer, Under, Filled, Left
<1>6. CASE StopServer
  BY <1>6 DEF StopServer, Under, Filled, Left
<1>7. CASE \E t \in Written, x \in Id : InsertRow(t, x)
  <2>1. PICK u \in Written, z \in Id : InsertRow(u, z)
    BY <1>7
  <2>2. /\ UNCHANGED <<stamped, doing, server>> /\ server # None /\ server[u] # {}
    BY <2>1 DEF InsertRow
  <2>3. ~ Under(FillAttributes)
    BY <2>2 DEF Under, InOrder, Contract
  <2>4. ASSUME FillAttributes \in stamped, NEW t \in HasStandardAttr
        PROVE  Filled(t)'
    <3>1. CASE ~ Accepts(u)
      BY <2>1, <2>4, <3>1 DEF InsertRow, Filled
    <3>2. CASE Accepts(u)
      <4>1. /\ u \in HasStandardAttr /\ rows' = [rows EXCEPT ![u] = @ \cup {z}]
        BY <2>1, <3>2, InsertEffect
      <4>2. "standard_attr_id" \in server[u]
        BY <2>2, <2>4, <4>1
      <4>3. /\ \A y \in Id \ {z} : attr'[y] = attr[y]
            /\ attr'[z] \in Nat
        BY <2>1, <3>2, <4>2, InsertEffect
      <4>4. rows'[t] \subseteq rows[t] \cup {z} /\ rows[t] \subseteq Id
        BY <4>1 DEF TypeInv
      <4>5. \A x \in rows[t] : attr[x] # None
        BY <2>4 DEF Filled
      <4> QED
        BY <4>3, <4>4, <4>5, NoneAssumption DEF Filled
    <3> QED
      BY <3>1, <3>2
  <2> QED
    BY <2>2, <2>3, <2>4 DEF Under
<1>8. CASE UNCHANGED vars
  BY <1>8 DEF vars, Under, Filled, Left
<1> QED
  BY <1>1, <1>2, <1>3, <1>4, <1>5, <1>6, <1>7, <1>8 DEF Next

-----------------------------------------------------------------------------
(***************************************************************************)
(* The theorems.                                                           *)
(***************************************************************************)

\* The inductive invariant holds in every reachable state: whatever revision is
\* under way or was cut short, each of its statements has worked or is to run.
THEOREM InvariantCorrect == Spec => []Inv
<1>1. Init => Inv
  BY TypeInit, OrderInit, TracedInit, FreshInit, WorksInit, BoundedInit, RenamesInit, ServedInit,
     TypedInit, AllFilledInit
  DEF Inv
<1>2. Inv /\ [Next]_vars => Inv'
  BY TypeStep, OrderStep, TracedStep, FreshStep, WorksStep, BoundedStep, RenamesStep, ServedStep,
     TypedStep, AllFilledStep
  DEF Inv
<1> QED
  BY <1>1, <1>2, PTL DEF Spec

\* No statement of a server that runs is rejected, whatever its release, while the
\* expand branch is upgraded and interrupted (db/migration, the expand branch).
THEOREM ServersAreServedCorrect == Spec => []ServersAreServed
<1>1. Inv => ServersAreServed
  BY DEF Inv, Served, ServersAreServed
<1> QED
  BY <1>1, InvariantCorrect, PTL

\* A migration fails only in a revision that was interrupted before.
THEOREM FailsOnlyAfterInterruptionCorrect == Spec => []FailsOnlyAfterInterruption
<1>1. Inv => FailsOnlyAfterInterruption
  BY DEF Inv, Fresh, FailsOnlyAfterInterruption
<1> QED
  BY <1>1, InvariantCorrect, PTL

\* Once 9d7f1ae5fa56 is applied, every row has a standard attribute of its own.
THEOREM RowsHaveTheirAttributeCorrect == Spec => []RowsHaveTheirAttribute
<1>1. Inv => RowsHaveTheirAttribute
  <2> SUFFICES ASSUME Inv, FillAttributes \in stamped PROVE
        /\ \A t \in HasStandardAttr : \A x \in rows[t] :
             attr[x] \in DOMAIN standard /\ standard[attr[x]] = t
        /\ \A x, y \in UNION {rows[t] : t \in HasStandardAttr} : attr[x] = attr[y] => x = y
    BY DEF RowsHaveTheirAttribute
  <2>1. TypeInv /\ Typed /\ \A t \in HasStandardAttr : Filled(t)
    BY DEF Inv, AllFilled
  <2>2. \A t \in HasStandardAttr : \A x \in rows[t] : x \in Id /\ attr[x] # None
    BY <2>1 DEF TypeInv, Filled
  <2>3. ASSUME NEW t \in HasStandardAttr, NEW x \in rows[t]
        PROVE  attr[x] \in DOMAIN standard /\ standard[attr[x]] = t
    <3>1. PICK u \in HasStandardAttr :
            x \in rows[u] /\ attr[x] \in DOMAIN standard /\ standard[attr[x]] = u
      BY <2>1, <2>2, <2>3 DEF Typed
    <3>2. u = t
      BY <2>1, <2>3, <3>1 DEF Typed
    <3> QED
      BY <3>1, <3>2
  <2>4. \A x, y \in UNION {rows[t] : t \in HasStandardAttr} : attr[x] = attr[y] => x = y
    BY <2>1, <2>2 DEF Typed
  <2> QED
    BY <2>3, <2>4
<1> QED
  BY <1>1, InvariantCorrect, PTL

\* Every column of the models is created by a revision, perhaps in an early form.
LEMMA ModelsAreCreated ==
  ASSUME NEW t \in Table, NEW c \in Models[t]
  PROVE  \E r \in Revision \ {RenameTenant} : \E s \in Of(r) : \E d \in s.new :
           /\ s.do = "columns" /\ s.table = t
           /\ \/ d = c
              \/ c[1] = "project_id" /\ t \in Renamed /\ d = <<"tenant_id", c[2]>>
              \/ c = <<"standard_attr_id", Required>> /\ d = <<"standard_attr_id", Nullable>>
<1> DEFINE Early(d) == \/ d = c
                       \/ c[1] = "project_id" /\ t \in Renamed /\ d = <<"tenant_id", c[2]>>
                       \/ c = <<"standard_attr_id", Required>> /\ d = <<"standard_attr_id", Nullable>>
<1>1. SUFFICES \E r \in Revision \ {RenameTenant} : \E s \in Of(r) : \E d \in s.new :
                 s.do = "columns" /\ s.table = t /\ Early(d)
  OBVIOUS
<1>2. ASSUME t \in HasStandardAttr, c = <<"standard_attr_id", Required>>
      PROVE  \E s \in Of(AddAttributes) : \E d \in s.new :
               s.do = "columns" /\ s.table = t /\ Early(d)
  <2>1. Statement("columns", t, {<<"standard_attr_id", Nullable>>}) \in Of(AddAttributes)
    BY <1>2 DEF Of
  <2>2. Early(<<"standard_attr_id", Nullable>>)
    BY <1>2
  <2> QED
    BY <2>1, <2>2 DEF Statement
<1>3. CASE t = "bgpvpns"
  <2>1. /\ Statement("columns", t, BgpvpnColumns) \in Of(Initial)
        /\ Statement("columns", t, {<<"vni", Nullable>>}) \in Of(Vni)
        /\ Statement("columns", t, {<<"local_pref", Nullable>>}) \in Of(LocalPref)
    BY <1>3 DEF Of
  <2>2. \/ c = <<"standard_attr_id", Required>> \/ c = <<"vni", Nullable>>
        \/ c = <<"local_pref", Nullable>>
        \/ \E d \in BgpvpnColumns : Early(d)
    <3>1. /\ <<"tenant_id", Nullable>> \in BgpvpnColumns
          /\ c = <<"project_id", Nullable>> => Early(<<"tenant_id", Nullable>>)
      BY <1>3 DEF BgpvpnColumns
    <3>2. \/ c = <<"standard_attr_id", Required>> \/ c = <<"vni", Nullable>>
          \/ c = <<"local_pref", Nullable>> \/ c = <<"project_id", Nullable>>
          \/ c \in BgpvpnColumns
      BY <1>3 DEF Models, BgpvpnColumns
    <3> QED
      BY <3>1, <3>2
  <2> QED
    BY <1>2, <1>3, <2>1, <2>2 DEF Statement, Revision
<1>4. CASE t \in {"networks", "routers"}
  <2> DEFINE resource == IF t = "networks" THEN "network_id" ELSE "router_id"
             q == IF t = "networks" THEN Initial ELSE RouterTable
  <2>1. /\ Statement("columns", t, Assoc(resource)) \in Of(q)
        /\ t = "routers" => Statement("columns", t, {ExtraRoutesColumn}) \in Of(ExtraRoutes)
    BY <1>4 DEF Of
  <2>2. \/ c = <<"standard_attr_id", Required>> \/ (c = ExtraRoutesColumn /\ t = "routers")
        \/ \E d \in Assoc(resource) : Early(d)
    <3>1. /\ <<"tenant_id", Required>> \in Assoc(resource)
          /\ c = <<"project_id", Required>> => Early(<<"tenant_id", Required>>)
      BY <1>4 DEF Assoc
    <3>2. \/ c = <<"standard_attr_id", Required>> \/ (c = ExtraRoutesColumn /\ t = "routers")
          \/ c = <<"project_id", Required>>
          \/ c \in Assoc(resource)
      BY <1>4 DEF Models, AssocModel, Assoc, ExtraRoutesColumn
    <3> QED
      BY <3>1, <3>2
  <2> QED
    BY <1>2, <1>4, <2>1, <2>2 DEF Statement, Revision
<1>5. CASE t = "ports"
  <2>1. Statement("columns", t, PortColumns) \in Of(PortTables)
    BY <1>5 DEF Of
  <2>2. c = <<"standard_attr_id", Required>> \/ c \in PortColumns
    BY <1>5 DEF Models, AssocModel, PortColumns
  <2> QED
    BY <1>2, <1>5, <2>1, <2>2 DEF Statement, Revision
<1>6. CASE t = "routes"
  <2>1. Statement("columns", t, RouteColumns) \in Of(PortTables)
    BY <1>6 DEF Of
  <2>2. c \in RouteColumns
    BY <1>6 DEF Models, RouteColumns
  <2> QED
    BY <1>6, <2>1, <2>2 DEF Statement, Revision
<1> QED
  BY <1>3, <1>4, <1>5, <1>6

\* When all revisions are applied, in whatever order, the tables are as the models of
\* db/bgpvpn_db.py declare them; but for the index that an interrupted renaming loses.
THEOREM SchemaMatchesModelsCorrect == Spec => []SchemaMatchesModels
<1>1. Inv => SchemaMatchesModels
  <2> SUFFICES ASSUME Inv, stamped = Revision
               PROVE  /\ columns = Models
                      /\ \A t \in HasStandardAttr : UniqueAttr \in indexes[t]
                      /\ RenameTenant \notin interrupted =>
                           \A t \in Table : indexes[t] = ModelIndexes(t)
    BY DEF SchemaMatchesModels
  <2>1. TypeInv /\ Works /\ Bounded /\ Renames
    BY DEF Inv
  <2>2. \A r \in Revision \ {RenameTenant} : \A s \in Of(r) : Worked(s)
    BY <2>1 DEF Works
  <2>3. \A t \in Renamed : "tenant_id" \notin Names(columns[t])
    BY <2>1 DEF Renames, Revision
  <2>4. \A t \in HasStandardAttr : NotNull(t) /\ UniqueAttr \in indexes[t]
    <3>1. \A t \in HasStandardAttr : /\ Statement("not_null", t, {}) \in Of(FillAttributes)
                                     /\ Statement("index", t, {UniqueAttr}) \in Of(FillAttributes)
      BY DEF Of
    <3> QED
      BY <2>2, <3>1 DEF Worked, Statement, Revision
  <2>5. ASSUME NEW t \in Table PROVE columns[t] \subseteq Models[t]
    <3> SUFFICES ASSUME NEW c \in columns[t] PROVE c \in Models[t]
      OBVIOUS
    <3>1. c \in Allowed(t)
      BY <2>1 DEF Bounded
    <3>2. t \in Renamed => c[1] # "tenant_id"
      BY <2>3 DEF Names
    <3>3. t \in HasStandardAttr => c # <<"standard_attr_id", Nullable>>
      BY <2>4 DEF NotNull
    <3> QED
      BY <3>1, <3>2, <3>3 DEF Allowed
  <2>6. ASSUME NEW t \in Table PROVE Models[t] \subseteq columns[t]
    <3> SUFFICES ASSUME NEW c \in Models[t] PROVE c \in columns[t]
      OBVIOUS
    <3>1. PICK r \in Revision \ {RenameTenant} : \E s \in Of(r) : \E d \in s.new :
            /\ s.do = "columns" /\ s.table = t
            /\ \/ d = c
               \/ c[1] = "project_id" /\ t \in Renamed /\ d = <<"tenant_id", c[2]>>
               \/ c = <<"standard_attr_id", Required>> /\ d = <<"standard_attr_id", Nullable>>
      BY ModelsAreCreated
    <3>2. PICK s \in Of(r) : \E d \in s.new :
            /\ s.do = "columns" /\ s.table = t
            /\ \/ d = c
               \/ c[1] = "project_id" /\ t \in Renamed /\ d = <<"tenant_id", c[2]>>
               \/ c = <<"standard_attr_id", Required>> /\ d = <<"standard_attr_id", Nullable>>
      BY <3>1
    <3>3. PICK d \in s.new :
            \/ d = c
            \/ c[1] = "project_id" /\ t \in Renamed /\ d = <<"tenant_id", c[2]>>
            \/ c = <<"standard_attr_id", Required>> /\ d = <<"standard_attr_id", Nullable>>
      BY <3>2
    <3>4. Present(t, d)
      BY <2>2, <3>2 DEF Worked
    <3>5. c = <<c[1], c[2]>> /\ c[1] # "tenant_id"
      <4>1. \A b \in Models[t] : b = <<b[1], b[2]>> /\ b[1] # "tenant_id"
        BY DEF Models, AssocModel
      <4> QED
        BY <4>1
    <3>6. c[1] = "standard_attr_id" => c = <<"standard_attr_id", Required>> /\ t \in HasStandardAttr
      <4>1. \A b \in Models[t] : b[1] = "standard_attr_id" =>
              b = <<"standard_attr_id", Required>> /\ t \in HasStandardAttr
        BY DEF Models, AssocModel
      <4> QED
        BY <4>1
    <3>7. CASE d = c
      BY <3>4, <3>5, <3>6, <3>7 DEF Present
    <3>8. CASE c[1] = "project_id" /\ t \in Renamed /\ d = <<"tenant_id", c[2]>>
      <4>1. d \notin columns[t]
        BY <2>3, <3>8 DEF Names
      <4> QED
        BY <3>4, <3>5, <3>8, <4>1 DEF Present
    <3>9. CASE c = <<"standard_attr_id", Required>> /\ d = <<"standard_attr_id", Nullable>>
      <4>1. d \notin columns[t]
        BY <2>4, <3>6, <3>9 DEF NotNull
      <4> QED
        BY <3>4, <3>9, <4>1 DEF Present
    <3> QED
      BY <3>3, <3>7, <3>8, <3>9
  <2>7. columns = Models
    <3>1. \A t \in Table : columns[t] = Models[t]
      BY <2>5, <2>6
    <3>2. columns \in [Table -> SUBSET Column] /\ DOMAIN Models = Table
            /\ Models = [t \in Table |-> Models[t]]
      BY <2>1 DEF TypeInv, Models
    <3> QED
      BY <3>1, <3>2
  <2>8. ASSUME RenameTenant \notin interrupted, NEW t \in Table
        PROVE  indexes[t] = ModelIndexes(t)
    <3>1. indexes[t] \subseteq ModelIndexes(t) \cup (IF t \in Renamed THEN {"tenant_id"} ELSE {})
      BY <2>1 DEF Bounded, AllowedIndexes
    <3>2. t \in Renamed => "tenant_id" \notin indexes[t] /\ "project_id" \in indexes[t]
      BY <2>1, <2>8 DEF Renames, Revision
    <3>3. t = "ports" => "project_id" \in indexes[t]
      <4>1. Statement("index", "ports", {"project_id"}) \in Of(PortTables)
        BY DEF Of
      <4> QED
        BY <2>2, <4>1 DEF Worked, Statement, Revision
    <3>4. t \in HasStandardAttr => {"project_id", UniqueAttr} \subseteq indexes[t]
      BY <2>4, <3>2, <3>3
    <3>5. ModelIndexes(t) \subseteq indexes[t] /\ "tenant_id" \notin ModelIndexes(t)
      BY <3>4 DEF ModelIndexes
    <3> QED
      BY <3>1, <3>2, <3>5
  <2> QED
    BY <2>4, <2>7, <2>8
<1> QED
  BY <1>1, InvariantCorrect, PTL

=============================================================================
