----------------------------- MODULE Migrations -----------------------------
(***************************************************************************)
(* The alembic migrations of the BGPVPN tables                             *)
(* (db/migration/alembic_migrations/versions), on a database that commits  *)
(* each statement by itself, beside servers that read and write the tables.*)
(*                                                                         *)
(* Revisions of the expand branch may run while a server runs; those of    *)
(* the contract branch run while none does.  A revision that is cut short  *)
(* is not stamped and runs again from its beginning.                       *)
(*                                                                         *)
(* A column is a name and what inserts have to know of it: whether it may  *)
(* be left out.  Foreign keys and uniqueness are modelled for the standard *)
(* attributes, which the migrations fill in themselves; an index and a     *)
(* unique constraint have in common that their names are taken once.       *)
(***************************************************************************)
EXTENDS Naturals, Sequences, FiniteSets

CONSTANTS
  Id,          \* the ids rows may get
  Written,     \* the tables servers insert into, to keep the instance small
  MaxCrashes,  \* bound: how often a migration is interrupted
  None

Table == {"bgpvpns", "networks", "routers", "ports", "routes"}
HasStandardAttr == {"bgpvpns", "networks", "routers", "ports"}

ASSUME WrittenAssumption == Written \subseteq HasStandardAttr
ASSUME CrashAssumption == MaxCrashes \in Nat

VARIABLES
  stamped,      \* the revisions that alembic_version records as applied
  doing,        \* the revision that runs, and its statements still to run
  columns,      \* the columns of each table
  indexes,      \* the names of the indexes and unique constraints of each table
  rows,         \* the rows of each table
  attr,         \* the standard attribute of each row
  standard,     \* table standardattributes: the resource type of each id
  server,       \* the columns that the running server knows of each table
  rejected,     \* a statement of a running server failed
  stuck,        \* a statement of a migration failed
  interrupted,  \* history: the revisions that were ever cut short
  crashes       \* how often that happened

schema == <<columns, indexes>>
data == <<rows, attr, standard>>
trouble == <<stuck, interrupted, crashes>>
vars == <<stamped, doing, schema, data, server, rejected, trouble>>

-----------------------------------------------------------------------------
(***************************************************************************)
(* The revisions.                                                          *)
(***************************************************************************)

Start == "start_networking_bgpvpn"
Initial == "17d9fd4fddee"
ContractInitial == "180baa4183e0"
RouterTable == "3600132c6147"
TenantIndexes == "0ab4049986b8"
RenameTenant == "23ce05e0a19f"
PortTables == "9a6664f3b8d4"
Vni == "39411aacf9b8"
ExtraRoutes == "4610803bdf0d"
LocalPref == "666c706fea3b"
AddAttributes == "7a9482036ecd"
FillAttributes == "9d7f1ae5fa56"

Revision ==
  {Initial, ContractInitial, RouterTable, TenantIndexes, RenameTenant, PortTables, Vni,
   ExtraRoutes, LocalPref, AddAttributes, FillAttributes}

DownRevision == [r \in Revision |->
  CASE r \in {Initial, ContractInitial} -> Start
    [] r = RouterTable -> Initial
    [] r = TenantIndexes -> RouterTable
    [] r = RenameTenant -> ContractInitial
    [] r = PortTables -> TenantIndexes
    [] r = Vni -> PortTables
    [] r = ExtraRoutes -> Vni
    [] r = LocalPref -> ExtraRoutes
    [] r = AddAttributes -> LocalPref
    [] r = FillAttributes -> RenameTenant]

\* The down revisions that the docstrings name.
Revises == [DownRevision EXCEPT ![ExtraRoutes] = PortTables, ![LocalPref] = Vni]

DependsOn(r) == CASE r = RenameTenant -> {TenantIndexes}
                  [] r = FillAttributes -> {AddAttributes}
                  [] OTHER -> {}

Contract == {ContractInitial, RenameTenant, FillAttributes}

Liberty == {Initial, ContractInitial, RouterTable}
Newton == Liberty \cup {TenantIndexes, RenameTenant}
Queens == Newton \cup {PortTables, Vni, ExtraRoutes, LocalPref}
Release == {Liberty, Newton, Queens, Revision}

Nullable == "nullable"
Required == "required"   \* NOT NULL without a default
Defaulted == "default"   \* NOT NULL with a server default

Names(cols) == {c[1] : c \in cols}

Statement(what, t, new) == [do |-> what, table |-> t, new |-> new]
Step(what, t, new) == <<Statement(what, t, new)>>

\* create_table and add_column; create_index.
CreateTable(t, cols) == Step("columns", t, cols)
CreateIndex(t, name) == Step("index", t, {name})

Assoc(resource) == {"id", "tenant_id", "bgpvpn_id", resource} \X {Required}

BgpvpnColumns ==
  ({"id", "type", "route_targets"} \X {Required})
    \cup ({"name", "tenant_id", "import_targets", "export_targets", "route_distinguishers"}
            \X {Nullable})

PortColumns ==
  ({"id", "project_id", "bgpvpn_id", "port_id"} \X {Required})
    \cup {<<"advertise_fixed_ips", Defaulted>>}

RouteColumns ==
  ({"id", "port_association_id", "type"} \X {Required})
    \cup ({"local_pref", "prefix", "bgpvpn_id"} \X {Nullable})

\* Mutant: advertise_extra_routes without a server default.
ExtraRoutesRequired == <<"advertise_extra_routes", Required>>

ExtraRoutesColumn == <<"advertise_extra_routes", Defaulted>>

\* One table of the renaming: the column, then its index.
RenameSteps(t) ==
  IF "tenant_id" \notin Names(columns[t]) THEN <<>>
  ELSE Step("rename", t, {}) \o
         (IF "tenant_id" \in indexes[t]
          THEN Step("drop_index", t, {}) \o CreateIndex(t, "project_id") ELSE <<>>)

\* Mutant: the table of router associations is not in the list.
RenamingWithoutRouters == RenameSteps("bgpvpns") \o RenameSteps("networks")

\* It looks up, when it starts, which tables have a tenant_id.
Renaming == RenameSteps("routers") \o RenameSteps("bgpvpns") \o RenameSteps("networks")

UniqueAttr == "uniq_standard_attr_id"

\* Mutant: the column is made NOT NULL before it is filled.
NotNullFirst(t) ==
  Step("not_null", t, {}) \o Step("fill", t, {}) \o CreateIndex(t, UniqueAttr)

\* upgrade_table.
FillSteps(t) ==
  Step("fill", t, {}) \o Step("not_null", t, {}) \o CreateIndex(t, UniqueAttr)
    \o Step("foreign_key", t, {})

\* Mutant: the port associations are forgotten.
FillingWithoutPorts == FillSteps("bgpvpns") \o FillSteps("networks") \o FillSteps("routers")

Filling ==
  FillSteps("bgpvpns") \o FillSteps("networks") \o FillSteps("routers") \o FillSteps("ports")

AttrColumn(t) == CreateTable(t, {<<"standard_attr_id", Nullable>>})

\* The statements of a revision.
Statements(r) ==
  CASE r = Initial ->
         CreateTable("bgpvpns", BgpvpnColumns) \o CreateTable("networks", Assoc("network_id"))
    [] r = RouterTable -> CreateTable("routers", Assoc("router_id"))
    [] r = TenantIndexes ->
         CreateIndex("bgpvpns", "tenant_id") \o CreateIndex("networks", "tenant_id")
           \o CreateIndex("routers", "tenant_id")
    [] r = RenameTenant -> Renaming
    [] r = PortTables ->
         CreateTable("ports", PortColumns) \o CreateIndex("ports", "project_id")
           \o CreateTable("routes", RouteColumns)
    [] r = Vni -> CreateTable("bgpvpns", {<<"vni", Nullable>>})
    [] r = ExtraRoutes -> CreateTable("routers", {ExtraRoutesColumn})
    [] r = LocalPref -> CreateTable("bgpvpns", {<<"local_pref", Nullable>>})
    [] r = AddAttributes ->
         AttrColumn("bgpvpns") \o AttrColumn("networks") \o AttrColumn("routers")
           \o AttrColumn("ports")
    [] r = FillAttributes -> Filling
    [] OTHER -> <<>>

-----------------------------------------------------------------------------
(***************************************************************************)
(* Running a revision.                                                     *)
(***************************************************************************)

\* The names of the columns and indexes, and the revisions under way.
Name ==
  {"id", "type", "name", "tenant_id", "project_id", "route_targets", "import_targets",
   "export_targets", "route_distinguishers", "vni", "local_pref", "bgpvpn_id", "network_id",
   "router_id", "port_id", "port_association_id", "prefix", "advertise_fixed_ips",
   "advertise_extra_routes", "standard_attr_id", UniqueAttr}
Column == Name \X {Nullable, Required, Defaulted}

Job == [revision : Revision,
        left : Seq([do : {"columns", "index", "rename", "drop_index", "fill", "not_null",
                          "foreign_key"},
                    table : Table, new : SUBSET (Name \cup Column)])]

\* No id and no revision under way is the absence of one.
ASSUME NoneAssumption == None \notin Nat /\ None \notin Job

\* What comes before the revision, and what it depends on, is applied.
Upgrade(r) ==
  /\ doing = None /\ ~ stuck
  /\ r \in Revision \ stamped
  /\ DownRevision[r] \in stamped \cup {Start} /\ DependsOn(r) \subseteq stamped
  /\ r \in Contract => server = None
  /\ doing' = [revision |-> r, left |-> Statements(r)]
  /\ UNCHANGED <<stamped, schema, data, server, rejected, trouble>>

Runs(what) == doing # None /\ doing.left # <<>> /\ Head(doing.left).do = what
Subject == Head(doing.left)
Done == doing' = [doing EXCEPT !.left = Tail(@)] /\ UNCHANGED stuck
Fail == stuck' = TRUE /\ doing' = None

\* A table or column that is there already fails.
AddColumns ==
  /\ Runs("columns")
  /\ IF Names(Subject.new) \cap Names(columns[Subject.table]) = {}
     THEN columns' = [columns EXCEPT ![Subject.table] = @ \cup Subject.new] /\ Done
     ELSE Fail /\ UNCHANGED columns
  /\ UNCHANGED <<stamped, indexes, data, server, rejected, interrupted, crashes>>

\* So does an index or a unique constraint whose name is taken.
AddIndex ==
  /\ Runs("index")
  /\ IF Subject.new \cap indexes[Subject.table] = {}
     THEN indexes' = [indexes EXCEPT ![Subject.table] = @ \cup Subject.new] /\ Done
     ELSE Fail /\ UNCHANGED indexes
  /\ UNCHANGED <<stamped, columns, data, server, rejected, interrupted, crashes>>

DropTenantIndex ==
  /\ Runs("drop_index")
  /\ indexes' = [indexes EXCEPT ![Subject.table] = @ \ {"tenant_id"}]
  /\ Done
  /\ UNCHANGED <<stamped, columns, data, server, rejected, interrupted, crashes>>

RenameColumn ==
  /\ Runs("rename")
  /\ columns' = [columns EXCEPT ![Subject.table] =
       {IF c[1] = "tenant_id" THEN <<"project_id", c[2]>> ELSE c : c \in @}]
  /\ Done
  /\ UNCHANGED <<stamped, indexes, data, server, rejected, interrupted, crashes>>

\* Each row gets a standard attribute of its own, also one that has one.
FillRows ==
  /\ Runs("fill")
  /\ LET t == Subject.table
         n == Len(standard)
         count == Cardinality(rows[t])
     IN \E order \in [rows[t] -> (n + 1)..(n + count)] :
          /\ \A x, y \in rows[t] : order[x] = order[y] => x = y
          /\ attr' = [x \in Id |-> IF x \in rows[t] THEN order[x] ELSE attr[x]]
          /\ standard' = standard \o [i \in 1..count |-> t]
  /\ Done
  /\ UNCHANGED <<stamped, schema, rows, server, rejected, interrupted, crashes>>

SetNotNull ==
  /\ Runs("not_null")
  /\ IF \A x \in rows[Subject.table] : attr[x] # None
     THEN columns' = [columns EXCEPT ![Subject.table] =
            {IF c[1] = "standard_attr_id" THEN <<c[1], Required>> ELSE c : c \in @}] /\ Done
     ELSE Fail /\ UNCHANGED columns
  /\ UNCHANGED <<stamped, indexes, data, server, rejected, interrupted, crashes>>

\* The foreign key has no name: a second one is added.
AddForeignKey ==
  /\ Runs("foreign_key")
  /\ Done
  /\ UNCHANGED <<stamped, schema, data, server, rejected, interrupted, crashes>>

Stamp ==
  /\ doing # None /\ doing.left = <<>>
  /\ stamped' = stamped \cup {doing.revision}
  /\ doing' = None
  /\ UNCHANGED <<schema, data, server, rejected, trouble>>

\* Interrupted after some of its statements; the others run with the next try.
Crash ==
  /\ doing # None /\ crashes < MaxCrashes
  /\ interrupted' = interrupted \cup {doing.revision} /\ crashes' = crashes + 1
  /\ doing' = None
  /\ UNCHANGED <<stamped, schema, data, server, rejected, stuck>>

-----------------------------------------------------------------------------
(***************************************************************************)
(* Servers.  A server of a release knows the columns of that release.      *)
(***************************************************************************)

\* Servers are started on a schema that is a release's, not half of one.
StartServer ==
  /\ server = None /\ doing = None /\ ~ stuck
  /\ stamped \in Release /\ interrupted \subseteq stamped
  /\ server' = [t \in Table |-> Names(columns[t])]
  /\ UNCHANGED <<stamped, doing, schema, data, rejected, trouble>>

StopServer ==
  /\ server # None
  /\ server' = None
  /\ UNCHANGED <<stamped, doing, schema, data, rejected, trouble>>

Accepts(t) ==
  /\ server[t] \subseteq Names(columns[t])
  /\ \A c \in columns[t] : c[2] = Required => c[1] \in server[t]

InsertRow(t, x) ==
  /\ server # None /\ server[t] # {}
  /\ \A other \in Table : x \notin rows[other]
  /\ IF Accepts(t)
     THEN /\ rows' = [rows EXCEPT ![t] = @ \cup {x}]
          /\ IF "standard_attr_id" \in server[t]
             THEN /\ standard' = Append(standard, t)
                  /\ attr' = [attr EXCEPT ![x] = Len(standard')]
             ELSE UNCHANGED <<attr, standard>>
          /\ UNCHANGED rejected
     ELSE rejected' = TRUE /\ UNCHANGED data
  /\ UNCHANGED <<stamped, doing, schema, server, trouble>>

-----------------------------------------------------------------------------
Init ==
  /\ stamped = {} /\ doing = None
  /\ columns = [t \in Table |-> {}] /\ indexes = [t \in Table |-> {}]
  /\ rows = [t \in Table |-> {}]
  /\ attr = [x \in Id |-> None]
  /\ standard = <<>>
  /\ server = None /\ rejected = FALSE
  /\ stuck = FALSE /\ interrupted = {} /\ crashes = 0

RunStatement ==
  AddColumns \/ AddIndex \/ DropTenantIndex \/ RenameColumn \/ FillRows \/ SetNotNull
    \/ AddForeignKey

Next ==
  \/ \E r \in Revision : Upgrade(r)
  \/ RunStatement \/ Stamp \/ Crash
  \/ StartServer \/ StopServer
  \/ \E t \in Written, x \in Id : InsertRow(t, x)

Spec == Init /\ [][Next]_vars

-----------------------------------------------------------------------------
(***************************************************************************)
(* Properties.                                                             *)
(***************************************************************************)

\* The models of db/bgpvpn_db.py.
AssocModel(resource) ==
  {"id", "project_id", "bgpvpn_id", "standard_attr_id", resource} \X {Required}

Models == [t \in Table |->
  CASE t = "bgpvpns" -> ({"id", "type", "route_targets", "standard_attr_id"} \X {Required})
         \cup ({"project_id", "name", "import_targets", "export_targets",
                "route_distinguishers", "vni", "local_pref"} \X {Nullable})
    [] t = "networks" -> AssocModel("network_id")
    [] t = "routers" -> AssocModel("router_id") \cup {<<"advertise_extra_routes", Defaulted>>}
    [] t = "ports" -> AssocModel("port_id") \cup {<<"advertise_fixed_ips", Defaulted>>}
    [] t = "routes" -> ({"id", "port_association_id", "type"} \X {Required})
         \cup ({"local_pref", "prefix", "bgpvpn_id"} \X {Nullable})]

ModelIndexes(t) == IF t \in HasStandardAttr THEN {"project_id", UniqueAttr} ELSE {}

\* Whichever way the two branches are interleaved, the tables end up as the
\* models declare them: columns, nullability, the index on the project and the
\* unique constraint, even when migrations were interrupted and run again.  Only an
\* interruption of the renaming can lose the index (23ce05e0a19f, lines 114-124).
SchemaMatchesModels ==
  stamped = Revision =>
    /\ columns = Models
    /\ \A t \in HasStandardAttr : UniqueAttr \in indexes[t]
    /\ RenameTenant \in interrupted \/ \A t \in Table : indexes[t] = ModelIndexes(t)

\* Expanding never breaks a server that runs, whatever its release and however
\* often the revision is interrupted: all that the server inserts is accepted.
ServersAreServed == ~ rejected

\* Once the standard attributes are constrained, every row, whenever it was
\* inserted, has one of its own type that no other row has.
RowsHaveTheirAttribute ==
  FillAttributes \in stamped =>
    /\ \A t \in HasStandardAttr : \A x \in rows[t] :
         attr[x] \in DOMAIN standard /\ standard[attr[x]] = t
    /\ \A x, y \in UNION {rows[t] : t \in HasStandardAttr} : attr[x] = attr[y] => x = y

\* In whatever order the branches advance, and whatever rows servers insert
\* meanwhile, no statement fails as long as no revision was cut short.  Any
\* revision that was, and is not stamped since, excuses any failure: one that
\* starts over may find what it creates.
FailsOnlyAfterInterruption == stuck => interrupted \ stamped # {}

\* The heads of the branches, as alembic_version has them.
Heads == stamped \ {DownRevision[r] : r \in stamped}

\* Each revision is applied to the one that its docstring says it revises.
AppliedInDocumentedOrder ==
  [][\A r \in stamped' \ stamped : Revises[r] \in Heads \cup {Start}]_vars
=============================================================================
