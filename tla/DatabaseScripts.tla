--------------------------- MODULE DatabaseScripts ---------------------------
(***************************************************************************)
(* The scripts of src/database/scripts, as package.json names them.  Each  *)
(* is a process of its own: a list of statements, sent one after the other *)
(* to a PostgreSQL server, in no common transaction.  A step is one        *)
(* statement, or one transaction where the code opens one; some steps look *)
(* at what is there and decide which statements follow.                    *)
(*                                                                         *)
(* Scripts may overlap with one another and with the clients of the        *)
(* database, may fail at any statement, and may be killed between two.     *)
(***************************************************************************)
EXTENDS Naturals, FiniteSets, Sequences

CONSTANTS
    Slot,       \* scripts that run at the same time
    Primary,    \* values of DB_SCHEMA that are tried
    AppSchemas, \* APPLICATION_DATABASE_SCHEMAS; the first holds the entities
    Assets,     \* the keys of the manifest, in sorted order
    OnTable,    \* assets attached to an application table, as an index is
    InSteps,    \* assets with transactional: false
    Versions,   \* bound: contents an SQL file may have
    Migrations, \* bound: names of InitialSchema migrations
    MaxStarts   \* bound: scripts started

ASSUME BoundsAssumption == Versions \subseteq Nat \ {0} /\ Versions # {} /\ MaxStarts \in Nat
ASSUME SequencesAssumption == AppSchemas \in Seq(STRING) /\ Assets \in Seq(STRING)
ASSUME SchemasAssumption ==
    AppSchemas # <<>> /\ \A i \in DOMAIN AppSchemas : AppSchemas[i] \notin Primary \cup {"public"}

VARIABLES
    primary, \* DB_SCHEMA of this installation
    db,      \* whether the database exists
    data,    \* what it holds
    files,   \* the InitialSchema migrations in the source tree
    source,  \* the contents of each SQL file
    client,  \* whether the application is connected
    script,  \* what runs in each slot
    todo,    \* the statements it has left
    conn,    \* whether it holds a connection to the database
    quiet,   \* history: nobody else took a step since it started
    suspect, \* history: assets that were half synced or lost their table
    skewed,  \* history: migrations were cleared, or schemas reset, apart
    starts   \* scripts started so far

environment == <<primary, files, source>>
process == <<script, todo, conn, quiet, starts>>
history == <<suspect, skewed>>
vars == <<environment, db, data, client, process, history>>

Asset == { Assets[i] : i \in DOMAIN Assets }
ASSUME AssetsAssumption == OnTable \cup InSteps \subseteq Asset

\* buildRequiredDatabaseSchemas
Required == <<primary>> \o AppSchemas
RequiredSet == { Required[i] : i \in DOMAIN Required }

Entities == AppSchemas[1]

\* Which schema holds a table, and which an asset.
TablesIn(x) == (IF x = Entities THEN {"app"} ELSE {})
               \cup (IF x = primary THEN {"registry", "migrations"} ELSE {})
Home(a) == IF a \in OnTable THEN Entities ELSE "public"

Nothing == [a \in Asset |-> 0]
Blank == [schemas |-> {}, tables |-> {}, record |-> {}, rows |-> {},
          registry |-> Nothing, object |-> Nothing]

Table == {"app", "registry", "migrations"}
Databases == [schemas : SUBSET (RequiredSet \cup {"public"}), tables : SUBSET Table,
              record : SUBSET Migrations, rows : SUBSET {"seed", "client"},
              registry : [Asset -> Versions \cup {0}], object : [Asset -> Versions \cup {0}]]

-----------------------------------------------------------------------------
(* The scripts.                                                            *)

\* ensureDatabaseSchemas, on a connection of its own.
Ensure == [i \in DOMAIN Required |-> <<"schema", Required[i]>>] \o << <<"close">> >>

\* A script on the configured data source first ensures the schemas.
OnDataSource(steps) == Ensure \o steps \o << <<"close">> >>

\* Mistake, for mutation: the connections are not terminated.
Drop_Connected == << <<"findToDrop">> >>

Drop == << <<"terminate">>, <<"findToDrop">> >>
Create == << <<"findToCreate">> >>

CreateScript == Create \o Ensure
ResetScript == Drop \o Create \o Ensure

\* Mistake, for mutation: the schemas are dropped and not created again.
Wipes_Only(public) ==
    LET kept == IF public \/ primary # "public" THEN Required ELSE AppSchemas
    IN  [i \in DOMAIN kept |-> <<"wipe", kept[i]>>]

\* resetDatabaseSchemas leaves public alone unless told otherwise.
Wipes(public) ==
    LET kept == IF public \/ primary # "public" THEN Required ELSE AppSchemas
        pair(i) == LET x == kept[(i + 1) \div 2] IN
                   IF i % 2 = 1 THEN <<"wipe", x>> ELSE <<"schema", x>>
    IN  [i \in 1 .. 2 * Len(kept) |-> pair(i)]

ResetSchemasScript(public) == OnDataSource(Wipes(public))
TruncateScript(all) == OnDataSource(<< <<"list", all>> >>)
MigrateScript(command) == OnDataSource(<< <<command>> >>)
SeedScript == OnDataSource(<< <<"list", FALSE>>, <<"seed">> >>)

\* One step per asset, in the order of the manifest.
SyncScript(force) ==
    OnDataSource(<< <<"registry">> >> \o [i \in DOMAIN Assets |-> <<"asset", Assets[i], force>>])

\* db:fresh: each line is a child process; the first that fails ends it.
FreshScript ==
    << <<"files">> >>
    \o Drop
    \o CreateScript
    \o Ensure
    \o << <<"generate">>, <<"close">> >>
    \o MigrateScript("pending")

Scripts == {"create", "drop", "reset", "fresh", "schemas", "schemas:reset",
            "schemas:reset:public", "truncate", "truncate:with-migrations",
            "migrate", "migrate:revert", "seed", "sql-assets", "sql-assets:force"}

Steps(name) ==
    CASE name = "create" -> CreateScript
      [] name = "drop" -> Drop
      [] name = "reset" -> ResetScript
      [] name = "fresh" -> FreshScript
      [] name = "schemas" -> Ensure
      [] name = "schemas:reset" -> ResetSchemasScript(FALSE)
      [] name = "schemas:reset:public" -> ResetSchemasScript(TRUE)
      [] name = "truncate" -> TruncateScript(FALSE)
      [] name = "truncate:with-migrations" -> TruncateScript(TRUE)
      [] name = "migrate" -> MigrateScript("pending")
      [] name = "migrate:revert" -> MigrateScript("last")
      [] name = "seed" -> SeedScript
      [] name = "sql-assets" -> SyncScript(FALSE)
      [] name = "sql-assets:force" -> SyncScript(TRUE)

-----------------------------------------------------------------------------
TypeOK ==
    /\ primary \in Primary /\ db \in BOOLEAN /\ client \in BOOLEAN
    /\ data \in Databases
    /\ (~db => data = Blank) /\ (client => db)
    /\ data.tables \subseteq UNION { TablesIn(x) : x \in data.schemas }
    /\ "app" \notin data.tables => data.rows = {}
    /\ files \subseteq Migrations
    /\ source \in [Asset -> Versions]
    /\ script \in [Slot -> Scripts \cup {"none"}]
    /\ conn \in [Slot -> BOOLEAN]
    /\ \A s \in Slot : todo[s] = <<>> <=> script[s] = "none"
    /\ \A s \in Slot : conn[s] => db /\ todo[s] # <<>>
    /\ quiet \in [Slot -> BOOLEAN]
    /\ suspect \subseteq Asset /\ skewed \in BOOLEAN
    /\ starts \in 0 .. MaxStarts

First == CHOOSE v \in Versions : \A w \in Versions : v <= w
Deployed(m) ==
    [schemas |-> RequiredSet \cup {"public"}, tables |-> Table, record |-> {m}, rows |-> {"client"},
     registry |-> [a \in Asset |-> First], object |-> [a \in Asset |-> First]]

\* What is attached to the application tables goes with them.
Without(d, gone) ==
    [d EXCEPT !.tables = @ \ gone,
              !.rows = IF "app" \in gone THEN {} ELSE @,
              !.record = IF "migrations" \in gone THEN {} ELSE @,
              !.registry = IF "registry" \in gone THEN Nothing ELSE @,
              !.object = [a \in Asset |-> IF "app" \in gone /\ a \in OnTable THEN 0 ELSE @[a]]]

\* There is no database, or an empty one, or one that was created, migrated and
\* synced; of which truncate:with-migrations has left the tables, or
\* schemas:reset all but the tables, or a db:fresh has lost the migration.
Init ==
    /\ primary \in Primary
    /\ \/ db = FALSE /\ data = Blank /\ files = {} /\ suspect = {} /\ skewed = FALSE
       \/ /\ db = TRUE /\ data = [Blank EXCEPT !.schemas = {"public"}]
          /\ files = {} /\ suspect = {} /\ skewed = FALSE
       \/ \E m \in Migrations :
            /\ db = TRUE
            /\ \/ data = Deployed(m) /\ files \in {{}, {m}} /\ suspect = {} /\ skewed = FALSE
               \/ /\ data = [Deployed(m) EXCEPT !.rows = {}, !.record = {}, !.registry = Nothing]
                  /\ files = {m} /\ suspect = {} /\ skewed = TRUE
               \/ /\ primary = "public" /\ data = Without(Deployed(m), {"app"})
                  /\ files = {m} /\ suspect = OnTable /\ skewed = TRUE
    /\ source = [a \in Asset |-> First]
    /\ client = FALSE
    /\ script = [s \in Slot |-> "none"] /\ todo = [s \in Slot |-> <<>>]
    /\ conn = [s \in Slot |-> FALSE] /\ quiet = [s \in Slot |-> FALSE]
    /\ starts = 0

-----------------------------------------------------------------------------
(* Running a script.                                                       *)

\* A script may also refuse to start: without --force, or in production.
Start(s, name) ==
    /\ todo[s] = <<>> /\ starts < MaxStarts
    /\ starts' = starts + 1
    /\ script' = [script EXCEPT ![s] = name]
    /\ todo' = [todo EXCEPT ![s] = Steps(name)]
    /\ quiet' = [q \in Slot |-> q = s /\ \A other \in Slot : todo[other] = <<>>]
    /\ UNCHANGED <<environment, db, data, client, conn, history>>

At(s, step) == todo[s] # <<>> /\ Head(todo[s])[1] = step
Arg(s, i) == Head(todo[s])[i]

\* The step is done, and these come before the rest.
Proceed(s, more) ==
    /\ todo' = [todo EXCEPT ![s] = more \o Tail(@)]
    /\ script' = [script EXCEPT ![s] = IF more \o Tail(todo[s]) = <<>> THEN "none" ELSE @]
    /\ quiet' = [q \in Slot |-> q = s /\ quiet[s]]
    /\ starts' = starts

\* The slots that have run an asset and not registered it yet.
Registering(a) == { s \in Slot : At(s, "register") /\ Arg(s, 2) = a }

\* These keep one connection: a query runner, or a transaction.
OnRunner == {"asset", "run", "register", "runAndRegister", "migrate", "undo"}
\* These take one from the pool, which replaces a connection that was lost.
OnPool == {"schema", "wipe", "list", "truncate", "pending", "last", "generate", "seed", "registry"}

\* What PostgreSQL and TypeORM ask of the next statement.
Works(s) ==
    /\ todo[s] # <<>>
    /\ At(s, "drop") => db /\ ~client /\ \A q \in Slot : ~conn[q]
    /\ At(s, "create") => ~db
    /\ Head(todo[s])[1] \in OnPool => db
    /\ Head(todo[s])[1] \in OnRunner => conn[s]
    /\ At(s, "truncate") => Arg(s, 2) \subseteq data.tables
    /\ At(s, "pending") \/ At(s, "last") => primary \in data.schemas
    /\ At(s, "migrate") => /\ Cardinality(Arg(s, 2)) = 1 /\ "app" \notin data.tables
                           /\ Entities \in data.schemas /\ "migrations" \in data.tables
    /\ At(s, "undo") => {"app", "migrations"} \subseteq data.tables /\ Arg(s, 2) \in files
    /\ At(s, "generate") => "app" \notin data.tables
    /\ At(s, "seed") => "app" \in data.tables /\ "seed" \notin data.rows
    /\ At(s, "asset") \/ At(s, "register") \/ At(s, "runAndRegister") =>
           "registry" \in data.tables
    /\ At(s, "run") \/ At(s, "runAndRegister") =>
           /\ Home(Arg(s, 2)) \in data.schemas
           /\ Arg(s, 2) \in OnTable => "app" \in data.tables

\* A statement is refused, as it is if it does not work, or meets another
\* error, or the process is killed: what was done stays done.
Fail(s) ==
    /\ todo[s] # <<>>
    /\ script' = [script EXCEPT ![s] = "none"]
    /\ todo' = [todo EXCEPT ![s] = <<>>]
    /\ conn' = [conn EXCEPT ![s] = FALSE]
    /\ quiet' = [q \in Slot |-> FALSE]
    /\ suspect' = suspect \cup { a \in InSteps : s \in Registering(a) }
    /\ UNCHANGED <<environment, db, data, client, starts, skewed>>

Runs(s, step) == At(s, step) /\ Works(s)
\* It changes the database over a connection of the pool.
Query(s, more) ==
    /\ Proceed(s, more)
    /\ conn' = [conn EXCEPT ![s] = TRUE]
    /\ UNCHANGED <<environment, db, client>>

Close(s) ==
    /\ Runs(s, "close")
    /\ Proceed(s, <<>>)
    /\ conn' = [conn EXCEPT ![s] = FALSE]
    /\ UNCHANGED <<environment, db, data, client, history>>

-----------------------------------------------------------------------------
(* database-admin.ts                                                       *)

\* terminateDatabaseConnections: everybody else's.
Terminate(s) ==
    /\ Runs(s, "terminate")
    /\ Proceed(s, <<>>)
    /\ conn' = [q \in Slot |-> FALSE]
    /\ client' = FALSE
    /\ UNCHANGED <<environment, db, data, history>>

FindToDrop(s) ==
    /\ Runs(s, "findToDrop")
    /\ Proceed(s, IF db THEN << <<"drop">> >> ELSE <<>>)
    /\ UNCHANGED <<environment, db, data, client, conn, history>>

DropDatabase(s) ==
    /\ Runs(s, "drop")
    /\ Proceed(s, <<>>)
    /\ db' = FALSE /\ data' = Blank
    /\ suspect' = {} /\ skewed' = FALSE
    /\ UNCHANGED <<environment, client, conn>>

FindToCreate(s) ==
    /\ Runs(s, "findToCreate")
    /\ Proceed(s, IF db THEN <<>> ELSE << <<"create">> >>)
    /\ UNCHANGED <<environment, db, data, client, conn, history>>

CreateDatabase(s) ==
    /\ Runs(s, "create")
    /\ Proceed(s, <<>>)
    /\ db' = TRUE /\ data' = [Blank EXCEPT !.schemas = {"public"}]
    /\ UNCHANGED <<environment, client, conn, history>>

-----------------------------------------------------------------------------
(* ensure-database-schemas.ts and table-maintenance.ts                     *)

\* CREATE SCHEMA IF NOT EXISTS
CreateSchema(s) ==
    /\ Runs(s, "schema")
    /\ Query(s, <<>>)
    /\ data' = [data EXCEPT !.schemas = @ \cup {Arg(s, 2)}]
    /\ UNCHANGED history

Orphans(gone) == IF "app" \in gone THEN OnTable ELSE {}

\* DROP SCHEMA IF EXISTS ... CASCADE
WipeSchema(s) ==
    /\ Runs(s, "wipe")
    /\ LET x == Arg(s, 2) IN
       /\ data' = [Without(data, TablesIn(x)) EXCEPT
                      !.schemas = @ \ {x},
                      !.object = [a \in Asset |-> IF Home(a) = x THEN 0 ELSE @[a]]]
       /\ suspect' = suspect \cup Orphans(TablesIn(x))
                      \cup { a \in InSteps : Home(a) = x /\ Registering(a) # {} }
    /\ skewed' = TRUE
    /\ Query(s, <<>>)

\* Mistake, for mutation: the record of migrations is always listed.
ListTables_Unfiltered(s) ==
    /\ Runs(s, "list")
    /\ LET found == data.tables IN
       Query(s, IF found = {} THEN <<>> ELSE << <<"truncate", found, Arg(s, 2)>> >>)
    /\ UNCHANGED <<data, history>>

\* listDatabaseTables, without the migrations unless they are included.
ListTables(s) ==
    /\ Runs(s, "list")
    /\ LET found == { t \in data.tables : t # "migrations" \/ Arg(s, 2) } IN
       Query(s, IF found = {} THEN <<>> ELSE << <<"truncate", found, Arg(s, 2)>> >>)
    /\ UNCHANGED <<data, history>>

\* TRUNCATE of all tables listed: the registry of the SQL assets is one.
TruncateTables(s) ==
    /\ Runs(s, "truncate")
    /\ LET emptied == Arg(s, 2) IN
       data' = [data EXCEPT !.rows = IF "app" \in emptied THEN {} ELSE @,
                            !.record = IF "migrations" \in emptied THEN {} ELSE @,
                            !.registry = IF "registry" \in emptied THEN Nothing ELSE @]
    /\ skewed' = (skewed \/ Arg(s, 3))
    /\ Query(s, <<>>)
    /\ UNCHANGED suspect

-----------------------------------------------------------------------------
(* migrate.ts, db-fresh.ts and the seeder.                                 *)

\* runMigrations creates its table and reads what was executed ...
FindPending(s) ==
    /\ Runs(s, "pending")
    /\ LET pending == files \ data.record IN
       Query(s, IF pending = {} THEN <<>> ELSE << <<"migrate", pending>> >>)
    /\ data' = [data EXCEPT !.tables = @ \cup {"migrations"}]
    /\ UNCHANGED history

\* ... and executes and records the rest in one transaction.  Each of the
\* InitialSchema migrations creates the same tables.
Migrate(s) ==
    /\ Runs(s, "migrate")
    /\ Query(s, <<>>)
    /\ data' = [data EXCEPT !.tables = @ \cup {"app"}, !.record = @ \cup Arg(s, 2)]
    /\ UNCHANGED history

FindLast(s) ==
    /\ Runs(s, "last")
    /\ \/ data.record = {} /\ Query(s, <<>>)
       \/ \E m \in data.record : Query(s, << <<"undo", m>> >>)
    /\ data' = [data EXCEPT !.tables = @ \cup {"migrations"}]
    /\ UNCHANGED history

Undo(s) ==
    /\ Runs(s, "undo")
    /\ Query(s, <<>>)
    /\ data' = [Without(data, {"app"}) EXCEPT !.record = @ \ {Arg(s, 2)}]
    /\ suspect' = suspect \cup OnTable
    /\ UNCHANGED skewed

RemoveInitialSchemaMigrations(s) ==
    /\ Runs(s, "files")
    /\ Proceed(s, <<>>)
    /\ files' = {}
    /\ UNCHANGED <<primary, source, db, data, client, conn, history>>

\* migration:generate compares the entities with the database.
Generate(s) ==
    /\ Runs(s, "generate")
    /\ \E m \in Migrations \ (files \cup data.record) : files' = files \cup {m}
    /\ Proceed(s, <<>>)
    /\ conn' = [conn EXCEPT ![s] = TRUE]
    /\ UNCHANGED <<primary, source, db, data, client, history>>

\* Users and avatars in one transaction; the emails are always the same.
Seed(s) ==
    /\ Runs(s, "seed")
    /\ Query(s, <<>>)
    /\ data' = [data EXCEPT !.rows = @ \cup {"seed"}]
    /\ UNCHANGED history

-----------------------------------------------------------------------------
(* sync-sql-assets.ts                                                      *)

EnsureRegistryTable(s) ==
    /\ Runs(s, "registry")
    /\ Query(s, <<>>)
    /\ data' = [data EXCEPT !.schemas = @ \cup {primary}, !.tables = @ \cup {"registry"}]
    /\ UNCHANGED history

\* Mistake, for mutation: an asset that does not say is not transactional.
CheckAsset_InSteps(s) ==
    /\ Runs(s, "asset")
    /\ LET a == Arg(s, 2)
           v == source[a]
       IN  Query(s, IF Arg(s, 3) \/ data.registry[a] # v
                    THEN << <<"run", a, v>>, <<"register", a, v>> >>
                    ELSE <<>>)
    /\ UNCHANGED <<data, history>>

\* Read the file, read the registered checksum, and decide.
CheckAsset(s) ==
    /\ Runs(s, "asset")
    /\ LET a == Arg(s, 2)
           v == source[a]
           run == Arg(s, 3) \/ data.registry[a] # v
       IN  Query(s, IF ~run THEN <<>>
                    ELSE IF a \in InSteps THEN << <<"run", a, v>>, <<"register", a, v>> >>
                    ELSE << <<"runAndRegister", a, v>> >>)
    /\ UNCHANGED <<data, history>>

RunAsset(s) ==
    /\ Runs(s, "run")
    /\ LET a == Arg(s, 2) IN
       /\ data' = [data EXCEPT !.object[a] = Arg(s, 3)]
       /\ suspect' = IF Registering(a) = {} THEN suspect \ {a} ELSE suspect \cup ({a} \cap InSteps)
    /\ Query(s, <<>>)
    /\ UNCHANGED skewed

UpsertRegistry(s) ==
    /\ Runs(s, "register")
    /\ data' = [data EXCEPT !.registry[Arg(s, 2)] = Arg(s, 3)]
    /\ Query(s, <<>>)
    /\ UNCHANGED history

RunAndRegister(s) ==
    /\ Runs(s, "runAndRegister")
    /\ LET a == Arg(s, 2) IN
       /\ data' = [data EXCEPT !.object[a] = Arg(s, 3), !.registry[a] = Arg(s, 3)]
       /\ suspect' = suspect \ {a}
    /\ Query(s, <<>>)
    /\ UNCHANGED skewed

-----------------------------------------------------------------------------
(* Everybody else.                                                         *)

Disturb == quiet' = [s \in Slot |-> FALSE] /\ UNCHANGED <<script, todo, conn, starts>>

\* The pool of the application connects, again after a termination.
ClientConnects ==
    /\ db /\ ~client
    /\ client' = TRUE
    /\ Disturb
    /\ UNCHANGED <<environment, db, data, history>>

ClientWrites ==
    /\ client /\ "app" \in data.tables /\ "client" \notin data.rows
    /\ data' = [data EXCEPT !.rows = @ \cup {"client"}]
    /\ Disturb
    /\ UNCHANGED <<environment, db, client, history>>

\* Another version of the source tree is checked out.
EditAsset(a, v) ==
    /\ v # source[a]
    /\ source' = [source EXCEPT ![a] = v]
    /\ Disturb
    /\ UNCHANGED <<primary, files, db, data, client, history>>

Step(s) ==
    \/ Terminate(s) \/ FindToDrop(s) \/ DropDatabase(s) \/ FindToCreate(s) \/ CreateDatabase(s)
    \/ CreateSchema(s) \/ WipeSchema(s) \/ ListTables(s) \/ TruncateTables(s) \/ Close(s)
    \/ FindPending(s) \/ Migrate(s) \/ FindLast(s) \/ Undo(s)
    \/ RemoveInitialSchemaMigrations(s) \/ Generate(s) \/ Seed(s)
    \/ EnsureRegistryTable(s) \/ CheckAsset(s) \/ RunAsset(s) \/ UpsertRegistry(s) \/ RunAndRegister(s)

Next ==
    \/ \E s \in Slot :
        \/ \E name \in Scripts : Start(s, name)
        \/ Step(s)
        \/ Fail(s)
    \/ ClientConnects
    \/ ClientWrites
    \/ \E a \in Asset, v \in Versions : EditAsset(a, v)

Spec == Init /\ [][Next]_vars

-----------------------------------------------------------------------------
(* Properties.                                                             *)

Ready == db /\ RequiredSet \subseteq data.schemas

\* What each script is run for.
Achieved(name) ==
    CASE name = "drop" -> ~db
      [] name \in {"create", "schemas", "migrate:revert"} -> Ready
      [] name = "reset" -> Ready /\ data.tables = {}
      [] name \in {"schemas:reset", "schemas:reset:public"} ->
            Ready /\ "app" \notin data.tables /\ (name = "schemas:reset:public" => data.tables = {})
      [] name = "truncate" -> Ready /\ data.rows = {}
      [] name = "truncate:with-migrations" -> Ready /\ data.rows = {} /\ data.record = {}
      [] name = "migrate" -> Ready /\ files \subseteq data.record
      [] name = "fresh" -> /\ Ready /\ "app" \in data.tables /\ data.rows = {}
                           /\ data.record = files /\ Cardinality(files) = 1
      [] name = "seed" -> Ready /\ data.rows = {"seed"}
      [] name = "sql-assets:force" -> data.registry = source /\ data.object = source
      [] name = "sql-assets" ->
            data.registry = source /\ \A a \in Asset \ suspect : data.object[a] = source[a]

\* A script that ends well did what it is for, whatever state earlier scripts
\* that failed or were killed left behind, if nobody else acts meanwhile.
FinishedMeansDone ==
    [][\A s \in Slot, name \in Scripts :
          script[s] = name /\ script'[s] = "none" /\ quiet'[s] => Achieved(name)']_vars

\* db:drop, db:create, db:reset and db:fresh repair anything: undisturbed they
\* are never refused.  A client that connects between the termination and the
\* drop is a disturbance.
RepairsSucceed ==
    \A s \in Slot : quiet[s] /\ script[s] \in {"drop", "create", "reset", "fresh"} => Works(s)

\* The record of migrations tells whether the tables are there, however two
\* scripts overlap or fail.  Resetting the schemas apart from the record, or
\* emptying the record, is what breaks it.
RecordTellsTruth == ~skewed => (data.record # {} <=> "app" \in data.tables)

\* What the registry says was synced is what is installed, for transactional
\* assets always; for the others unless a sync stopped between its two steps,
\* or another sync or a reset came in between, or the table under it was dropped.
RegistryTellsTruth ==
    \A a \in Asset :
        /\ data.registry[a] # 0
        /\ a \notin suspect
        /\ a \in InSteps => Registering(a) = {}
        => data.object[a] = data.registry[a]
=============================================================================
