----------------------------- MODULE Migrations -----------------------------
(***************************************************************************)
(* The schema's migrations as starting processes apply them: the files of    *)
(* src and of the overlay, sorted by name, those not recorded when the start *)
(* began, each with its record in one transaction.  A process may die        *)
(* between two of them, or start while another does.                         *)
(***************************************************************************)
EXTENDS Integers, Sequences, FiniteSets

CONSTANTS
  Starters,  \* processes on one database
  Names,     \* names of migrations: timestamps, so numbers
  Shipped,   \* those of the first release
  MaxAdded   \* bound: files that are added

ASSUME MigrationsAssumption ==
  Names \subseteq Nat /\ IsFiniteSet(Names) /\ Shipped \subseteq Names /\ MaxAdded \in Nat

VARIABLES
  source,    \* the files: <<root, name>>
  recorded,  \* table _migrations
  schema,    \* the migrations whose statements took effect, in order
  stage,     \* of each process: "off", "migrating", "up", "failed"
  todo,      \* what it has yet to go through
  added      \* count for MaxAdded

migrationVars == <<source, recorded, schema, stage, todo, added>>

MigrationRoots == {"src", ".hyper"}

MigrationsInit ==
  /\ source = {"src"} \X Shipped /\ recorded = {} /\ schema = <<>>
  /\ stage = [p \in Starters |-> "off"] /\ todo = [p \in Starters |-> {}] /\ added = 0

\* A release or an agent adds one.
Adds(root, name) ==
  /\ added < MaxAdded /\ added' = added + 1
  /\ source' = source \cup {<<root, name>>}
  /\ UNCHANGED <<recorded, schema, stage, todo>>

\* migrate() up to its first transaction.  A name that both roots have is there twice.
Starts(p) ==
  /\ stage[p] = "off"
  /\ stage' = [stage EXCEPT ![p] = "migrating"]
  /\ todo' = [todo EXCEPT ![p] = {f \in source : f[2] \notin recorded}]
  /\ UNCHANGED <<source, recorded, schema, added>>

\* Mutant of Recorded: the record is written when the whole start has gone through.
RecordedLater(name, p) == IF Cardinality(todo[p]) = 1 THEN recorded \cup {name} ELSE recorded

\* The insert of the same transaction.
Recorded(name, p) == recorded \cup {name}

Fails(p) ==
  /\ stage' = [stage EXCEPT ![p] = "failed"] /\ todo' = [todo EXCEPT ![p] = {}]
  /\ UNCHANGED <<source, recorded, schema, added>>

\* The statements and their record, or neither: the table has one row per name.
Applies(p) ==
  /\ stage[p] = "migrating"
  /\ \E f \in todo[p] :
       /\ \A g \in todo[p] : f[2] <= g[2]
       /\ IF f[2] \in recorded THEN Fails(p)
          ELSE /\ recorded' = Recorded(f[2], p) /\ schema' = Append(schema, f[2])
               /\ todo' = [todo EXCEPT ![p] = @ \ {f}]
               /\ UNCHANGED <<source, stage, added>>

\* A statement fails, or the database is busy with another process.
Rejected(p) == stage[p] = "migrating" /\ todo[p] # {} /\ Fails(p)

Migrated(p) ==
  /\ stage[p] = "migrating" /\ todo[p] = {}
  /\ stage' = [stage EXCEPT ![p] = "up"]
  /\ UNCHANGED <<source, recorded, schema, todo, added>>

\* It exits or dies; what it has not committed is gone.
Ends(p) ==
  /\ stage[p] # "off"
  /\ stage' = [stage EXCEPT ![p] = "off"] /\ todo' = [todo EXCEPT ![p] = {}]
  /\ UNCHANGED <<source, recorded, schema, added>>

MigrationsNext ==
  \/ \E root \in MigrationRoots, name \in Names : Adds(root, name)
  \/ \E p \in Starters : Starts(p) \/ Applies(p) \/ Rejected(p) \/ Migrated(p) \/ Ends(p)

-----------------------------------------------------------------------------
MigrationsTypeOK ==
  /\ source \subseteq MigrationRoots \X Names /\ recorded \subseteq Names
  /\ schema \in Seq(Names)
  /\ stage \in [Starters -> {"off", "migrating", "up", "failed"}]
  /\ todo \in [Starters -> SUBSET (MigrationRoots \X Names)]

\* No migration runs twice and each one that ran is recorded, wherever a process died and
\* whatever other process started in between.
EachOnce ==
  /\ \A i, j \in DOMAIN schema : schema[i] = schema[j] => i = j
  /\ recorded = {schema[i] : i \in DOMAIN schema}
=============================================================================
