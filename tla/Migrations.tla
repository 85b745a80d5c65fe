------------------------------ MODULE Migrations ------------------------------
(***************************************************************************)
(* The Alembic revisions 0001 to 0009 (migrations/versions) as functions   *)
(* on the database schema, runs of them up and down, each in one           *)
(* transaction (migrations/env.py), and what the statements of the         *)
(* application role and of the owner may do to the rows in between.        *)
(* Revisions are numbered; 0 is the empty database.  Column lists, index   *)
(* methods and statistics targets are names in "extras".                   *)
(***************************************************************************)
EXTENDS Naturals, FiniteSets

CONSTANTS MemIds   \* memories the tenants of the service can write

Head == 9
Tables == {"memories", "memory_audit", "memory_entity_links"}
Dml == {"SELECT", "INSERT", "UPDATE", "DELETE"}

VARIABLES
  version,   \* alembic_version
  db,        \* the committed schema
  mems,      \* rows of memories: id, and whether source_turn_ids is empty
  audits     \* rows of memory_audit: their memory, and whether they were altered

vars == <<version, db, mems, audits>>

Schemas ==
  [extension : BOOLEAN, tables : SUBSET Tables, isolated : SUBSET Tables,
   role : BOOLEAN, usage : BOOLEAN, grants : [Tables -> SUBSET Dml], defaults : SUBSET Dml,
   nonempty : BOOLEAN, triggers : SUBSET Dml,
   extras : SUBSET {"hnsw", "content_tsv", "autovacuum", "statistics"}]

Empty ==
  [extension |-> FALSE, tables |-> {}, isolated |-> {},
   role |-> FALSE, usage |-> FALSE, grants |-> [t \in Tables |-> {}], defaults |-> {},
   nonempty |-> FALSE, triggers |-> {}, extras |-> {}]

TypeOK ==
  /\ version \in 0..Head
  /\ db \in Schemas
  /\ mems \subseteq [id : MemIds, empty : BOOLEAN]
  /\ audits \subseteq [mem : MemIds, altered : BOOLEAN]

-----------------------------------------------------------------------------
(* CREATE TABLE by the owner: default privileges apply.  DROP TABLE takes   *)
(* grants, policies and triggers with it.                                  *)
CreateTable(d, t) == [d EXCEPT !.tables = @ \cup {t}, !.grants[t] = d.defaults]
DropTable(d, t) == [d EXCEPT !.tables = @ \ {t}, !.isolated = @ \ {t}, !.grants[t] = {}]

(* ENABLE and FORCE ROW LEVEL SECURITY and the tenant policy. *)
Isolate(d, T) == [d EXCEPT !.isolated = @ \cup T]

Grant(d, T, p) == [d EXCEPT !.grants = [t \in Tables |-> IF t \in T THEN @[t] \cup p ELSE @[t]]]
Revoke(d, T, p) == [d EXCEPT !.grants = [t \in Tables |-> IF t \in T THEN @[t] \ p ELSE @[t]]]

First == {"memories", "memory_audit"}

Up0001(d) == [d EXCEPT !.extension = TRUE]
Down0001(d) == [d EXCEPT !.extension = FALSE]

Up0002(d) == Isolate(CreateTable(CreateTable(d, "memories"), "memory_audit"), First)
Down0002(d) == DropTable(DropTable(d, "memory_audit"), "memories")

(* Mutant: GRANT ALL. *)
Up0003All(d) ==
  Grant([d EXCEPT !.role = TRUE, !.usage = TRUE, !.defaults = Dml], First, Dml \cup {"TRUNCATE"})

Up0003(d) == Grant([d EXCEPT !.role = TRUE, !.usage = TRUE, !.defaults = Dml], First, Dml)
Down0003(d) == Revoke([d EXCEPT !.role = FALSE, !.usage = FALSE, !.defaults = {}], First, Dml)

Up0004(d) == [d EXCEPT !.extras = @ \cup {"hnsw"}]
Down0004(d) == [d EXCEPT !.extras = @ \ {"hnsw"}]

Up0005(d) == [d EXCEPT !.nonempty = TRUE]
Down0005(d) == [d EXCEPT !.nonempty = FALSE]

(* Mutant: privileges are revoked, and no trigger forbids deletion. *)
Up0006OneTrigger(d) ==
  Revoke([d EXCEPT !.triggers = {"UPDATE"}], {"memory_audit"}, {"UPDATE", "DELETE"})
(* Mutant: the privileges are not given back. *)
Down0006Partial(d) == [d EXCEPT !.triggers = {}]

Up0006(d) ==
  Revoke([d EXCEPT !.triggers = {"UPDATE", "DELETE"}], {"memory_audit"}, {"UPDATE", "DELETE"})
Down0006(d) == Grant([d EXCEPT !.triggers = {}], {"memory_audit"}, {"UPDATE", "DELETE"})

(* Mutant: the new table gets no row level security. *)
Up0007Open(d) == CreateTable([d EXCEPT !.extras = @ \cup {"content_tsv"}], "memory_entity_links")

Up0007(d) ==
  Isolate(CreateTable([d EXCEPT !.extras = @ \cup {"content_tsv"}], "memory_entity_links"),
          {"memory_entity_links"})
Down0007(d) == DropTable([d EXCEPT !.extras = @ \ {"content_tsv"}], "memory_entity_links")

Up0008(d) == [d EXCEPT !.extras = @ \cup {"autovacuum"}]
Down0008(d) == [d EXCEPT !.extras = @ \ {"autovacuum"}]

Up0009(d) == [d EXCEPT !.extras = @ \cup {"statistics"}]
Down0009(d) == [d EXCEPT !.extras = @ \ {"statistics"}]

Up(v, d) ==
  CASE v = 1 -> Up0001(d) [] v = 2 -> Up0002(d) [] v = 3 -> Up0003(d)
    [] v = 4 -> Up0004(d) [] v = 5 -> Up0005(d) [] v = 6 -> Up0006(d)
    [] v = 7 -> Up0007(d) [] v = 8 -> Up0008(d) [] v = 9 -> Up0009(d)

Down(v, d) ==
  CASE v = 1 -> Down0001(d) [] v = 2 -> Down0002(d) [] v = 3 -> Down0003(d)
    [] v = 4 -> Down0004(d) [] v = 5 -> Down0005(d) [] v = 6 -> Down0006(d)
    [] v = 7 -> Down0007(d) [] v = 8 -> Down0008(d) [] v = 9 -> Down0009(d)

(* The schema after the upgrades, or the downgrades, between two revisions. *)
Upgraded(d, from, to) ==
  LET after[v \in from..to] == IF v = from THEN d ELSE Up(v, after[v - 1])
  IN  after[to]

Downgraded(d, from, to) ==
  LET after[n \in 0..(from - to)] == IF n = 0 THEN d ELSE Down(from + 1 - n, after[n - 1])
  IN  after[from - to]

-----------------------------------------------------------------------------
Init == version = 0 /\ db = Empty /\ mems = {} /\ audits = {}

(* Mutant: 0005 adds its constraint NOT VALID. *)
UpgradeUnchecked ==
  \E target \in (version + 1)..Head :
    /\ version' = target
    /\ db' = Upgraded(db, version, target)
    /\ UNCHANGED <<mems, audits>>

(* alembic upgrade: the revisions up to a target in one transaction.  The   *)
(* constraint of 0005 is checked against the rows: if it fails, all of the *)
(* run is rolled back.                                                     *)
Upgrade ==
  \E target \in (version + 1)..Head :
    /\ version < 5 /\ target >= 5 => \A m \in mems : ~ m.empty
    /\ version' = target
    /\ db' = Upgraded(db, version, target)
    /\ UNCHANGED <<mems, audits>>

(* alembic downgrade: dropping the tables drops their rows. *)
Downgrade ==
  \E target \in 0..(version - 1) :
    /\ version' = target
    /\ db' = Downgraded(db, version, target)
    /\ IF target < 2 THEN mems' = {} /\ audits' = {} ELSE UNCHANGED <<mems, audits>>

(* What the application role may do to the rows of a table. *)
Allowed(op, t) == db.role /\ db.usage /\ t \in db.tables /\ op \in db.grants[t]

(* A memory and its admit event, as store_memory and any older release     *)
(* write them.                                                             *)
InsertMemory(m, empty) ==
  /\ Allowed("INSERT", "memories") /\ Allowed("INSERT", "memory_audit")
  /\ \A n \in mems : n.id # m
  /\ db.nonempty => ~ empty
  /\ mems' = mems \cup {[id |-> m, empty |-> empty]}
  /\ audits' = audits \cup {[mem |-> m, altered |-> FALSE]}
  /\ UNCHANGED <<version, db>>

StoreMemory == \E m \in MemIds, empty \in BOOLEAN : InsertMemory(m, empty)

(* DELETE FROM memories; the foreign key of memory_audit does not cascade. *)
DeleteMemory ==
  /\ Allowed("DELETE", "memories")
  /\ \E m \in mems : /\ \A a \in audits : a.mem # m.id
                     /\ mems' = mems \ {m}
  /\ UNCHANGED <<version, db, audits>>

(* UPDATE or DELETE of an audit row: by the application role if granted,    *)
(* which could set app.bypass_audit_immutability for its session, or by    *)
(* the owner, who needs no grant, without that setting.                    *)
MayAlterAudit(op) ==
  \/ Allowed(op, "memory_audit")
  \/ "memory_audit" \in db.tables /\ op \notin db.triggers

AlterAudit ==
  /\ \E a \in audits :
       \/ /\ MayAlterAudit("UPDATE")
          /\ audits' = (audits \ {a}) \cup {[a EXCEPT !.altered = TRUE]}
       \/ MayAlterAudit("DELETE") /\ audits' = audits \ {a}
  /\ UNCHANGED <<version, db, mems>>

Migrate == Upgrade \/ Downgrade
Traffic == StoreMemory \/ DeleteMemory \/ AlterAudit

Next == Migrate \/ Traffic

Spec == Init /\ [][Next]_vars

-----------------------------------------------------------------------------
(* Properties *)

(* Upgrades and downgrades in any order lead to the schema of a database   *)
(* that went straight to this revision: each downgrade undoes its upgrade, *)
(* privileges and default privileges included.                             *)
SchemaFollowsVersion == db = Upgraded(Empty, 0, version)

(* At every committed revision, the application role reaches only tables   *)
(* with row level security; default privileges, which open each new table  *)
(* to it, never make one visible without.                                  *)
ReachableTablesAreIsolated ==
  \A t \in Tables : db.grants[t] # {} => db.role /\ t \in db.isolated

(* From revision 0006 on, audit rows of the service's tenants are never    *)
(* changed and never deleted, as long as the schema stays there: the       *)
(* revoked privileges stop the application role, the triggers stop UPDATE  *)
(* and DELETE by the owner; and a memory that has an event cannot be       *)
(* deleted.  TRUNCATE by the owner, which fires no row trigger, is not in  *)
(* the model.                                                              *)
HistoryIsAppendOnly ==
  [][version >= 6 /\ version' >= 6 =>
       \A a \in audits : a.mem \in MemIds =>
         /\ a \in audits'
         /\ {m \in mems : m.id = a.mem} \subseteq mems']_vars

(* From revision 0005 on every memory has provenance, whatever was written *)
(* at earlier revisions the database has been at.                          *)
ProvenanceFrom0005 == version >= 5 => \A m \in mems : ~ m.empty
=============================================================================
