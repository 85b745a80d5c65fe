----------------------------- MODULE MemoryStore -----------------------------
(***************************************************************************)
(* The tables memories, memory_audit and memory_entity_links, statement by *)
(* statement: store_memory (app/retrieval/vector.py) and record_audit_event*)
(* (app/audit/log.py) as writers, get_audit_trail and search_graph         *)
(* (app/retrieval/graph_links.py) as readers.  Every connection opens one  *)
(* transaction with the tenant in a transaction-local setting; row level   *)
(* security filters reads and checks inserts against that setting, the     *)
(* user is filtered by the statements, where they do.  The isolation level *)
(* is READ COMMITTED: each statement of a reader sees the rows committed   *)
(* when it starts.                                                         *)
(***************************************************************************)
EXTENDS Naturals, Sequences, FiniteSets

CONSTANTS
  Writers,      \* sessions that write
  Readers,      \* sessions that read
  Owners,       \* <<tenant, user>> pairs that authenticate
  Entities,     \* names as they are spelled: numbers, in ORDER BY order
  Fold,         \* casefold: spellings of one name have one fold
  Stored,       \* texts that are stored: the names in them, in order
  Asked,        \* texts of queries
  MemIds,       \* memory ids, in ORDER BY order; each is drawn once
  AnchorLimit,  \* ANCHOR_MEMORY_LIMIT
  BridgeLimit,  \* BRIDGE_ENTITY_LIMIT
  HitLimit      \* limit of the search

ASSUME DomainAssumption == /\ Entities \subseteq Nat /\ MemIds \subseteq Nat \ {0}
                           /\ IsFiniteSet(Entities) /\ IsFiniteSet(MemIds)
                           /\ Stored \cup Asked \subseteq Seq(Entities)
                           /\ Entities \subseteq DOMAIN Fold
ASSUME LimitAssumption == {AnchorLimit, BridgeLimit, HitLimit} \subseteq Nat \ {0}

VARIABLES
  mems, audits, links,   \* committed rows
  tx,                    \* per writer: its open transaction
  rd,                    \* per reader: its request, progress and reply
  drawn                  \* ids gen_random_uuid has given out

vars == <<mems, audits, links, tx, rd, drawn>>

Tenant(o) == o[1]
User(o) == o[2]
NoMem == 0

ASSUME OwnerAssumption == Owners # {} /\ \A o \in Owners : o = <<Tenant(o), User(o)>>

(* extract_entities: of the spellings of a name, the first in the text. *)
ExtractEntities(text) ==
  {text[i] : i \in {k \in DOMAIN text : \A n \in 1..(k - 1) : Fold[text[n]] # Fold[text[k]]}}

Contents == {ExtractEntities(text) : text \in Stored}
Queries == {ExtractEntities(text) : text \in Asked}

MemRows == [id : MemIds, owner : Owners, ents : Contents]
AuditRows == [tenant : {Tenant(o) : o \in Owners}, mem : MemIds \cup {NoMem},
              event : {"admit", "reject"}]
LinkRows == [owner : Owners, mem : MemIds, entity : Entities]

TxPhases == {"idle", "begun", "inserted", "audited", "rejecting"}
RdPhases == {"idle", "lookup", "trail", "anchors", "bridges", "bridged", "fetch", "replied"}

TypeOK ==
  /\ mems \subseteq MemRows
  /\ audits \subseteq AuditRows
  /\ links \subseteq LinkRows
  /\ drawn \subseteq MemIds
  /\ tx \in [Writers -> [phase : TxPhases, guc : Owners, ents : Contents \cup {{}}, mem : MemIds \cup {NoMem},
                         todo : SUBSET Entities,
                         wm : SUBSET MemRows, wa : SUBSET AuditRows, wl : SUBSET LinkRows]]
  /\ rd \in [Readers -> [phase : RdPhases, owner : Owners, mem : MemIds \cup {NoMem},
                         query : Queries \cup {{}}, before : SUBSET MemIds,
                         anchors : SUBSET MemIds, bridges : SUBSET Entities,
                         ids : SUBSET MemIds, found : BOOLEAN,
                         reply : (SUBSET AuditRows) \cup (SUBSET MemRows)]]

NewTx(phase, o, c) == [phase |-> phase, guc |-> o, ents |-> c, mem |-> NoMem, todo |-> c,
                       wm |-> {}, wa |-> {}, wl |-> {}]
NoTx == NewTx("idle", CHOOSE o \in Owners : TRUE, {})
IdleRd(o) == [phase |-> "idle", owner |-> o, mem |-> NoMem, query |-> {}, before |-> {},
              anchors |-> {}, bridges |-> {}, ids |-> {}, found |-> FALSE, reply |-> {}]

Init ==
  /\ mems = {} /\ audits = {} /\ links = {} /\ drawn = {}
  /\ tx = [w \in Writers |-> NoTx]
  /\ rd = [r \in Readers |-> IdleRd(CHOOSE o \in Owners : TRUE)]

(* The tenant policies: a session sees, and may insert, rows of its tenant. *)
OfTenant(t, o) == Tenant(o) = t
VisibleMems(t) == {m \in mems : OfTenant(t, m.owner)}
VisibleAudits(t) == {a \in audits : a.tenant = t}
VisibleLinks(t) == {l \in links : OfTenant(t, l.owner)}

(* ORDER BY ... LIMIT n over numbers. *)
FirstN(S, n) == {x \in S : Cardinality({y \in S : y < x}) < n}

-----------------------------------------------------------------------------
(* Writers *)

(* get_tenant_connection: connect, set the tenant for this transaction. *)
BeginStore(w) ==
  /\ tx[w].phase = "idle"
  /\ \E o \in Owners, text \in Stored :
       tx' = [tx EXCEPT ![w] = NewTx("begun", o, ExtractEntities(text))]
  /\ UNCHANGED <<mems, audits, links, rd, drawn>>

(* INSERT INTO memories ... RETURNING id *)
InsertMemory(w) ==
  /\ tx[w].phase = "begun"
  /\ \E id \in MemIds \ drawn :
       /\ drawn' = drawn \cup {id}
       /\ tx' = [tx EXCEPT ![w].phase = "inserted", ![w].mem = id,
                   ![w].wm = {[id |-> id, owner |-> tx[w].guc, ents |-> tx[w].ents]}]
  /\ UNCHANGED <<mems, audits, links, rd>>

(* record_audit_event on the connection of the store *)
InsertAdmitEvent(w) ==
  /\ tx[w].phase = "inserted"
  /\ tx' = [tx EXCEPT ![w].phase = "audited",
              ![w].wa = {[tenant |-> Tenant(tx[w].guc), mem |-> tx[w].mem, event |-> "admit"]}]
  /\ UNCHANGED <<mems, audits, links, rd, drawn>>

(* index_entity_links, one statement per entity *)
InsertLink(w) ==
  /\ tx[w].phase = "audited"
  /\ \E e \in tx[w].todo :
       tx' = [tx EXCEPT ![w].todo = @ \ {e},
                ![w].wl = @ \cup {[owner |-> tx[w].guc, mem |-> tx[w].mem, entity |-> e]}]
  /\ UNCHANGED <<mems, audits, links, rd, drawn>>

(* Mutant: an event the table's CHECK does not know. *)
InsertRejectEventAsBlocked(w) ==
  /\ tx[w].phase = "idle"
  /\ \E o \in Owners :
       tx' = [tx EXCEPT ![w] = [NewTx("rejecting", o, {}) EXCEPT
                !.wa = {[tenant |-> Tenant(o), mem |-> NoMem, event |-> "blocked"]}]]
  /\ UNCHANGED <<mems, audits, links, rd, drawn>>

(* record_audit_event on a connection of its own: a reject event *)
InsertRejectEvent(w) ==
  /\ tx[w].phase = "idle"
  /\ \E o \in Owners :
       tx' = [tx EXCEPT ![w] = [NewTx("rejecting", o, {}) EXCEPT
                !.wa = {[tenant |-> Tenant(o), mem |-> NoMem, event |-> "reject"]}]]
  /\ UNCHANGED <<mems, audits, links, rd, drawn>>

(* Leaving the with block normally commits. *)
Commit(w) ==
  /\ \/ tx[w].phase = "audited" /\ tx[w].todo = {}
     \/ tx[w].phase = "rejecting"
  /\ mems' = mems \cup tx[w].wm
  /\ audits' = audits \cup tx[w].wa
  /\ links' = links \cup tx[w].wl
  /\ tx' = [tx EXCEPT ![w] = NoTx]
  /\ UNCHANGED <<rd, drawn>>

(* Mutant: the connection is in autocommit mode, so each statement stays. *)
RollBackNothing(w) ==
  /\ tx[w].phase # "idle"
  /\ mems' = mems \cup tx[w].wm
  /\ audits' = audits \cup tx[w].wa
  /\ links' = links \cup tx[w].wl
  /\ tx' = [tx EXCEPT ![w] = NoTx]
  /\ UNCHANGED <<rd, drawn>>

(* An exception, a killed process or a lost connection rolls back. *)
Rollback(w) ==
  /\ tx[w].phase # "idle"
  /\ tx' = [tx EXCEPT ![w] = NoTx]
  /\ UNCHANGED <<mems, audits, links, rd, drawn>>

-----------------------------------------------------------------------------
(* get_audit_trail: two statements *)

AskTrail(r) ==
  /\ rd[r].phase = "idle"
  /\ \E o \in Owners, id \in MemIds :
       rd' = [rd EXCEPT ![r] = [IdleRd(o) EXCEPT !.phase = "lookup", !.mem = id]]
  /\ UNCHANGED <<mems, audits, links, tx, drawn>>

(* Mutant: the memory is looked up by id alone. *)
LookupMemoryById(r) ==
  /\ rd[r].phase = "lookup"
  /\ LET hit == \E m \in VisibleMems(Tenant(rd[r].owner)) : m.id = rd[r].mem
     IN  rd' = [rd EXCEPT ![r].found = hit, ![r].phase = IF hit THEN "trail" ELSE "replied"]
  /\ UNCHANGED <<mems, audits, links, tx, drawn>>

(* None, a 404, unless a visible memory has this id and this user. *)
LookupMemory(r) ==
  /\ rd[r].phase = "lookup"
  /\ LET hit == \E m \in VisibleMems(Tenant(rd[r].owner)) :
                  m.id = rd[r].mem /\ User(m.owner) = User(rd[r].owner)
     IN  rd' = [rd EXCEPT ![r].found = hit, ![r].phase = IF hit THEN "trail" ELSE "replied"]
  /\ UNCHANGED <<mems, audits, links, tx, drawn>>

ReadTrail(r) ==
  /\ rd[r].phase = "trail"
  /\ rd' = [rd EXCEPT ![r].phase = "replied",
              ![r].reply = {a \in VisibleAudits(Tenant(rd[r].owner)) : a.mem = rd[r].mem}]
  /\ UNCHANGED <<mems, audits, links, tx, drawn>>

-----------------------------------------------------------------------------
(* search_graph: four statements *)

(* Mutant: the user filter is forgotten. *)
OwnLinksOfTenant(o) == VisibleLinks(Tenant(o))

(* The links of the caller: the policy filters the tenant, WHERE the user. *)
OwnLinks(o) == {l \in VisibleLinks(Tenant(o)) : User(l.owner) = User(o)}

(* before is for the properties: what a search starting now should find. *)
AskGraph(r) ==
  /\ rd[r].phase = "idle"
  /\ \E o \in Owners, q \in Queries \ {{}} :
       rd' = [rd EXCEPT ![r] =
                [IdleRd(o) EXCEPT !.phase = "anchors", !.query = q,
                   !.before = {m.id : m \in {n \in mems : n.owner = o /\ n.ents \cap q # {}}}]]
  /\ UNCHANGED <<mems, audits, links, tx, drawn>>

ReadAnchors(r) ==
  /\ rd[r].phase = "anchors"
  /\ LET hits == {l.mem : l \in {k \in OwnLinks(rd[r].owner) : k.entity \in rd[r].query}}
     IN  rd' = [rd EXCEPT ![r].anchors = FirstN(hits, AnchorLimit),
                          ![r].phase = IF hits = {} THEN "replied" ELSE "bridges"]
  /\ UNCHANGED <<mems, audits, links, tx, drawn>>

ReadBridges(r) ==
  /\ rd[r].phase = "bridges"
  /\ rd' = [rd EXCEPT ![r].phase = "bridged",
              ![r].bridges =
                FirstN({l.entity : l \in {k \in OwnLinks(rd[r].owner) : /\ k.mem \in rd[r].anchors
                                                                        /\ k.entity \notin rd[r].query}},
                       BridgeLimit)]
  /\ UNCHANGED <<mems, audits, links, tx, drawn>>

(* Mutant: bridged memories compete with anchors for the places. *)
ReadBridgedUnscored(r) ==
  /\ rd[r].phase = "bridged"
  /\ LET bridged == {l.mem : l \in {k \in OwnLinks(rd[r].owner) : k.entity \in rd[r].bridges}}
     IN  \E ids \in SUBSET (rd[r].anchors \cup bridged) :
           /\ Cardinality(ids) <= HitLimit
           /\ rd' = [rd EXCEPT ![r].phase = "fetch", ![r].ids = ids]
  /\ UNCHANGED <<mems, audits, links, tx, drawn>>

(* Anchors score 2.0 and bridged memories 1.0; the sort is stable and cut  *)
(* to the limit, so bridged memories, which come in no order, fill up what *)
(* the anchors leave.                                                      *)
ReadBridged(r) ==
  /\ rd[r].phase = "bridged"
  /\ LET bridged == {l.mem : l \in {k \in OwnLinks(rd[r].owner) : k.entity \in rd[r].bridges}}
                      \ rd[r].anchors
         kept == FirstN(rd[r].anchors, HitLimit)
     IN  \E fill \in SUBSET bridged :
           /\ Cardinality(kept \cup fill) <= HitLimit
           /\ fill = bridged \/ Cardinality(kept \cup fill) = HitLimit
           /\ rd' = [rd EXCEPT ![r].phase = "fetch", ![r].ids = kept \cup fill]
  /\ UNCHANGED <<mems, audits, links, tx, drawn>>

(* SELECT ... FROM memories WHERE id = ANY(ids): no user filter here. *)
FetchHits(r) ==
  /\ rd[r].phase = "fetch"
  /\ rd' = [rd EXCEPT ![r].phase = "replied", ![r].found = TRUE,
              ![r].reply = {m \in VisibleMems(Tenant(rd[r].owner)) : m.id \in rd[r].ids}]
  /\ UNCHANGED <<mems, audits, links, tx, drawn>>

-----------------------------------------------------------------------------
WriterStep(w) == \/ BeginStore(w)
                 \/ InsertMemory(w)
                 \/ InsertAdmitEvent(w)
                 \/ InsertLink(w)
                 \/ InsertRejectEvent(w)
                 \/ Commit(w)
                 \/ Rollback(w)

ReaderStep(r) == \/ AskTrail(r)
                 \/ LookupMemory(r)
                 \/ ReadTrail(r)
                 \/ AskGraph(r)
                 \/ ReadAnchors(r)
                 \/ ReadBridges(r)
                 \/ ReadBridged(r)
                 \/ FetchHits(r)

Next == \/ \E w \in Writers : WriterStep(w)
        \/ \E r \in Readers : ReaderStep(r)

Spec == Init /\ [][Next]_vars

-----------------------------------------------------------------------------
(* Properties *)

(* A committed memory has its admit event, in its tenant, and one link per *)
(* entity with its own owner; no event or link is there without it.        *)
(* Wherever a writer fails.                                                *)
StoreIsAllOrNothing ==
  /\ \A m \in mems : /\ [tenant |-> Tenant(m.owner), mem |-> m.id, event |-> "admit"] \in audits
                     /\ {l \in links : l.mem = m.id} =
                          {[owner |-> m.owner, mem |-> m.id, entity |-> e] : e \in m.ents}
  /\ \A a \in audits : a.mem # NoMem => \E m \in mems : m.id = a.mem /\ Tenant(m.owner) = a.tenant
  /\ \A l \in links : \E m \in mems : m.id = l.mem

(* GET /v1/memories/{id}/audit: a caller gets the admit event of a memory  *)
(* of its own, complete, or a 404: never an empty trail, never another     *)
(* user's, whatever is committed between the two statements.               *)
TrailIsOwnAndComplete ==
  \A r \in Readers :
    rd[r].phase = "replied" /\ rd[r].mem # NoMem /\ rd[r].found =>
      /\ \E m \in mems : m.id = rd[r].mem /\ m.owner = rd[r].owner
      /\ \E a \in rd[r].reply : a.event = "admit"

(* search_graph fetches by id without a user filter, and yet returns       *)
(* memories of its caller only.                                            *)
GraphStaysWithOwner ==
  \A r \in Readers :
    rd[r].phase = "replied" /\ rd[r].query # {} => \A m \in rd[r].reply : m.owner = rd[r].owner

(* What was committed when the search began and shares an entity with the  *)
(* query is found, if no limit cut the anchors; and a bridged memory is    *)
(* returned only when every anchor is.                                     *)
GraphFindsAnchors ==
  \A r \in Readers :
    rd[r].phase = "replied" /\ rd[r].query # {} =>
      LET ids == {m.id : m \in rd[r].reply}
      IN  /\ Cardinality(rd[r].anchors) < AnchorLimit /\ Cardinality(rd[r].anchors) <= HitLimit
               => rd[r].before \subseteq ids
          /\ ids \subseteq rd[r].anchors \/ rd[r].anchors \subseteq ids
=============================================================================
