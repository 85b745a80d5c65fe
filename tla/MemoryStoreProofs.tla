-------------------------- MODULE MemoryStoreProofs --------------------------
(***************************************************************************)
(* Theorems about MemoryStore for any number of writers and readers, any   *)
(* owners, names, texts and limits.                                        *)
(***************************************************************************)
EXTENDS MemoryStore, FiniteSetTheorems, WellFoundedInduction, TLAPS

TxRecs == [phase : TxPhases, guc : Owners, ents : Contents \cup {{}}, mem : MemIds \cup {NoMem},
           todo : SUBSET Entities,
           wm : SUBSET MemRows, wa : SUBSET AuditRows, wl : SUBSET LinkRows]

RdRecs == [phase : RdPhases, owner : Owners, mem : MemIds \cup {NoMem},
           query : Queries \cup {{}}, before : SUBSET MemIds,
           anchors : SUBSET MemIds, bridges : SUBSET Entities,
           ids : SUBSET MemIds, found : BOOLEAN,
           reply : (SUBSET AuditRows) \cup (SUBSET MemRows)]

LEMMA ContentsAreNames == \A c \in Contents : c \subseteq Entities
  BY DomainAssumption DEF Contents, ExtractEntities

LEMMA ReadersTyped == TypeOK <=> /\ mems \subseteq MemRows /\ audits \subseteq AuditRows
                                 /\ links \subseteq LinkRows /\ drawn \subseteq MemIds
                                 /\ tx \in [Writers -> TxRecs] /\ rd \in [Readers -> RdRecs]
  BY DEF TypeOK, TxRecs, RdRecs

LEMMA NewTxType ==
  ASSUME NEW phase \in TxPhases, NEW o \in Owners, NEW c \in Contents \cup {{}}
  PROVE  NewTx(phase, o, c) \in TxRecs
  BY ContentsAreNames DEF NewTx, TxRecs

LEMMA NoTxType == NoTx \in TxRecs
  BY NewTxType, OwnerAssumption DEF NoTx, TxPhases

-----------------------------------------------------------------------------
(* Ids are drawn once: no two memories share one, and what a writer is     *)
(* storing is not there yet.                                               *)
Storing(w) == tx[w].phase \in {"inserted", "audited"}

IdInv ==
  /\ \A m \in mems : m.id \in drawn
  /\ \A m, n \in mems : m.id = n.id => m = n
  /\ \A w \in Writers : Storing(w) =>
       /\ tx[w].mem \in drawn
       /\ \A m \in mems : m.id # tx[w].mem
  /\ \A v, w \in Writers : Storing(v) /\ Storing(w) /\ tx[v].mem = tx[w].mem => v = w

AdmitRow(o, id) == [tenant |-> Tenant(o), mem |-> id, event |-> "admit"]
LinksOf(o, id, E) == {[owner |-> o, mem |-> id, entity |-> e] : e \in E}

(* What an open transaction t has written so far. *)
GoodTx(t) ==
  /\ t.phase \in {"idle", "begun"} => t.wm = {} /\ t.wa = {} /\ t.wl = {}
  /\ t.phase = "begun" => t.ents \in Contents /\ t.todo = t.ents
  /\ t.phase = "rejecting" =>
       /\ t.wm = {} /\ t.wl = {}
       /\ t.wa = {[tenant |-> Tenant(t.guc), mem |-> NoMem, event |-> "reject"]}
  /\ t.phase \in {"inserted", "audited"} =>
       /\ t.mem \in MemIds /\ t.ents \in Contents /\ t.todo \subseteq t.ents
       /\ t.wm = {[id |-> t.mem, owner |-> t.guc, ents |-> t.ents]}
  /\ t.phase = "inserted" => t.todo = t.ents /\ t.wa = {} /\ t.wl = {}
  /\ t.phase = "audited" =>
       /\ t.wa = {AdmitRow(t.guc, t.mem)}
       /\ t.wl = LinksOf(t.guc, t.mem, t.ents \ t.todo)

TxInv == \A w \in Writers : GoodTx(tx[w])

(* A memory of o with this id is committed. *)
Owned(o, id) == \E m \in mems : m.id = id /\ m.owner = o

(* What a reader q knows of an audit trail between its two statements. *)
GoodTrail(q) ==
  /\ q.phase \in {"lookup", "trail"} => q.mem # NoMem /\ q.query = {}
  /\ q.phase = "trail" => q.found
  /\ q.phase \in {"trail", "replied"} /\ q.mem # NoMem /\ q.found => Owned(q.owner, q.mem)
  /\ q.phase = "replied" /\ q.mem # NoMem /\ q.found => \E a \in q.reply : a.event = "admit"

(* What it knows of a graph search between its four. *)
Searching(q) == \/ q.phase \in {"anchors", "bridges", "bridged", "fetch"}
                \/ q.phase = "replied" /\ q.query # {}

GoodSearch(q) ==
  Searching(q) =>
    /\ q.query # {} /\ q.mem = NoMem
    /\ q.phase = "anchors" => q.anchors = {} /\ q.ids = {} /\ q.reply = {}
    /\ \A id \in q.before : \E m \in mems : m.id = id /\ m.owner = q.owner /\ m.ents \cap q.query # {}
    /\ \A id \in q.anchors \cup q.ids : Owned(q.owner, id)
    /\ q.phase # "anchors" /\ Cardinality(q.anchors) < AnchorLimit => q.before \subseteq q.anchors
    /\ q.phase \in {"fetch", "replied"} =>
         /\ Cardinality(q.anchors) <= HitLimit => q.anchors \subseteq q.ids
         /\ q.ids \subseteq q.anchors \/ q.anchors \subseteq q.ids
    /\ q.phase = "replied" => q.reply \subseteq mems /\ {m.id : m \in q.reply} = q.ids

ReadInv == \A r \in Readers : GoodTrail(rd[r]) /\ GoodSearch(rd[r])

WriteInv == TypeOK /\ IdInv /\ TxInv /\ StoreIsAllOrNothing

(* A step of writer w that commits nothing leaves its transaction as t. *)
LEMMA OpenTransaction ==
  ASSUME WriteInv, NEW w \in Writers, NEW t \in TxRecs, GoodTx(t),
         tx' = [tx EXCEPT ![w] = t], UNCHANGED <<mems, audits, links, rd>>,
         drawn' \in SUBSET MemIds, drawn \subseteq drawn',
         t.phase \in {"inserted", "audited"} =>
            \/ tx[w].phase \in {"inserted", "audited"} /\ t.mem = tx[w].mem
            \/ t.mem \in drawn' \ drawn
  PROVE  WriteInv'
<1>1. TypeOK'
  BY ReadersTyped DEF WriteInv, TypeOK, TxRecs, RdRecs
<1>2. /\ tx'[w] = t
      /\ \A v \in Writers : v # w => tx'[v] = tx[v]
  BY ReadersTyped DEF WriteInv
<1>3. IdInv'
  BY <1>2 DEF WriteInv, IdInv, Storing
<1>4. StoreIsAllOrNothing'
  BY DEF WriteInv, StoreIsAllOrNothing
<1>5. TxInv'
  <2>1. \A v \in Writers : GoodTx(tx'[v])
    BY <1>2 DEF WriteInv, TxInv
  <2> QED  BY <2>1 DEF TxInv, GoodTx, AdmitRow, LinksOf
<1> QED  BY <1>1, <1>3, <1>4, <1>5 DEF WriteInv

LEMMA NewTxIsGood ==
  ASSUME NEW o \in Owners, NEW c \in Contents
  PROVE  NewTx("begun", o, c) \in TxRecs /\ GoodTx(NewTx("begun", o, c))
  BY NewTxType DEF TxPhases, NewTx, GoodTx

LEMMA NoTxIsGood == NoTx \in TxRecs /\ GoodTx(NoTx) /\ NoTx.phase = "idle"
  BY NoTxType DEF NoTx, NewTx, GoodTx

LEMMA OpenStep ==
  ASSUME WriteInv, NEW w \in Writers,
         \/ BeginStore(w) \/ InsertMemory(w) \/ InsertAdmitEvent(w)
         \/ InsertLink(w) \/ InsertRejectEvent(w) \/ Rollback(w)
  PROVE  WriteInv'
<1> DEFINE o == tx[w].guc
<1>0. tx[w] \in TxRecs /\ GoodTx(tx[w]) /\ o \in Owners /\ drawn \subseteq MemIds
  BY ReadersTyped DEF WriteInv, TxInv, TxRecs
<1>1. CASE BeginStore(w)
  <2>1. PICK p \in Owners, text \in Stored : tx' = [tx EXCEPT ![w] = NewTx("begun", p, ExtractEntities(text))]
    BY <1>1 DEF BeginStore
  <2>2. ExtractEntities(text) \in Contents
    BY DEF Contents
  <2>3. NewTx("begun", p, ExtractEntities(text)).phase = "begun"
    BY DEF NewTx
  <2> QED  BY <1>0, <1>1, <2>1, <2>2, <2>3, NewTxIsGood, OpenTransaction DEF BeginStore
<1>2. CASE InsertMemory(w)
  <2>1. PICK id \in MemIds \ drawn :
          /\ drawn' = drawn \cup {id}
          /\ tx' = [tx EXCEPT ![w].phase = "inserted", ![w].mem = id,
                   ![w].wm = {[id |-> id, owner |-> tx[w].guc, ents |-> tx[w].ents]}]
    BY <1>2 DEF InsertMemory
  <2> DEFINE t == [tx[w] EXCEPT !.phase = "inserted", !.mem = id,
                    !.wm = {[id |-> id, owner |-> tx[w].guc, ents |-> tx[w].ents]}]
  <2>2. tx' = [tx EXCEPT ![w] = t]
    BY <2>1
  <2>3. t \in TxRecs
    <3>1. {[id |-> id, owner |-> o, ents |-> tx[w].ents]} \in SUBSET MemRows
      <4>1. tx[w].ents \in Contents /\ id \in MemIds
        BY <1>0, <1>2, <2>1 DEF InsertMemory, GoodTx
      <4> QED  BY <1>0, <4>1 DEF MemRows
    <3> QED  BY <1>0, <3>1 DEF TxRecs, TxPhases
  <2>4. GoodTx(t) /\ t.mem = id
    BY <1>0, <1>2, ContentsAreNames DEF InsertMemory, TxRecs, GoodTx
  <2> HIDE DEF t
  <2> QED  BY <1>0, <1>2, <2>1, <2>2, <2>3, <2>4, OpenTransaction DEF InsertMemory
<1>3. CASE InsertAdmitEvent(w)
  <2> DEFINE t == [tx[w] EXCEPT !.phase = "audited",
                     !.wa = {[tenant |-> Tenant(o), mem |-> tx[w].mem, event |-> "admit"]}]
  <2>2. tx' = [tx EXCEPT ![w] = t]
    BY <1>3 DEF InsertAdmitEvent
  <2>3. t \in TxRecs
    <3>1. {[tenant |-> Tenant(o), mem |-> tx[w].mem, event |-> "admit"]} \in SUBSET AuditRows
      BY <1>0, <1>3 DEF InsertAdmitEvent, GoodTx, AuditRows
    <3> QED  BY <1>0, <3>1 DEF TxRecs, TxPhases
  <2>4. GoodTx(t) /\ t.mem = tx[w].mem
    BY <1>0, <1>3 DEF InsertAdmitEvent, TxRecs, GoodTx, AdmitRow, LinksOf
  <2> HIDE DEF t
  <2> QED  BY <1>0, <1>3, <2>2, <2>3, <2>4, OpenTransaction DEF InsertAdmitEvent
<1>4. CASE InsertLink(w)
  <2>1. PICK e \in tx[w].todo :
          tx' = [tx EXCEPT ![w].todo = @ \ {e},
                ![w].wl = @ \cup {[owner |-> tx[w].guc, mem |-> tx[w].mem, entity |-> e]}]
    BY <1>4 DEF InsertLink
  <2> DEFINE t == [tx[w] EXCEPT !.todo = @ \ {e},
                     !.wl = @ \cup {[owner |-> o, mem |-> tx[w].mem, entity |-> e]}]
  <2>2. tx' = [tx EXCEPT ![w] = t]
    BY <2>1
  <2>3. t \in TxRecs
    <3>1. tx[w].wl \cup {[owner |-> o, mem |-> tx[w].mem, entity |-> e]} \in SUBSET LinkRows
      BY <1>0, <1>4 DEF InsertLink, TxRecs, GoodTx, LinkRows
    <3>2. tx[w].todo \ {e} \in SUBSET Entities
      BY <1>0 DEF TxRecs
    <3> QED  BY <1>0, <3>1, <3>2 DEF TxRecs
  <2>4. GoodTx(t) /\ t.mem = tx[w].mem
    BY <1>0, <1>4 DEF InsertLink, TxRecs, GoodTx, AdmitRow, LinksOf
  <2> HIDE DEF t
  <2> QED  BY <1>0, <1>4, <2>2, <2>3, <2>4, OpenTransaction DEF InsertLink
<1>5. CASE InsertRejectEvent(w)
  <2>1. PICK p \in Owners :
          tx' = [tx EXCEPT ![w] = [NewTx("rejecting", p, {}) EXCEPT
                !.wa = {[tenant |-> Tenant(p), mem |-> NoMem, event |-> "reject"]}]]
    BY <1>5 DEF InsertRejectEvent
  <2> DEFINE t == [NewTx("rejecting", p, {}) EXCEPT
                !.wa = {[tenant |-> Tenant(p), mem |-> NoMem, event |-> "reject"]}]
  <2>3. t \in TxRecs /\ GoodTx(t) /\ t.phase = "rejecting"
    <3>1. NewTx("rejecting", p, {}) \in TxRecs
      BY NewTxType DEF TxPhases
    <3> QED  BY <3>1 DEF TxRecs, NewTx, GoodTx, AuditRows
  <2>4. tx' = [tx EXCEPT ![w] = t]
    BY <2>1
  <2> HIDE DEF t
  <2> QED  BY <1>0, <1>5, <2>3, <2>4, OpenTransaction DEF InsertRejectEvent
<1>6. CASE Rollback(w)
  BY <1>0, <1>6, NoTxIsGood, OpenTransaction DEF Rollback
<1> QED  BY <1>1, <1>2, <1>3, <1>4, <1>5, <1>6

(* A memory, its event and its links appear together, under a new id. *)
LEMMA CommitMemory ==
  ASSUME WriteInv, NEW w \in Writers, Commit(w), tx[w].phase = "audited"
  PROVE  /\ mems' \subseteq MemRows /\ audits' \subseteq AuditRows /\ links' \subseteq LinkRows
         /\ StoreIsAllOrNothing' /\ IdInv'
<1> DEFINE o == tx[w].guc
           id == tx[w].mem
           ents == tx[w].ents
           M == [id |-> id, owner |-> o, ents |-> ents]
           A == AdmitRow(o, id)
           L == LinksOf(o, id, ents)
<1>0. /\ tx[w] \in TxRecs /\ GoodTx(tx[w])
      /\ o \in Owners /\ id \in MemIds /\ id # NoMem /\ ents \in Contents
  <2>1. tx[w] \in TxRecs /\ GoodTx(tx[w]) /\ o \in Owners
    BY ReadersTyped DEF WriteInv, TxInv, TxRecs
  <2>2. id \in MemIds /\ ents \in Contents
    BY <2>1 DEF GoodTx
  <2> QED  BY <2>1, <2>2, DomainAssumption DEF NoMem
<1>1. mems' = mems \cup {M} /\ audits' = audits \cup {A} /\ links' = links \cup L
  BY <1>0 DEF Commit, GoodTx
<1>2. M \in MemRows /\ A \in AuditRows /\ L \subseteq LinkRows
  BY <1>0, ContentsAreNames DEF MemRows, AuditRows, LinkRows, AdmitRow, LinksOf
<1>3. id \in drawn /\ \A m \in mems : m.id \in drawn /\ m.id # id
  BY DEF WriteInv, IdInv, Storing
<1>4. /\ \A m \in mems : AdmitRow(m.owner, m.id) \in audits /\ {l \in links : l.mem = m.id} = LinksOf(m.owner, m.id, m.ents)
      /\ \A a \in audits : a.mem # NoMem => \E m \in mems : m.id = a.mem /\ Tenant(m.owner) = a.tenant
      /\ \A l \in links : \E m \in mems : m.id = l.mem
  BY DEF WriteInv, StoreIsAllOrNothing, AdmitRow, LinksOf
<1>5. M.id = id /\ M.owner = o /\ M.ents = ents /\ A.mem = id /\ A.tenant = Tenant(o) /\ \A l \in L : l.mem = id
  BY DEF AdmitRow, LinksOf
<1> HIDE DEF o, id, ents, M, A, L
<1>6. \A m \in mems' : AdmitRow(m.owner, m.id) \in audits'
  BY <1>1, <1>4, <1>5 DEF A
<1>7. \A m \in mems' : {l \in links' : l.mem = m.id} = LinksOf(m.owner, m.id, m.ents)
  <2>1. CASE \A l \in links : l.mem # id
    BY <1>1, <1>3, <1>4, <1>5, <2>1 DEF L
  <2> QED  BY <1>3, <1>4, <2>1
<1>8. /\ \A a \in audits' : a.mem # NoMem => \E m \in mems' : m.id = a.mem /\ Tenant(m.owner) = a.tenant
      /\ \A l \in links' : \E m \in mems' : m.id = l.mem
  BY <1>1, <1>4, <1>5
<1>9. StoreIsAllOrNothing'
  BY <1>6, <1>7, <1>8 DEF StoreIsAllOrNothing, AdmitRow, LinksOf
<1>10. IdInv'
  <2>1. /\ drawn' = drawn /\ tx' = [tx EXCEPT ![w] = NoTx] /\ tx \in [Writers -> TxRecs]
    BY ReadersTyped DEF Commit, WriteInv
  <2>2. \A v \in Writers : Storing(v)' => v # w /\ Storing(v) /\ tx'[v] = tx[v]
    BY <2>1, NoTxIsGood DEF Storing
  <2>3. \A v \in Writers : Storing(v) /\ v # w => tx[v].mem # id
    BY DEF WriteInv, IdInv, Storing, id
  <2> QED  BY <1>1, <1>3, <1>5, <2>1, <2>2, <2>3 DEF WriteInv, IdInv
<1> QED  BY <1>1, <1>2, <1>9, <1>10, ReadersTyped DEF WriteInv

(* A reject event stands alone. *)
LEMMA CommitReject ==
  ASSUME WriteInv, NEW w \in Writers, Commit(w), tx[w].phase = "rejecting"
  PROVE  /\ mems' \subseteq MemRows /\ audits' \subseteq AuditRows /\ links' \subseteq LinkRows
         /\ StoreIsAllOrNothing' /\ IdInv'
<1> DEFINE A == [tenant |-> Tenant(tx[w].guc), mem |-> NoMem, event |-> "reject"]
<1>0. tx[w] \in TxRecs /\ GoodTx(tx[w]) /\ tx[w].guc \in Owners
  BY ReadersTyped DEF WriteInv, TxInv, TxRecs
<1>1. mems' = mems /\ audits' = audits \cup {A} /\ links' = links
  BY <1>0 DEF Commit, GoodTx
<1>2. A \in AuditRows /\ A.mem = NoMem
  BY <1>0 DEF AuditRows
<1> HIDE DEF A
<1>3. StoreIsAllOrNothing'
  BY <1>1, <1>2 DEF WriteInv, StoreIsAllOrNothing
<1>4. IdInv'
  <2>1. /\ drawn' = drawn /\ tx' = [tx EXCEPT ![w] = NoTx] /\ tx \in [Writers -> TxRecs]
    BY ReadersTyped DEF Commit, WriteInv
  <2>2. \A v \in Writers : Storing(v)' => v # w /\ Storing(v) /\ tx'[v] = tx[v]
    BY <2>1, NoTxIsGood DEF Storing
  <2> QED  BY <1>1, <2>1, <2>2 DEF WriteInv, IdInv
<1> QED  BY <1>1, <1>2, <1>3, <1>4, ReadersTyped DEF WriteInv

LEMMA WriterStepInv ==
  ASSUME WriteInv, NEW w \in Writers, WriterStep(w)
  PROVE  WriteInv'
<1>1. CASE Commit(w)
  <2>1. /\ mems' \subseteq MemRows /\ audits' \subseteq AuditRows /\ links' \subseteq LinkRows
        /\ StoreIsAllOrNothing' /\ IdInv'
    BY <1>1, CommitMemory, CommitReject DEF Commit
  <2>2. tx' = [tx EXCEPT ![w] = NoTx] /\ UNCHANGED <<rd, drawn>>
    BY <1>1 DEF Commit
  <2>3. tx \in [Writers -> TxRecs] /\ rd \in [Readers -> RdRecs] /\ drawn \subseteq MemIds
    BY ReadersTyped DEF WriteInv
  <2>4. TypeOK'
    BY <2>1, <2>2, <2>3, NoTxIsGood DEF TypeOK, TxRecs, RdRecs
  <2>5. \A v \in Writers : GoodTx(tx'[v])
    BY <2>2, <2>3, NoTxIsGood DEF WriteInv, TxInv
  <2>6. TxInv'
    BY <2>5 DEF TxInv, GoodTx, AdmitRow, LinksOf
  <2> QED  BY <2>1, <2>4, <2>6 DEF WriteInv
<1> QED  BY <1>1, OpenStep DEF WriterStep
-----------------------------------------------------------------------------
(* ORDER BY ... LIMIT n takes all rows unless it is full. *)

Below == {p \in Nat \X Nat : p[1] < p[2]}

LEMMA BelowIsWellFounded == IsWellFoundedOn(Below, Nat)
  BY NatLessThanWellFounded, Zenon DEF OpToRel, Below

LEMMA FirstNNotFull ==
  ASSUME NEW S \in SUBSET Nat, IsFiniteSet(S), NEW n \in Nat, Cardinality(FirstN(S, n)) < n
  PROVE  FirstN(S, n) = S
<1> DEFINE F == FirstN(S, n)
           T == S \ F
<1>1. SUFFICES ASSUME T # {} PROVE FALSE
  BY DEF FirstN
<1>2. PICK x \in T : \A y \in T : ~ (<<y, x>> \in Below)
  BY <1>1, BelowIsWellFounded, WFMin
<1> DEFINE B == {y \in S : y < x}
<1>3. B \subseteq F
  <2> SUFFICES ASSUME NEW y \in B, y \notin F PROVE FALSE
    OBVIOUS
  <2>1. y \in T /\ y \in Nat /\ x \in Nat /\ y < x
    OBVIOUS
  <2>2. <<y, x>> \in Below
    BY <2>1 DEF Below
  <2> QED  BY <1>2, <2>1, <2>2
<1>4. IsFiniteSet(F) /\ F \subseteq S
  BY FS_Subset DEF FirstN
<1>5. IsFiniteSet(B) /\ Cardinality(B) <= Cardinality(F) /\ Cardinality(B) \in Nat /\ Cardinality(F) \in Nat
  BY <1>3, <1>4, FS_Subset, FS_CardinalityType
<1>6. ~ (Cardinality(B) < n)
  BY <1>2 DEF FirstN
<1> QED  BY <1>5, <1>6

LEMMA FirstNLarge ==
  ASSUME NEW S \in SUBSET Nat, IsFiniteSet(S), NEW n \in Nat, Cardinality(S) <= n
  PROVE  FirstN(S, n) = S
<1> SUFFICES ASSUME NEW x \in S PROVE Cardinality({y \in S : y < x}) < n
  BY DEF FirstN
<1> DEFINE B == {y \in S : y < x}
<1>1. B \subseteq S \ {x} /\ IsFiniteSet(S \ {x}) /\ Cardinality(S \ {x}) = Cardinality(S) - 1
  BY FS_RemoveElement
<1>2. Cardinality(B) <= Cardinality(S \ {x}) /\ Cardinality(B) \in Nat /\ Cardinality(S) \in Nat
  BY <1>1, FS_Subset, FS_CardinalityType
<1> QED  BY <1>1, <1>2
-----------------------------------------------------------------------------
(* Readers: what they know stays true while others commit. *)

LEMMA CommitsGrow ==
  ASSUME NEW w \in Writers, WriterStep(w)
  PROVE  mems \subseteq mems' /\ rd' = rd
  BY DEF WriterStep, BeginStore, InsertMemory, InsertAdmitEvent, InsertLink, InsertRejectEvent,
     Commit, Rollback

LEMMA WriterKeepsReaders ==
  ASSUME ReadInv, NEW w \in Writers, WriterStep(w)
  PROVE  ReadInv'
<1>1. mems \subseteq mems' /\ rd' = rd
  BY CommitsGrow
<1>2. \A o, id : Owned(o, id) => Owned(o, id)'
  BY <1>1 DEF Owned
<1>3. ASSUME NEW r \in Readers PROVE GoodTrail(rd[r])'
  BY <1>1, <1>2 DEF ReadInv, GoodTrail
<1>4. ASSUME NEW r \in Readers PROVE GoodSearch(rd[r])'
  BY <1>1, <1>2 DEF ReadInv, GoodSearch, Searching
<1> QED  BY <1>3, <1>4 DEF ReadInv

(* A step of reader r leaves its request as q. *)
LEMMA ReaderMoves ==
  ASSUME WriteInv, ReadInv, NEW r \in Readers, NEW q \in RdRecs, GoodTrail(q), GoodSearch(q),
         rd' = [rd EXCEPT ![r] = q], UNCHANGED <<mems, audits, links, tx, drawn>>
  PROVE  WriteInv' /\ ReadInv'
<1>1. TypeOK'
  BY ReadersTyped DEF WriteInv, TypeOK, TxRecs, RdRecs
<1>2. IdInv' /\ TxInv' /\ StoreIsAllOrNothing'
  BY DEF WriteInv, IdInv, Storing, TxInv, GoodTx, AdmitRow, LinksOf, StoreIsAllOrNothing
<1>3. \A x \in Readers : GoodTrail(rd'[x]) /\ GoodSearch(rd'[x])
  BY ReadersTyped DEF WriteInv, ReadInv
<1>4. ReadInv'
  BY <1>3 DEF ReadInv, GoodTrail, GoodSearch, Owned, Searching
<1> QED  BY <1>1, <1>2, <1>4 DEF WriteInv

(* Tenant from the policy and user from the statement are the owner. *)
LEMMA SameOwner ==
  ASSUME NEW o \in Owners, NEW p \in Owners, Tenant(o) = Tenant(p), User(o) = User(p)
  PROVE  o = p
  BY OwnerAssumption

LEMMA OwnLinksAreOwned ==
  ASSUME WriteInv, NEW o \in Owners, NEW l \in OwnLinks(o)
  PROVE  /\ l.owner = o /\ l.mem \in MemIds /\ l.entity \in Entities
         /\ Owned(o, l.mem)
<1>1. l \in links /\ l \in LinkRows /\ Tenant(l.owner) = Tenant(o) /\ User(l.owner) = User(o)
  BY ReadersTyped DEF WriteInv, OwnLinks, VisibleLinks, OfTenant
<1>2. l.owner \in Owners /\ l.mem \in MemIds /\ l.entity \in Entities
  BY <1>1 DEF LinkRows
<1>3. l.owner = o
  BY <1>1, <1>2, SameOwner
<1>4. PICK m \in mems : m.id = l.mem
  BY <1>1 DEF WriteInv, StoreIsAllOrNothing
<1>5. l \in LinksOf(m.owner, m.id, m.ents)
  BY <1>1, <1>4 DEF WriteInv, StoreIsAllOrNothing, LinksOf
<1>6. l.owner = m.owner
  BY <1>5 DEF LinksOf
<1> QED  BY <1>2, <1>3, <1>4, <1>6 DEF Owned

LEMMA EntitiesAreLinked ==
  ASSUME WriteInv, NEW m \in mems, NEW e \in m.ents
  PROVE  \E l \in OwnLinks(m.owner) : l.mem = m.id /\ l.entity = e
<1> DEFINE l == [owner |-> m.owner, mem |-> m.id, entity |-> e]
<1>1. l \in LinksOf(m.owner, m.id, m.ents)
  BY DEF LinksOf
<1>2. l \in links
  BY <1>1 DEF WriteInv, StoreIsAllOrNothing, LinksOf
<1>3. l \in OwnLinks(m.owner)
  BY <1>2 DEF OwnLinks, VisibleLinks, OfTenant
<1> QED  BY <1>3

LEMMA IdleRdIsGood ==
  ASSUME NEW o \in Owners
  PROVE  IdleRd(o) \in RdRecs /\ GoodTrail(IdleRd(o)) /\ GoodSearch(IdleRd(o))
  BY DEF IdleRd, RdRecs, RdPhases, GoodTrail, GoodSearch, Searching

LEMMA TrailStep ==
  ASSUME WriteInv, ReadInv, NEW r \in Readers, AskTrail(r) \/ LookupMemory(r) \/ ReadTrail(r)
  PROVE  WriteInv' /\ ReadInv'
<1> DEFINE o == rd[r].owner
<1>0. rd[r] \in RdRecs /\ GoodTrail(rd[r]) /\ GoodSearch(rd[r]) /\ o \in Owners
  BY ReadersTyped DEF WriteInv, ReadInv, RdRecs
<1>1. CASE AskTrail(r)
  <2>1. PICK p \in Owners, id \in MemIds :
          rd' = [rd EXCEPT ![r] = [IdleRd(p) EXCEPT !.phase = "lookup", !.mem = id]]
    BY <1>1 DEF AskTrail
  <2> DEFINE q == [IdleRd(p) EXCEPT !.phase = "lookup", !.mem = id]
  <2>2. q \in RdRecs
    BY DEF RdRecs, IdleRd, RdPhases
  <2>3. GoodTrail(q) /\ GoodSearch(q)
    BY DomainAssumption DEF IdleRd, GoodTrail, GoodSearch, Searching, NoMem
  <2>4. rd' = [rd EXCEPT ![r] = q]
    BY <2>1
  <2> HIDE DEF q
  <2> QED  BY <1>1, <2>2, <2>3, <2>4, ReaderMoves DEF AskTrail
<1>2. CASE LookupMemory(r)
  <2> DEFINE hit == \E m \in VisibleMems(Tenant(rd[r].owner)) :
                      m.id = rd[r].mem /\ User(m.owner) = User(rd[r].owner)
             q == [rd[r] EXCEPT !.found = hit, !.phase = IF hit THEN "trail" ELSE "replied"]
  <2>1. rd' = [rd EXCEPT ![r] = q]
    BY <1>2 DEF LookupMemory
  <2>2. hit => Owned(o, rd[r].mem)
    <3> SUFFICES ASSUME NEW m \in VisibleMems(Tenant(o)), m.id = rd[r].mem, User(m.owner) = User(o)
                 PROVE  Owned(o, rd[r].mem)
      OBVIOUS
    <3>1. m \in mems /\ m.owner \in Owners /\ Tenant(m.owner) = Tenant(o)
      BY ReadersTyped DEF VisibleMems, OfTenant, WriteInv, MemRows
    <3> QED  BY <1>0, <3>1, SameOwner DEF Owned
  <2>3. hit \in BOOLEAN
    OBVIOUS
  <2> HIDE DEF hit
  <2>4. q \in RdRecs
    BY <1>0, <2>3 DEF RdRecs, RdPhases
  <2>5. GoodTrail(q) /\ GoodSearch(q)
    BY <1>0, <1>2, <2>2, <2>3 DEF LookupMemory, RdRecs, GoodTrail, GoodSearch, Searching
  <2> HIDE DEF q
  <2> QED  BY <1>2, <2>1, <2>4, <2>5, ReaderMoves DEF LookupMemory
<1>3. CASE ReadTrail(r)
  <2> DEFINE rows == {a \in VisibleAudits(Tenant(rd[r].owner)) : a.mem = rd[r].mem}
             q == [rd[r] EXCEPT !.phase = "replied", !.reply = rows]
  <2>1. rd' = [rd EXCEPT ![r] = q]
    BY <1>3 DEF ReadTrail
  <2>2. rows \in SUBSET AuditRows
    BY ReadersTyped DEF WriteInv, VisibleAudits
  <2>3. Owned(o, rd[r].mem) /\ rd[r].query = {} /\ rd[r].mem # NoMem
    BY <1>0, <1>3 DEF ReadTrail, GoodTrail
  <2>4. \E a \in rows : a.event = "admit"
    <3>1. PICK m \in mems : m.id = rd[r].mem /\ m.owner = o
      BY <2>3 DEF Owned
    <3>2. AdmitRow(o, rd[r].mem) \in audits
      BY <3>1 DEF WriteInv, StoreIsAllOrNothing, AdmitRow
    <3> QED  BY <3>2 DEF AdmitRow, VisibleAudits
  <2> HIDE DEF rows
  <2>5. q \in RdRecs
    BY <1>0, <2>2 DEF RdRecs, RdPhases
  <2>6. GoodTrail(q) /\ GoodSearch(q)
    BY <1>0, <2>3, <2>4 DEF RdRecs, GoodTrail, GoodSearch, Searching
  <2> HIDE DEF q
  <2> QED  BY <1>3, <2>1, <2>5, <2>6, ReaderMoves DEF ReadTrail
<1> QED  BY <1>1, <1>2, <1>3

-----------------------------------------------------------------------------
(* The four statements of a graph search. *)

LEMMA IdsAreNumbers ==
  /\ \A S \in SUBSET MemIds : IsFiniteSet(S) /\ S \in SUBSET Nat /\ Cardinality(S) \in Nat
  /\ AnchorLimit \in Nat \ {0} /\ BridgeLimit \in Nat /\ HitLimit \in Nat \ {0}
  BY DomainAssumption, LimitAssumption, FS_Subset, FS_CardinalityType

(* The memories of o that an entity of E links. *)
LinkedMems(o, E) == {l.mem : l \in {k \in OwnLinks(o) : k.entity \in E}}

(* What the first statement finds: memories of the caller, and all of      *)
(* those the search set out for, unless the limit cuts them.               *)
LEMMA AnchorsOf ==
  ASSUME WriteInv, NEW o \in Owners, NEW Q \in Queries \cup {{}}, NEW B \in SUBSET MemIds,
         \A id \in B : \E m \in mems : m.id = id /\ m.owner = o /\ m.ents \cap Q # {}
  PROVE  LET H == LinkedMems(o, Q)
             A == FirstN(H, AnchorLimit)
         IN  /\ H \in SUBSET MemIds /\ A \in SUBSET H
             /\ \A id \in H : Owned(o, id)
             /\ B \subseteq H
             /\ Cardinality(A) < AnchorLimit => B \subseteq A
<1> DEFINE H == LinkedMems(o, Q)
<1>1. H \in SUBSET MemIds /\ \A id \in H : Owned(o, id)
  BY OwnLinksAreOwned DEF LinkedMems
<1>2. B \subseteq H
  <2> SUFFICES ASSUME NEW id \in B PROVE id \in H
    OBVIOUS
  <2>1. PICK m \in mems : m.id = id /\ m.owner = o /\ m.ents \cap Q # {}
    OBVIOUS
  <2>2. PICK e \in m.ents : e \in Q
    BY <2>1
  <2>3. PICK l \in OwnLinks(o) : l.mem = id /\ l.entity = e
    BY <2>1, EntitiesAreLinked
  <2> QED  BY <2>2, <2>3 DEF LinkedMems
<1>3. Cardinality(FirstN(H, AnchorLimit)) < AnchorLimit => FirstN(H, AnchorLimit) = H
  BY <1>1, IdsAreNumbers, FirstNNotFull
<1>4. FirstN(H, AnchorLimit) \in SUBSET H
  BY DEF FirstN
<1> QED  BY <1>1, <1>2, <1>3, <1>4

(* Whoever leaves a place to others has all its rows already.              *)
LEMMA RoomIsLeftOver ==
  ASSUME NEW S \in SUBSET MemIds, NEW F \in SUBSET MemIds, F # {}, F \cap S = {},
         Cardinality(FirstN(S, HitLimit) \cup F) <= HitLimit
  PROVE  FirstN(S, HitLimit) = S
<1> DEFINE K == FirstN(S, HitLimit)
<1>1. PICK x \in F : TRUE
  OBVIOUS
<1>2. K \in SUBSET MemIds /\ K \cup F \in SUBSET MemIds /\ K \subseteq (K \cup F) \ {x}
  BY <1>1 DEF FirstN
<1> HIDE DEF K
<1>3. Cardinality((K \cup F) \ {x}) = Cardinality(K \cup F) - 1 /\ IsFiniteSet((K \cup F) \ {x})
  <2>1. IsFiniteSet(K \cup F) /\ x \in K \cup F
    BY <1>1, <1>2, IdsAreNumbers
  <2> QED  BY ONLY <2>1, FS_RemoveElement
<1>4. Cardinality(K) <= Cardinality((K \cup F) \ {x})
  BY <1>2, <1>3, FS_Subset
<1>5. Cardinality(K) < HitLimit
  BY <1>2, <1>3, <1>4, IdsAreNumbers DEF K
<1> QED  BY <1>5, IdsAreNumbers, FirstNNotFull DEF K

LEMMA SearchStep ==
  ASSUME WriteInv, ReadInv, NEW r \in Readers,
         AskGraph(r) \/ ReadAnchors(r) \/ ReadBridges(r) \/ ReadBridged(r) \/ FetchHits(r)
  PROVE  WriteInv' /\ ReadInv'
<1> DEFINE o == rd[r].owner
<1>0. rd[r] \in RdRecs /\ GoodTrail(rd[r]) /\ GoodSearch(rd[r]) /\ o \in Owners
  BY ReadersTyped DEF WriteInv, ReadInv, RdRecs
<1>1. CASE AskGraph(r)
  <2>1. PICK p \in Owners, Q \in Queries \ {{}} :
          rd' = [rd EXCEPT ![r] =
                [IdleRd(p) EXCEPT !.phase = "anchors", !.query = Q,
                   !.before = {m.id : m \in {n \in mems : n.owner = p /\ n.ents \cap Q # {}}}]]
    BY <1>1 DEF AskGraph
  <2> DEFINE B == {m.id : m \in {n \in mems : n.owner = p /\ n.ents \cap Q # {}}}
             q == [IdleRd(p) EXCEPT !.phase = "anchors", !.query = Q, !.before = B]
  <2>2. B \in SUBSET MemIds
    BY ReadersTyped DEF WriteInv, MemRows
  <2>3. \A id \in B : \E m \in mems : m.id = id /\ m.owner = p /\ m.ents \cap Q # {}
    OBVIOUS
  <2>4. rd' = [rd EXCEPT ![r] = q]
    BY <2>1
  <2> HIDE DEF B
  <2>5. q \in RdRecs
    BY <2>2 DEF RdRecs, IdleRd, RdPhases
  <2>6. GoodTrail(q) /\ GoodSearch(q)
    BY <2>3 DEF IdleRd, GoodTrail, GoodSearch, Searching, NoMem
  <2> HIDE DEF q
  <2> QED  BY <1>1, <2>4, <2>5, <2>6, ReaderMoves DEF AskGraph
<1>2. CASE ReadAnchors(r)
  <2> DEFINE H == LinkedMems(o, rd[r].query)
             A == FirstN(H, AnchorLimit)
             q == [rd[r] EXCEPT !.anchors = A, !.phase = IF H = {} THEN "replied" ELSE "bridges"]
  <2>1. rd' = [rd EXCEPT ![r] = q]
    BY <1>2 DEF ReadAnchors, LinkedMems
  <2>2. /\ rd[r].query # {} /\ rd[r].mem = NoMem
        /\ \A id \in rd[r].before : \E m \in mems : m.id = id /\ m.owner = o /\ m.ents \cap rd[r].query # {}
        /\ rd[r].phase = "anchors" /\ rd[r].ids = {} /\ rd[r].reply = {}
    BY <1>0, <1>2 DEF ReadAnchors, GoodSearch, Searching
  <2>3. /\ H \in SUBSET MemIds /\ A \in SUBSET H
        /\ \A id \in H : Owned(o, id)
        /\ rd[r].before \subseteq H
        /\ Cardinality(A) < AnchorLimit => rd[r].before \subseteq A
    <3>1. rd[r].query \in Queries \cup {{}} /\ rd[r].before \in SUBSET MemIds
      BY <1>0 DEF RdRecs
    <3> HIDE DEF H, A
    <3> QED  BY ONLY WriteInv, <1>0, <2>2, <3>1, AnchorsOf DEF H, A
  <2> HIDE DEF H, A
  <2>4. q \in RdRecs
    BY <1>0, <2>3 DEF RdRecs, RdPhases
  <2>5. GoodTrail(q) /\ GoodSearch(q)
    BY <1>0, <2>2, <2>3 DEF RdRecs, GoodTrail, GoodSearch, Searching
  <2> HIDE DEF q
  <2> QED  BY <1>2, <2>1, <2>4, <2>5, ReaderMoves DEF ReadAnchors
<1>3. CASE ReadBridges(r)
  <2> DEFINE names == {l.entity : l \in {k \in OwnLinks(rd[r].owner) : /\ k.mem \in rd[r].anchors
                                                                   /\ k.entity \notin rd[r].query}}
             q == [rd[r] EXCEPT !.phase = "bridged", !.bridges = FirstN(names, BridgeLimit)]
  <2>1. rd' = [rd EXCEPT ![r] = q]
    BY <1>3 DEF ReadBridges
  <2>2. FirstN(names, BridgeLimit) \in SUBSET Entities
    BY <1>0, OwnLinksAreOwned DEF FirstN
  <2> HIDE DEF names
  <2>3. q \in RdRecs
    BY <1>0, <2>2 DEF RdRecs, RdPhases
  <2>4. GoodTrail(q) /\ GoodSearch(q)
    BY <1>0, <1>3 DEF ReadBridges, RdRecs, GoodTrail, GoodSearch, Searching
  <2> HIDE DEF q
  <2> QED  BY <1>3, <2>1, <2>3, <2>4, ReaderMoves DEF ReadBridges
<1>4. CASE ReadBridged(r)
  <2> DEFINE all == LinkedMems(o, rd[r].bridges)
             kept == FirstN(rd[r].anchors, HitLimit)
  <2>1. PICK fill \in SUBSET (all \ rd[r].anchors) :
          /\ Cardinality(kept \cup fill) <= HitLimit
          /\ rd' = [rd EXCEPT ![r].phase = "fetch", ![r].ids = kept \cup fill]
    BY <1>4 DEF ReadBridged, LinkedMems
  <2> DEFINE ids == kept \cup fill
             q == [rd[r] EXCEPT !.phase = "fetch", !.ids = ids]
  <2>2. rd' = [rd EXCEPT ![r] = q]
    BY <2>1
  <2>3. /\ rd[r].anchors \in SUBSET MemIds /\ \A id \in rd[r].anchors : Owned(o, id)
        /\ rd[r].phase = "bridged"
    BY <1>0, <1>4 DEF ReadBridged, RdRecs, GoodSearch, Searching
  <2>4. fill \in SUBSET all /\ fill \cap rd[r].anchors = {}
    BY <2>1
  <2>5. /\ ids \in SUBSET MemIds
        /\ \A id \in ids : Owned(o, id)
        /\ Cardinality(rd[r].anchors) <= HitLimit => rd[r].anchors \subseteq ids
        /\ ids \subseteq rd[r].anchors \/ rd[r].anchors \subseteq ids
    <3>1. kept \subseteq rd[r].anchors
      BY DEF FirstN
    <3>2. fill \in SUBSET MemIds /\ \A id \in fill : Owned(o, id)
      BY <1>0, <2>4, OwnLinksAreOwned DEF LinkedMems
    <3>3. Cardinality(rd[r].anchors) <= HitLimit => kept = rd[r].anchors
      BY <2>3, IdsAreNumbers, FirstNLarge
    <3>4. fill # {} => kept = rd[r].anchors
      BY <2>1, <2>3, <2>4, <3>2, RoomIsLeftOver
    <3> HIDE DEF kept
    <3> QED  BY <2>3, <3>1, <3>2, <3>3, <3>4
  <2> HIDE DEF ids
  <2>6. q \in RdRecs
    BY <1>0, <2>5 DEF RdRecs, RdPhases
  <2>7. GoodTrail(q) /\ GoodSearch(q)
    BY <1>0, <2>3, <2>5 DEF RdRecs, GoodTrail, GoodSearch, Searching
  <2> HIDE DEF q
  <2> QED  BY <1>4, <2>2, <2>6, <2>7, ReaderMoves DEF ReadBridged
<1>5. CASE FetchHits(r)
  <2> DEFINE rows == {m \in VisibleMems(Tenant(rd[r].owner)) : m.id \in rd[r].ids}
             q == [rd[r] EXCEPT !.phase = "replied", !.found = TRUE, !.reply = rows]
  <2>1. rd' = [rd EXCEPT ![r] = q]
    BY <1>5 DEF FetchHits
  <2>2. rows \in SUBSET MemRows /\ rows \subseteq mems
    BY ReadersTyped DEF WriteInv, VisibleMems
  <2>3. \A id \in rd[r].ids : Owned(o, id)
    BY <1>0, <1>5 DEF FetchHits, GoodSearch, Searching
  <2>4. {m.id : m \in rows} = rd[r].ids
    <3> SUFFICES ASSUME NEW id \in rd[r].ids PROVE \E m \in rows : m.id = id
      OBVIOUS
    <3> QED  BY <2>3 DEF Owned, VisibleMems, OfTenant
  <2> HIDE DEF rows
  <2>5. q \in RdRecs
    <3>1. rows \in (SUBSET AuditRows) \cup (SUBSET MemRows)
      BY <2>2
    <3> QED  BY <1>0, <3>1 DEF RdRecs, RdPhases
  <2>6. GoodTrail(q) /\ GoodSearch(q)
    BY <1>0, <1>5, <2>2, <2>4 DEF FetchHits, RdRecs, GoodTrail, GoodSearch, Searching
  <2> HIDE DEF q
  <2> QED  BY <1>5, <2>1, <2>5, <2>6, ReaderMoves DEF FetchHits
<1> QED  BY <1>1, <1>2, <1>3, <1>4, <1>5
-----------------------------------------------------------------------------
IInv == WriteInv /\ ReadInv

LEMMA InitInv == Init => IInv
<1> SUFFICES ASSUME Init PROVE IInv
  OBVIOUS
<1>1. (CHOOSE p \in Owners : TRUE) \in Owners
  BY OwnerAssumption
<1>2. TypeOK
  BY <1>1, NoTxIsGood, IdleRdIsGood, ReadersTyped DEF Init
<1>3. IdInv /\ StoreIsAllOrNothing
  BY NoTxIsGood DEF Init, IdInv, Storing, StoreIsAllOrNothing
<1>4. TxInv
  BY NoTxIsGood DEF Init, TxInv
<1>5. ReadInv
  BY <1>1, IdleRdIsGood DEF Init, ReadInv
<1> QED  BY <1>2, <1>3, <1>4, <1>5 DEF IInv, WriteInv

LEMMA NextInv == IInv /\ [Next]_vars => IInv'
<1> SUFFICES ASSUME IInv, [Next]_vars PROVE IInv'
  OBVIOUS
<1>1. ASSUME NEW w \in Writers, WriterStep(w) PROVE IInv'
  BY <1>1, WriterStepInv, WriterKeepsReaders DEF IInv
<1>2. ASSUME NEW r \in Readers, ReaderStep(r) PROVE IInv'
  BY <1>2, TrailStep, SearchStep DEF IInv, ReaderStep
<1>3. CASE UNCHANGED vars
  <2>1. TypeOK' /\ IdInv' /\ TxInv' /\ StoreIsAllOrNothing'
    BY <1>3 DEF vars, IInv, WriteInv, TypeOK, IdInv, Storing, TxInv, GoodTx, AdmitRow, LinksOf,
                StoreIsAllOrNothing
  <2>2. ReadInv'
    BY <1>3 DEF vars, IInv, ReadInv, GoodTrail, GoodSearch, Owned, Searching
  <2> QED  BY <2>1, <2>2 DEF IInv, WriteInv
<1> QED  BY <1>1, <1>2, <1>3 DEF Next

LEMMA Invariance == Spec => []IInv
  BY InitInv, NextInv, PTL DEF Spec

(* Every row, open transaction and request has the declared shape.         *)
THEOREM StoreTypeCorrect == Spec => []TypeOK
<1>1. IInv => TypeOK
  BY DEF IInv, WriteInv
<1> QED  BY <1>1, Invariance, PTL

(* store_memory commits the memory, its admit event and its links together *)
(* or not at all, however many writers commit, fail and roll back.         *)
THEOREM StoreIsAtomic == Spec => []StoreIsAllOrNothing
<1>1. IInv => StoreIsAllOrNothing
  BY DEF IInv, WriteInv
<1> QED  BY <1>1, Invariance, PTL

(* get_audit_trail answers 404 or the caller's complete trail, whatever    *)
(* commits between its two statements.                                     *)
THEOREM TrailIsComplete == Spec => []TrailIsOwnAndComplete
<1>1. IInv => TrailIsOwnAndComplete
  BY DEF IInv, ReadInv, GoodTrail, Owned, TrailIsOwnAndComplete
<1> QED  BY <1>1, Invariance, PTL

(* search_graph never returns a memory of another user or tenant, although *)
(* its last statement does not filter by user.                             *)
THEOREM GraphIsOwn == Spec => []GraphStaysWithOwner
<1>1. IInv => GraphStaysWithOwner
  <2> SUFFICES ASSUME IInv, NEW r \in Readers, rd[r].phase = "replied", rd[r].query # {},
                      NEW m \in rd[r].reply
               PROVE  m.owner = rd[r].owner
    BY DEF GraphStaysWithOwner
  <2>1. GoodSearch(rd[r]) /\ Searching(rd[r])
    BY DEF IInv, ReadInv, Searching
  <2>2. m \in mems /\ m.id \in rd[r].ids
    BY <2>1 DEF GoodSearch
  <2>3. PICK n \in mems : n.id = m.id /\ n.owner = rd[r].owner
    BY <2>1, <2>2 DEF GoodSearch, Owned
  <2>4. n = m
    BY <2>2, <2>3 DEF IInv, WriteInv, IdInv
  <2> QED  BY <2>3, <2>4
<1> QED  BY <1>1, Invariance, PTL

(* search_graph finds what was committed when it began, unless a limit cut *)
(* it, and never gives a place to a bridged memory that an anchor needs.   *)
THEOREM GraphIsComplete == Spec => []GraphFindsAnchors
<1>1. IInv => GraphFindsAnchors
  <2> SUFFICES ASSUME IInv, NEW r \in Readers, rd[r].phase = "replied", rd[r].query # {},
                      NEW ids, ids = {m.id : m \in rd[r].reply}
               PROVE  /\ Cardinality(rd[r].anchors) < AnchorLimit /\ Cardinality(rd[r].anchors) <= HitLimit
                           => rd[r].before \subseteq ids
                      /\ ids \subseteq rd[r].anchors \/ rd[r].anchors \subseteq ids
    BY DEF GraphFindsAnchors
  <2>1. GoodSearch(rd[r]) /\ Searching(rd[r])
    BY DEF IInv, ReadInv, Searching
  <2> QED  BY <2>1 DEF GoodSearch
<1> QED  BY <1>1, Invariance, PTL
=============================================================================
