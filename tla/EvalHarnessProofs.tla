-------------------------- MODULE EvalHarnessProofs --------------------------
(***************************************************************************)
(* Theorems about Migrations and EvalHarness, for any memories, any suite, *)
(* any sequence of revisions and any traffic.  First the revisions: the    *)
(* schema of each one is written down, field by field, and each revision   *)
(* is shown to lead from one to the next and back.  Then the rows and the  *)
(* run.                                                                    *)
(***************************************************************************)
EXTENDS EvalHarness, FiniteSetTheorems, WellFoundedInduction, TLAPS

(* Induction over the natural numbers, by the least element outside S. *)
Below == {p \in Nat \X Nat : p[1] < p[2]}

LEMMA SetInduction ==
  ASSUME NEW S, 0 \in S, \A n \in Nat : n \in S => n + 1 \in S
  PROVE  Nat \subseteq S
<1> DEFINE T == Nat \ S
<1>1. SUFFICES ASSUME T # {} PROVE FALSE
  OBVIOUS
<1>2. IsWellFoundedOn(Below, Nat)
  BY NatLessThanWellFounded, Zenon DEF OpToRel, Below
<1>3. PICK x \in T : \A y \in T : ~ (<<y, x>> \in Below)
  BY <1>1, <1>2, WFMin
<1>4. x # 0 /\ x - 1 \in Nat /\ x = (x - 1) + 1
  BY <1>3
<1>5. x - 1 \notin T
  <2>1. <<x - 1, x>> \in Below
    BY <1>4 DEF Below
  <2> HIDE DEF T
  <2> QED  BY <1>3, <2>1
<1> QED  BY <1>3, <1>4, <1>5

-----------------------------------------------------------------------------
(* The schema of each revision, spelled out. *)
TablesAt(v) == IF v >= 7 THEN Tables ELSE IF v >= 2 THEN First ELSE {}
GrantsAt(v) ==
  [t \in Tables |-> IF v < 3 \/ t \notin TablesAt(v) THEN {}
                    ELSE IF v >= 6 /\ t = "memory_audit" THEN {"SELECT", "INSERT"}
                    ELSE Dml]
ExtrasAt(v) == (IF v >= 4 THEN {"hnsw"} ELSE {}) \cup (IF v >= 7 THEN {"content_tsv"} ELSE {})
               \cup (IF v >= 8 THEN {"autovacuum"} ELSE {}) \cup (IF v >= 9 THEN {"statistics"} ELSE {})

SchemaAt(v) ==
  [extension |-> v >= 1, tables |-> TablesAt(v), isolated |-> TablesAt(v),
   role |-> v >= 3, usage |-> v >= 3, grants |-> GrantsAt(v),
   defaults |-> IF v >= 3 THEN Dml ELSE {},
   nonempty |-> v >= 5, triggers |-> IF v >= 6 THEN {"UPDATE", "DELETE"} ELSE {},
   extras |-> ExtrasAt(v)]

Fields == {"extension", "tables", "isolated", "role", "usage", "grants", "defaults",
           "nonempty", "triggers", "extras"}

LEMMA SchemaEquality ==
  ASSUME NEW d \in Schemas, NEW e \in Schemas, \A f \in Fields : d[f] = e[f]
  PROVE  d = e
BY DEF Schemas, Fields

LEMMA SchemaAtType == \A v \in 0..Head : SchemaAt(v) \in Schemas
<1> SUFFICES ASSUME NEW v \in 0..Head PROVE SchemaAt(v) \in Schemas
  OBVIOUS
<1>1. (v >= 1) \in BOOLEAN /\ (v >= 3) \in BOOLEAN /\ (v >= 5) \in BOOLEAN
  OBVIOUS
<1>2. TablesAt(v) \in SUBSET Tables
  BY DEF TablesAt, First, Tables
<1>3. GrantsAt(v) \in [Tables -> SUBSET Dml]
  BY DEF GrantsAt, Dml
<1>4. ExtrasAt(v) \in SUBSET {"hnsw", "content_tsv", "autovacuum", "statistics"}
  BY DEF ExtrasAt
<1>5. /\ (IF v >= 3 THEN Dml ELSE {}) \in SUBSET Dml
      /\ (IF v >= 6 THEN {"UPDATE", "DELETE"} ELSE {}) \in SUBSET Dml
  BY DEF Dml
<1> QED  BY <1>1, <1>2, <1>3, <1>4, <1>5 DEF SchemaAt, Schemas

LEMMA SchemaAtFields ==
  ASSUME NEW v
  PROVE  /\ SchemaAt(v).extension = (v >= 1)
         /\ SchemaAt(v).tables = TablesAt(v) /\ SchemaAt(v).isolated = TablesAt(v)
         /\ SchemaAt(v).role = (v >= 3) /\ SchemaAt(v).usage = (v >= 3)
         /\ SchemaAt(v).grants = GrantsAt(v)
         /\ SchemaAt(v).defaults = IF v >= 3 THEN Dml ELSE {}
         /\ SchemaAt(v).nonempty = (v >= 5)
         /\ SchemaAt(v).triggers = IF v >= 6 THEN {"UPDATE", "DELETE"} ELSE {}
         /\ SchemaAt(v).extras = ExtrasAt(v)
BY DEF SchemaAt
LEMMA SchemaAtFlags ==
  ASSUME NEW v \in 0..Head
  PROVE  /\ SchemaAt(v).extension \in BOOLEAN /\ (SchemaAt(v).extension <=> v >= 1)
         /\ SchemaAt(v).role \in BOOLEAN /\ (SchemaAt(v).role <=> v >= 3)
         /\ SchemaAt(v).usage \in BOOLEAN /\ (SchemaAt(v).usage <=> v >= 3)
         /\ SchemaAt(v).nonempty \in BOOLEAN /\ (SchemaAt(v).nonempty <=> v >= 5)
<1>1. SchemaAt(v) \in Schemas
  BY SchemaAtType
<1>2. v \in Nat
  BY DEF Head
<1>3. /\ SchemaAt(v).extension <=> v >= 1
      /\ SchemaAt(v).role <=> v >= 3
      /\ SchemaAt(v).usage <=> v >= 3
      /\ SchemaAt(v).nonempty <=> v >= 5
  BY <1>2 DEF SchemaAt
<1> QED  BY <1>1, <1>3 DEF Schemas


(* e differs from d at most in the fields of F. *)
Frame(d, e, F) == d \in Schemas /\ e \in Schemas /\ \A f \in Fields \ F : d[f] = e[f]

LEMMA FramesEqual ==
  ASSUME NEW d, NEW a, NEW b, NEW F, Frame(d, a, F), Frame(d, b, F), \A f \in F : a[f] = b[f]
  PROVE  a = b
BY SchemaEquality DEF Frame

LEMMA FrameSymmetric == \A d, e, F : Frame(d, e, F) => Frame(e, d, F)
BY DEF Frame

(* What the statements of the revisions change. *)
LEMMA CreateTableFrame ==
  ASSUME NEW d \in Schemas, NEW t \in Tables
  PROVE  /\ Frame(d, CreateTable(d, t), {"tables", "grants"})
         /\ CreateTable(d, t).tables = d.tables \cup {t}
         /\ CreateTable(d, t).grants = [d.grants EXCEPT ![t] = d.defaults]
BY DEF CreateTable, Schemas, Fields, Frame

LEMMA DropTableFrame ==
  ASSUME NEW d \in Schemas, NEW t \in Tables
  PROVE  /\ Frame(d, DropTable(d, t), {"tables", "grants", "isolated"})
         /\ DropTable(d, t).tables = d.tables \ {t}
         /\ DropTable(d, t).isolated = d.isolated \ {t}
         /\ DropTable(d, t).grants = [d.grants EXCEPT ![t] = {}]
BY DEF DropTable, Schemas, Fields, Frame

LEMMA IsolateFrame ==
  ASSUME NEW d \in Schemas, NEW T \in SUBSET Tables
  PROVE  /\ Frame(d, Isolate(d, T), {"isolated"})
         /\ Isolate(d, T).isolated = d.isolated \cup T
BY DEF Isolate, Schemas, Fields, Frame

LEMMA GrantFrame ==
  ASSUME NEW d \in Schemas, NEW T, NEW p \in SUBSET Dml
  PROVE  /\ Frame(d, Grant(d, T, p), {"grants"})
         /\ Grant(d, T, p).grants = [t \in Tables |-> IF t \in T THEN d.grants[t] \cup p ELSE d.grants[t]]
BY DEF Grant, Schemas, Fields, Frame

LEMMA RevokeFrame ==
  ASSUME NEW d \in Schemas, NEW T, NEW p \in SUBSET Dml
  PROVE  /\ Frame(d, Revoke(d, T, p), {"grants"})
         /\ Revoke(d, T, p).grants = [t \in Tables |-> IF t \in T THEN d.grants[t] \ p ELSE d.grants[t]]
BY DEF Revoke, Schemas, Fields, Frame

(* What each revision leaves alone. *)
LEMMA AtFrames ==
  /\ Frame(SchemaAt(0), SchemaAt(1), {"extension"})
  /\ Frame(SchemaAt(1), SchemaAt(2), {"tables", "isolated"})
  /\ Frame(SchemaAt(2), SchemaAt(3), {"role", "usage", "grants", "defaults"})
  /\ Frame(SchemaAt(3), SchemaAt(4), {"extras"})
  /\ Frame(SchemaAt(4), SchemaAt(5), {"nonempty"})
  /\ Frame(SchemaAt(5), SchemaAt(6), {"grants", "triggers"})
  /\ Frame(SchemaAt(6), SchemaAt(7), {"tables", "isolated", "grants", "extras"})
  /\ Frame(SchemaAt(7), SchemaAt(8), {"extras"})
  /\ Frame(SchemaAt(8), SchemaAt(9), {"extras"})
<1>1. \A v \in 0..9 : SchemaAt(v) \in Schemas
  BY SchemaAtType DEF Head
<1>2. /\ TablesAt(0) = {} /\ TablesAt(1) = {} /\ TablesAt(2) = First /\ TablesAt(3) = First
      /\ TablesAt(4) = First /\ TablesAt(5) = First /\ TablesAt(6) = First
      /\ TablesAt(7) = Tables /\ TablesAt(8) = Tables /\ TablesAt(9) = Tables
  BY DEF TablesAt
<1>3. /\ GrantsAt(0) = GrantsAt(1) /\ GrantsAt(1) = GrantsAt(2)
      /\ GrantsAt(3) = GrantsAt(4) /\ GrantsAt(4) = GrantsAt(5)
      /\ GrantsAt(7) = GrantsAt(8) /\ GrantsAt(8) = GrantsAt(9)
  BY <1>2 DEF GrantsAt
<1>4. /\ ExtrasAt(0) = ExtrasAt(1) /\ ExtrasAt(1) = ExtrasAt(2) /\ ExtrasAt(2) = ExtrasAt(3)
      /\ ExtrasAt(4) = ExtrasAt(5) /\ ExtrasAt(5) = ExtrasAt(6)
  BY DEF ExtrasAt
<1>11. Frame(SchemaAt(0), SchemaAt(1), {"extension"})
  BY <1>1, <1>2, <1>3, <1>4, SchemaAtFields DEF Frame, Fields
<1>12. Frame(SchemaAt(1), SchemaAt(2), {"tables", "isolated"})
  BY <1>1, <1>2, <1>3, <1>4, SchemaAtFields DEF Frame, Fields
<1>13. Frame(SchemaAt(2), SchemaAt(3), {"role", "usage", "grants", "defaults"})
  BY <1>1, <1>2, <1>3, <1>4, SchemaAtFields DEF Frame, Fields
<1>14. Frame(SchemaAt(3), SchemaAt(4), {"extras"})
  BY <1>1, <1>2, <1>3, <1>4, SchemaAtFields DEF Frame, Fields
<1>15. Frame(SchemaAt(4), SchemaAt(5), {"nonempty"})
  BY <1>1, <1>2, <1>3, <1>4, SchemaAtFields DEF Frame, Fields
<1>16. Frame(SchemaAt(5), SchemaAt(6), {"grants", "triggers"})
  BY <1>1, <1>2, <1>3, <1>4, SchemaAtFields DEF Frame, Fields
<1>17. Frame(SchemaAt(6), SchemaAt(7), {"tables", "isolated", "grants", "extras"})
  BY <1>1, <1>2, <1>3, <1>4, SchemaAtFields DEF Frame, Fields
<1>18. Frame(SchemaAt(7), SchemaAt(8), {"extras"})
  BY <1>1, <1>2, <1>3, <1>4, SchemaAtFields DEF Frame, Fields
<1>19. Frame(SchemaAt(8), SchemaAt(9), {"extras"})
  BY <1>1, <1>2, <1>3, <1>4, SchemaAtFields DEF Frame, Fields
<1> QED  BY <1>11, <1>12, <1>13, <1>14, <1>15, <1>16, <1>17, <1>18, <1>19

LEMMA Revision1 ==
  /\ Up0001(SchemaAt(0)) = SchemaAt(1)
  /\ Down0001(SchemaAt(1)) = SchemaAt(0)
<1>1. \A d \in Schemas : /\ Frame(d, Up0001(d), {"extension"}) /\ Up0001(d).extension = TRUE
                        /\ Frame(d, Down0001(d), {"extension"}) /\ Down0001(d).extension = FALSE
  BY DEF Frame, Up0001, Down0001, Schemas, Fields
<1>2. SchemaAt(0) \in Schemas /\ SchemaAt(1) \in Schemas
  BY AtFrames DEF Frame
<1>3. Frame(SchemaAt(0), SchemaAt(1), {"extension"}) /\ Frame(SchemaAt(1), SchemaAt(0), {"extension"})
  BY AtFrames, FrameSymmetric
<1>4. /\ SchemaAt(1).extension = TRUE
      /\ SchemaAt(0).extension = FALSE
  BY SchemaAtFields, SchemaAtFlags DEF Head
<1>5. /\ Up0001(SchemaAt(0)).extension = SchemaAt(1).extension
      /\ Down0001(SchemaAt(1)).extension = SchemaAt(0).extension
  BY <1>1, <1>2, <1>4
<1> QED  BY <1>1, <1>2, <1>3, <1>5, FramesEqual

LEMMA Revision4 ==
  /\ Up0004(SchemaAt(3)) = SchemaAt(4)
  /\ Down0004(SchemaAt(4)) = SchemaAt(3)
<1>1. \A d \in Schemas : /\ Frame(d, Up0004(d), {"extras"}) /\ Up0004(d).extras = d.extras \cup {"hnsw"}
                        /\ Frame(d, Down0004(d), {"extras"}) /\ Down0004(d).extras = d.extras \ {"hnsw"}
  BY DEF Frame, Up0004, Down0004, Schemas, Fields
<1>2. SchemaAt(3) \in Schemas /\ SchemaAt(4) \in Schemas
  BY AtFrames DEF Frame
<1>3. Frame(SchemaAt(3), SchemaAt(4), {"extras"}) /\ Frame(SchemaAt(4), SchemaAt(3), {"extras"})
  BY AtFrames, FrameSymmetric
<1>4. /\ SchemaAt(4).extras = SchemaAt(3).extras \cup {"hnsw"}
      /\ SchemaAt(3).extras = SchemaAt(4).extras \ {"hnsw"}
  BY SchemaAtFields DEF ExtrasAt
<1>5. /\ Up0004(SchemaAt(3)).extras = SchemaAt(4).extras
      /\ Down0004(SchemaAt(4)).extras = SchemaAt(3).extras
  BY <1>1, <1>2, <1>4
<1> QED  BY <1>1, <1>2, <1>3, <1>5, FramesEqual

LEMMA Revision8 ==
  /\ Up0008(SchemaAt(7)) = SchemaAt(8)
  /\ Down0008(SchemaAt(8)) = SchemaAt(7)
<1>1. \A d \in Schemas : /\ Frame(d, Up0008(d), {"extras"}) /\ Up0008(d).extras = d.extras \cup {"autovacuum"}
                        /\ Frame(d, Down0008(d), {"extras"}) /\ Down0008(d).extras = d.extras \ {"autovacuum"}
  BY DEF Frame, Up0008, Down0008, Schemas, Fields
<1>2. SchemaAt(7) \in Schemas /\ SchemaAt(8) \in Schemas
  BY AtFrames DEF Frame
<1>3. Frame(SchemaAt(7), SchemaAt(8), {"extras"}) /\ Frame(SchemaAt(8), SchemaAt(7), {"extras"})
  BY AtFrames, FrameSymmetric
<1>4. /\ SchemaAt(8).extras = SchemaAt(7).extras \cup {"autovacuum"}
      /\ SchemaAt(7).extras = SchemaAt(8).extras \ {"autovacuum"}
  BY SchemaAtFields DEF ExtrasAt
<1>5. /\ Up0008(SchemaAt(7)).extras = SchemaAt(8).extras
      /\ Down0008(SchemaAt(8)).extras = SchemaAt(7).extras
  BY <1>1, <1>2, <1>4
<1> QED  BY <1>1, <1>2, <1>3, <1>5, FramesEqual

LEMMA Revision9 ==
  /\ Up0009(SchemaAt(8)) = SchemaAt(9)
  /\ Down0009(SchemaAt(9)) = SchemaAt(8)
<1>1. \A d \in Schemas : /\ Frame(d, Up0009(d), {"extras"}) /\ Up0009(d).extras = d.extras \cup {"statistics"}
                        /\ Frame(d, Down0009(d), {"extras"}) /\ Down0009(d).extras = d.extras \ {"statistics"}
  BY DEF Frame, Up0009, Down0009, Schemas, Fields
<1>2. SchemaAt(8) \in Schemas /\ SchemaAt(9) \in Schemas
  BY AtFrames DEF Frame
<1>3. Frame(SchemaAt(8), SchemaAt(9), {"extras"}) /\ Frame(SchemaAt(9), SchemaAt(8), {"extras"})
  BY AtFrames, FrameSymmetric
<1>4. /\ SchemaAt(9).extras = SchemaAt(8).extras \cup {"statistics"}
      /\ SchemaAt(8).extras = SchemaAt(9).extras \ {"statistics"}
  BY SchemaAtFields DEF ExtrasAt
<1>5. /\ Up0009(SchemaAt(8)).extras = SchemaAt(9).extras
      /\ Down0009(SchemaAt(9)).extras = SchemaAt(8).extras
  BY <1>1, <1>2, <1>4
<1> QED  BY <1>1, <1>2, <1>3, <1>5, FramesEqual

LEMMA Revision5 ==
  /\ Up0005(SchemaAt(4)) = SchemaAt(5)
  /\ Down0005(SchemaAt(5)) = SchemaAt(4)
<1>1. \A d \in Schemas : /\ Frame(d, Up0005(d), {"nonempty"}) /\ Up0005(d).nonempty = TRUE
                        /\ Frame(d, Down0005(d), {"nonempty"}) /\ Down0005(d).nonempty = FALSE
  BY DEF Frame, Up0005, Down0005, Schemas, Fields
<1>2. SchemaAt(4) \in Schemas /\ SchemaAt(5) \in Schemas
  BY AtFrames DEF Frame
<1>3. Frame(SchemaAt(4), SchemaAt(5), {"nonempty"}) /\ Frame(SchemaAt(5), SchemaAt(4), {"nonempty"})
  BY AtFrames, FrameSymmetric
<1>4. /\ SchemaAt(5).nonempty = TRUE
      /\ SchemaAt(4).nonempty = FALSE
  BY SchemaAtFields, SchemaAtFlags DEF Head
<1>5. /\ Up0005(SchemaAt(4)).nonempty = SchemaAt(5).nonempty
      /\ Down0005(SchemaAt(5)).nonempty = SchemaAt(4).nonempty
  BY <1>1, <1>2, <1>4
<1> QED  BY <1>1, <1>2, <1>3, <1>5, FramesEqual

LEMMA FrameTransitive ==
  ASSUME NEW d, NEW e, NEW g, NEW F, NEW G, NEW H, Frame(d, e, F), Frame(e, g, G),
         F \subseteq H, G \subseteq H
  PROVE  Frame(d, g, H)
BY DEF Frame

LEMMA Revision2 ==
  /\ Up0002(SchemaAt(1)) = SchemaAt(2)
  /\ Down0002(SchemaAt(2)) = SchemaAt(1)
<1> DEFINE s == SchemaAt(1)
           t == SchemaAt(2)
           F == {"tables", "grants", "isolated"}
           a == CreateTable(s, "memories")
           b == CreateTable(a, "memory_audit")
           c == Isolate(b, First)
           x == DropTable(t, "memory_audit")
           y == DropTable(x, "memories")
<1>1. /\ s.tables = {} /\ s.isolated = {} /\ s.grants = [n \in Tables |-> {}] /\ s.defaults = {}
      /\ t.tables = First /\ t.isolated = First /\ t.grants = [n \in Tables |-> {}]
  BY SchemaAtFields DEF TablesAt, GrantsAt
<1>2. Frame(s, t, F) /\ Frame(t, s, F) /\ s \in Schemas /\ t \in Schemas
  BY AtFrames, FrameSymmetric DEF Frame
<1> HIDE DEF s, t
<1>3. /\ Frame(s, a, {"tables", "grants"})
      /\ a.tables = {"memories"} /\ a.grants = [n \in Tables |-> {}] /\ a.defaults = {} /\ a.isolated = {}
  <2>1. "memories" \in Tables
    BY DEF Tables
  <2>2. Frame(s, a, {"tables", "grants"}) /\ a.tables = s.tables \cup {"memories"}
        /\ a.grants = [s.grants EXCEPT !["memories"] = s.defaults]
    BY <1>2, <2>1, CreateTableFrame
  <2> HIDE DEF a
  <2> QED  BY <1>1, <2>2 DEF Frame, Fields
<1>4. a \in Schemas
  BY <1>3 DEF Frame
<1> HIDE DEF a
<1>5. /\ Frame(a, b, {"tables", "grants"})
      /\ b.tables = First /\ b.grants = [n \in Tables |-> {}] /\ b.isolated = {}
  <2>1. "memory_audit" \in Tables
    BY DEF Tables
  <2>2. Frame(a, b, {"tables", "grants"}) /\ b.tables = a.tables \cup {"memory_audit"}
        /\ b.grants = [a.grants EXCEPT !["memory_audit"] = a.defaults]
    BY <1>4, <2>1, CreateTableFrame
  <2> HIDE DEF b
  <2> QED  BY <1>3, <2>2 DEF Frame, Fields, First
<1>6. b \in Schemas
  BY <1>5 DEF Frame
<1> HIDE DEF b
<1>7. /\ Frame(b, c, {"isolated"})
      /\ c.tables = First /\ c.grants = [n \in Tables |-> {}] /\ c.isolated = First
  <2>1. Frame(b, c, {"isolated"}) /\ c.isolated = b.isolated \cup First
    BY <1>6, IsolateFrame DEF First, Tables
  <2> HIDE DEF c
  <2> QED  BY <1>5, <2>1 DEF Frame, Fields
<1> HIDE DEF c
<1>8. Frame(s, c, F)
  BY <1>3, <1>5, <1>7 DEF Frame
<1>9. c = t
  BY <1>1, <1>2, <1>7, <1>8, FramesEqual
<1>10. /\ Frame(t, x, F)
       /\ x.tables = {"memories"} /\ x.grants = [n \in Tables |-> {}] /\ x.isolated = {"memories"}
  <2>1. "memory_audit" \in Tables
    BY DEF Tables
  <2>2. Frame(t, x, F) /\ x.tables = t.tables \ {"memory_audit"} /\ x.isolated = t.isolated \ {"memory_audit"}
        /\ x.grants = [t.grants EXCEPT !["memory_audit"] = {}]
    BY <1>2, <2>1, DropTableFrame
  <2> HIDE DEF x
  <2> QED  BY <1>1, <2>2 DEF First
<1>11. x \in Schemas
  BY <1>10 DEF Frame
<1> HIDE DEF x
<1>12. /\ Frame(x, y, F)
       /\ y.tables = {} /\ y.grants = [n \in Tables |-> {}] /\ y.isolated = {}
  <2>1. "memories" \in Tables
    BY DEF Tables
  <2>2. Frame(x, y, F) /\ y.tables = x.tables \ {"memories"} /\ y.isolated = x.isolated \ {"memories"}
        /\ y.grants = [x.grants EXCEPT !["memories"] = {}]
    BY <1>11, <2>1, DropTableFrame
  <2> HIDE DEF y
  <2> QED  BY <1>10, <2>2
<1> HIDE DEF y
<1>13. Frame(t, y, F)
  BY <1>10, <1>12 DEF Frame
<1>14. y = s
  BY <1>1, <1>2, <1>12, <1>13, FramesEqual
<1> QED  BY <1>9, <1>14 DEF Up0002, Down0002, s, t, a, b, c, x, y

LEMMA Revision3 ==
  /\ Up0003(SchemaAt(2)) = SchemaAt(3)
  /\ Down0003(SchemaAt(3)) = SchemaAt(2)
<1> DEFINE s == SchemaAt(2)
           t == SchemaAt(3)
           F == {"role", "usage", "grants", "defaults"}
           a == [s EXCEPT !.role = TRUE, !.usage = TRUE, !.defaults = Dml]
           b == [t EXCEPT !.role = FALSE, !.usage = FALSE, !.defaults = {}]
           c == Grant(a, First, Dml)
           d == Revoke(b, First, Dml)
<1>1. /\ s.role = FALSE /\ s.usage = FALSE /\ s.defaults = {}
      /\ t.role = TRUE /\ t.usage = TRUE /\ t.defaults = Dml
  BY SchemaAtFields, SchemaAtFlags DEF Head
<1>2. /\ s.grants = [n \in Tables |-> {}]
      /\ t.grants = [n \in Tables |-> IF n \in First THEN Dml ELSE {}]
  BY SchemaAtFields DEF TablesAt, GrantsAt
<1>3. Frame(s, t, F) /\ Frame(t, s, F) /\ s \in Schemas /\ t \in Schemas
  BY AtFrames, FrameSymmetric DEF Frame
<1> HIDE DEF s, t
<1>4. /\ Frame(s, a, F) /\ a.role = TRUE /\ a.usage = TRUE /\ a.defaults = Dml /\ a.grants = s.grants
      /\ Frame(t, b, F) /\ b.role = FALSE /\ b.usage = FALSE /\ b.defaults = {} /\ b.grants = t.grants
  BY <1>3 DEF Schemas, Fields, Frame
<1>5. a \in Schemas /\ b \in Schemas
  BY <1>4 DEF Frame
<1> HIDE DEF a, b
<1>6. /\ Frame(a, c, {"grants"})
      /\ c.grants = [n \in Tables |->
                      IF n \in First THEN a.grants[n] \cup Dml ELSE a.grants[n]]
      /\ Frame(b, d, {"grants"})
      /\ d.grants = [n \in Tables |->
                      IF n \in First THEN b.grants[n] \ Dml ELSE b.grants[n]]
  BY <1>5, GrantFrame, RevokeFrame
<1> HIDE DEF c, d
<1>7. c.grants = t.grants /\ d.grants = s.grants
  BY <1>2, <1>4, <1>6
<1>8. Frame(s, c, F) /\ Frame(t, d, F)
  BY <1>4, <1>6, FrameTransitive
<1>9. /\ c.role = TRUE /\ c.usage = TRUE /\ c.defaults = Dml
      /\ d.role = FALSE /\ d.usage = FALSE /\ d.defaults = {}
  BY <1>4, <1>6 DEF Frame, Fields
<1>10. \A f \in F : c[f] = t[f] /\ d[f] = s[f]
  BY <1>1, <1>7, <1>9
<1>11. c = t /\ d = s
  BY <1>3, <1>8, <1>10, FramesEqual
<1> QED  BY <1>11 DEF Up0003, Down0003, s, t, a, b, c, d

LEMMA Revision6 ==
  /\ Up0006(SchemaAt(5)) = SchemaAt(6)
  /\ Down0006(SchemaAt(6)) = SchemaAt(5)
<1> DEFINE s == SchemaAt(5)
           t == SchemaAt(6)
           F == {"grants", "triggers"}
           T == {"memory_audit"}
           P == {"UPDATE", "DELETE"}
           a == [s EXCEPT !.triggers = P]
           b == [t EXCEPT !.triggers = {}]
           c == Revoke(a, T, P)
           d == Grant(b, T, P)
<1>1. /\ s.triggers = {} /\ t.triggers = P
      /\ s.grants = [n \in Tables |-> IF n \in First THEN Dml ELSE {}]
      /\ t.grants = [n \in Tables |-> IF n = "memories" THEN Dml
                                      ELSE IF n = "memory_audit" THEN {"SELECT", "INSERT"} ELSE {}]
  BY SchemaAtFields DEF TablesAt, GrantsAt, Tables, First
<1>2. Frame(s, t, F) /\ Frame(t, s, F) /\ s \in Schemas /\ t \in Schemas
  BY AtFrames, FrameSymmetric DEF Frame
<1> HIDE DEF s, t
<1>3. /\ Frame(s, a, F) /\ a.triggers = P /\ a.grants = s.grants
      /\ Frame(t, b, F) /\ b.triggers = {} /\ b.grants = t.grants
  BY <1>2 DEF Schemas, Fields, Frame, Dml
<1>4. a \in Schemas /\ b \in Schemas /\ P \in SUBSET Dml
  BY <1>3 DEF Frame, Dml
<1> HIDE DEF a, b
<1>5. /\ Frame(a, c, {"grants"})
      /\ c.grants = [n \in Tables |->
                      IF n \in T THEN a.grants[n] \ P ELSE a.grants[n]]
      /\ Frame(b, d, {"grants"})
      /\ d.grants = [n \in Tables |->
                      IF n \in T THEN b.grants[n] \cup P ELSE b.grants[n]]
  BY <1>4, GrantFrame, RevokeFrame
<1> HIDE DEF c, d
<1>6. c.grants = t.grants /\ d.grants = s.grants
  BY <1>1, <1>3, <1>5 DEF Tables, First, Dml
<1>7. Frame(s, c, F) /\ Frame(t, d, F)
  BY <1>3, <1>5, FrameTransitive
<1>8. c.triggers = t.triggers /\ d.triggers = s.triggers
  BY <1>1, <1>3, <1>5 DEF Frame, Fields
<1>9. c = t /\ d = s
  BY <1>2, <1>6, <1>7, <1>8, FramesEqual
<1> QED  BY <1>9 DEF Up0006, Down0006, s, t, a, b, c, d

LEMMA Revision7 ==
  /\ Up0007(SchemaAt(6)) = SchemaAt(7)
  /\ Down0007(SchemaAt(7)) = SchemaAt(6)
<1> DEFINE s == SchemaAt(6)
           t == SchemaAt(7)
           F == {"tables", "isolated", "grants", "extras"}
           L == "memory_entity_links"
           a == [s EXCEPT !.extras = @ \cup {"content_tsv"}]
           b == [t EXCEPT !.extras = @ \ {"content_tsv"}]
           c == CreateTable(a, L)
           e == Isolate(c, {L})
           d == DropTable(b, L)
<1>1. /\ s.tables = First /\ s.isolated = First /\ s.defaults = Dml
      /\ t.tables = First \cup {L} /\ t.isolated = First \cup {L} /\ L \notin First
      /\ s.extras = {"hnsw"} /\ t.extras = {"hnsw", "content_tsv"}
      /\ s.grants = [n \in Tables |-> IF n = "memories" THEN Dml
                                      ELSE IF n = "memory_audit" THEN {"SELECT", "INSERT"} ELSE {}]
      /\ t.grants = [n \in Tables |-> IF n = "memory_audit" THEN {"SELECT", "INSERT"} ELSE Dml]
  BY SchemaAtFields DEF TablesAt, GrantsAt, ExtrasAt, Tables, First
<1>2. Frame(s, t, F) /\ Frame(t, s, F) /\ s \in Schemas /\ t \in Schemas /\ L \in Tables
  BY AtFrames, FrameSymmetric DEF Frame, Tables
<1> HIDE DEF s, t
<1>3. /\ Frame(s, a, {"extras"}) /\ a.extras = t.extras
      /\ Frame(t, b, {"extras"}) /\ b.extras = s.extras
  BY <1>1, <1>2 DEF Schemas, Fields, Frame
<1>4. a \in Schemas /\ b \in Schemas
  BY <1>3 DEF Frame
<1> HIDE DEF a, b
<1>5. /\ Frame(a, c, {"tables", "grants"}) /\ c.tables = a.tables \cup {L}
      /\ c.grants = [a.grants EXCEPT ![L] = a.defaults]
  BY <1>2, <1>4, CreateTableFrame
<1>6. /\ Frame(b, d, {"tables", "grants", "isolated"}) /\ d.tables = b.tables \ {L}
      /\ d.isolated = b.isolated \ {L} /\ d.grants = [b.grants EXCEPT ![L] = {}]
  BY <1>2, <1>4, DropTableFrame
<1>7. c \in Schemas
  BY <1>5 DEF Frame
<1> HIDE DEF c, d
<1>8. Frame(c, e, {"isolated"}) /\ e.isolated = c.isolated \cup {L}
  BY <1>2, <1>7, IsolateFrame
<1> HIDE DEF e
<1>9. Frame(s, e, F) /\ Frame(t, d, F)
  <2>1. Frame(s, c, F) /\ Frame(t, d, F)
    BY <1>3, <1>5, <1>6, FrameTransitive
  <2> QED  BY <1>8, <2>1, FrameTransitive
<1>10. e.tables = t.tables /\ e.isolated = t.isolated /\ e.extras = t.extras
  BY <1>1, <1>3, <1>5, <1>8 DEF Frame, Fields
<1>11. d.tables = s.tables /\ d.isolated = s.isolated /\ d.extras = s.extras
  BY <1>1, <1>3, <1>6 DEF Frame, Fields
<1>12. e.grants = t.grants
  <2>1. e.grants = [s.grants EXCEPT ![L] = Dml]
    BY <1>1, <1>3, <1>5, <1>8 DEF Frame, Fields
  <2> QED  BY <1>1, <2>1 DEF Tables
<1>13. d.grants = s.grants
  <2>1. d.grants = [t.grants EXCEPT ![L] = {}]
    BY <1>3, <1>6 DEF Frame, Fields
  <2> QED  BY <1>1, <2>1 DEF Tables
<1>14. e = t /\ d = s
  BY <1>2, <1>9, <1>10, <1>11, <1>12, <1>13, FramesEqual
<1> QED  BY <1>14 DEF Up0007, Down0007, s, t, a, b, c, d, e

(* Each revision leads from the schema before it to its own, and back. *)
LEMMA Revisions ==
  \A v \in 1..Head : Up(v, SchemaAt(v - 1)) = SchemaAt(v) /\ Down(v, SchemaAt(v)) = SchemaAt(v - 1)
BY Revision1, Revision2, Revision3, Revision4, Revision5, Revision6, Revision7, Revision8, Revision9
   DEF Up, Down, Head

(* Along any number of revisions up, and down. *)
LEMMA UpgradedAt ==
  ASSUME NEW from \in 0..Head, NEW to \in from..Head
  PROVE  Upgraded(SchemaAt(from), from, to) = SchemaAt(to)
<1> DEFINE d == SchemaAt(from)
           Follows(f) == f = [v \in from..to |-> IF v = from THEN d ELSE Up(v, f[v - 1])]
           after == CHOOSE f : Follows(f)
           straight == [v \in from..to |-> SchemaAt(v)]
           S == {n \in Nat : from + n <= to => after[from + n] = SchemaAt(from + n)}
<1>1. Follows(straight)
  <2>1. \A v \in from..to : v # from => v - 1 \in from..to /\ v \in 1..Head
    BY DEF Head
  <2>2. \A v \in from..to : SchemaAt(v) = IF v = from THEN d ELSE Up(v, straight[v - 1])
    BY <2>1, Revisions
  <2> QED  BY <2>2
<1>2. Follows(after)
  BY <1>1, Zenon
<1> HIDE DEF d, after
<1>3. 0 \in S
  BY <1>2 DEF d
<1>4. ASSUME NEW n \in Nat, n \in S
      PROVE  n + 1 \in S
  <2> SUFFICES ASSUME from + (n + 1) <= to
               PROVE  after[from + (n + 1)] = SchemaAt(from + (n + 1))
    OBVIOUS
  <2> DEFINE v == from + (n + 1)
  <2>1. v \in from..to /\ v # from /\ v - 1 = from + n /\ from + n <= to /\ v \in 1..Head
    BY DEF Head
  <2>2. after[v - 1] = SchemaAt(v - 1)
    BY <1>4, <2>1
  <2>3. after[v] = Up(v, after[v - 1])
    <3> HIDE DEF v
    <3> QED  BY <1>2, <2>1
  <2> QED  BY <2>1, <2>2, <2>3, Revisions
<1>5. to - from \in Nat /\ from + (to - from) = to
  OBVIOUS
<1>6. Nat \subseteq S
  <2> HIDE DEF S
  <2> QED  BY <1>3, <1>4, SetInduction
<1>7. after[to] = SchemaAt(to)
  BY <1>5, <1>6
<1> QED  BY <1>7 DEF Upgraded, after, d

LEMMA DowngradedAt ==
  ASSUME NEW from \in 0..Head, NEW to \in 0..from
  PROVE  Downgraded(SchemaAt(from), from, to) = SchemaAt(to)
<1> DEFINE d == SchemaAt(from)
           Follows(f) == f = [n \in 0..(from - to) |-> IF n = 0 THEN d ELSE Down(from + 1 - n, f[n - 1])]
           after == CHOOSE f : Follows(f)
           straight == [n \in 0..(from - to) |-> SchemaAt(from - n)]
           S == {n \in Nat : n <= from - to => after[n] = SchemaAt(from - n)}
<1>1. Follows(straight)
  <2>1. \A n \in 0..(from - to) : n # 0 =>
          /\ n - 1 \in 0..(from - to) /\ from + 1 - n \in 1..Head
          /\ from - (n - 1) = from + 1 - n /\ (from + 1 - n) - 1 = from - n
    BY DEF Head
  <2>2. \A n \in 0..(from - to) :
          SchemaAt(from - n) = IF n = 0 THEN d ELSE Down(from + 1 - n, straight[n - 1])
    BY <2>1, Revisions
  <2> QED  BY <2>2
<1>2. Follows(after)
  BY <1>1, Zenon
<1> HIDE DEF d, after
<1>3. 0 \in S
  BY <1>2 DEF d
<1>4. ASSUME NEW n \in Nat, n \in S
      PROVE  n + 1 \in S
  <2> SUFFICES ASSUME n + 1 <= from - to
               PROVE  after[n + 1] = SchemaAt(from - (n + 1))
    OBVIOUS
  <2> DEFINE m == n + 1
             v == from - n
  <2>1. /\ m \in 0..(from - to) /\ m # 0 /\ m - 1 = n /\ n <= from - to
        /\ from + 1 - m = v /\ v - 1 = from - m /\ v \in 1..Head
    BY DEF Head
  <2>2. after[m - 1] = SchemaAt(v)
    BY <1>4, <2>1
  <2>3. after[m] = Down(from + 1 - m, after[m - 1])
    <3> HIDE DEF m
    <3> QED  BY <1>2, <2>1
  <2>4. Down(v, SchemaAt(v)) = SchemaAt(v - 1)
    <3> HIDE DEF v
    <3> QED  BY <2>1, Revisions
  <2> QED  BY <2>1, <2>2, <2>3, <2>4
<1>5. from - to \in Nat /\ from - (from - to) = to
  OBVIOUS
<1>6. Nat \subseteq S
  <2> HIDE DEF S
  <2> QED  BY <1>3, <1>4, SetInduction
<1>7. after[from - to] = SchemaAt(to)
  BY <1>5, <1>6
<1> QED  BY <1>7 DEF Downgraded, after, d

LEMMA EmptyAt == Empty = SchemaAt(0)
<1>1. Empty \in Schemas /\ SchemaAt(0) \in Schemas
  <2>1. [t \in Tables |-> {}] \in [Tables -> SUBSET Dml]
    OBVIOUS
  <2> QED  BY <2>1, SchemaAtType DEF Empty, Schemas, Head
<1>2. /\ Empty.extension = SchemaAt(0).extension /\ Empty.role = SchemaAt(0).role
      /\ Empty.usage = SchemaAt(0).usage /\ Empty.nonempty = SchemaAt(0).nonempty
  <2>1. ~ SchemaAt(0).extension /\ ~ SchemaAt(0).role /\ ~ SchemaAt(0).usage /\ ~ SchemaAt(0).nonempty
    BY SchemaAtFlags DEF Head
  <2>2. ~ Empty.extension /\ ~ Empty.role /\ ~ Empty.usage /\ ~ Empty.nonempty
    BY DEF Empty
  <2> QED  BY <1>1, <2>1, <2>2 DEF Schemas
<1>3. Empty.grants = SchemaAt(0).grants
  <2>1. GrantsAt(0) = [t \in Tables |-> {}]
    BY DEF GrantsAt
  <2> QED  BY <2>1, SchemaAtFields DEF Empty
<1>4. /\ Empty.tables = SchemaAt(0).tables /\ Empty.isolated = SchemaAt(0).isolated
      /\ Empty.defaults = SchemaAt(0).defaults /\ Empty.triggers = SchemaAt(0).triggers
      /\ Empty.extras = SchemaAt(0).extras
  BY SchemaAtFields DEF Empty, TablesAt, ExtrasAt
<1> QED  BY <1>1, <1>2, <1>3, <1>4, SchemaEquality DEF Fields

-----------------------------------------------------------------------------
(* The run and the rows. *)

(* What the run has in its hands is still meant for a report. *)
Reporting == phase \in {"storing", "querying"} \/ (phase = "cleanup" /\ report # NoReport)

SchemaInv == db = SchemaAt(version)

(* Only a run at work, or one that was lost, has rows in the database. *)
TraceInv ==
  /\ Running => version = ranAt
  /\ phase = "idle" => \A m \in mems : m.id \notin Candidates
  /\ phase = "idle" => \A a \in audits : a.mem \notin Candidates
  /\ RunLeavesNoTrace

(* From revision 0006 on the labels are the rows, because each row has its *)
(* admit event, which nobody can remove, and so cannot be removed itself.  *)
StoredInv ==
  /\ phase = "idle" => labels = {}
  /\ phase \in {"idle", "storing", "querying"} => report = NoReport
  /\ Reporting /\ ranAt >= 6 =>
       /\ Stored = labels
       /\ \A m \in mems : m.id \in Candidates => \E a \in audits : a.mem = m.id
  /\ phase = "cleanup" /\ report # NoReport =>
       /\ report.precision = Ratio(Cardinality(labels \cap ShouldAdmit), Cardinality(labels))
       /\ report.recall = Ratio(Cardinality(labels \cap ShouldAdmit), Cardinality(ShouldAdmit))

EvalInv == EvalTypeOK /\ SchemaInv /\ ProvenanceFrom0005 /\ TraceInv /\ StoredInv

Rows == [id : MemIds \cup Candidates, empty : BOOLEAN]
Events == [mem : MemIds \cup Candidates, altered : BOOLEAN]

(* From revision 0006 on nobody may change or delete an audit row: the     *)
(* role has no privilege, an UPDATE or DELETE of the owner a trigger.      *)
LEMMA AuditIsClosed ==
  ASSUME EvalInv, version >= 6
  PROVE  ~ MayAlterAudit("UPDATE") /\ ~ MayAlterAudit("DELETE")
<1>0. version \in 0..9
  BY DEF EvalInv, EvalTypeOK, Head
<1>1. db.triggers = {"UPDATE", "DELETE"} /\ db.grants["memory_audit"] \cap {"UPDATE", "DELETE"} = {}
  <2>1. db.grants = GrantsAt(version)
    BY SchemaAtFields DEF EvalInv, SchemaInv
  <2>2. db.triggers = IF version >= 6 THEN {"UPDATE", "DELETE"} ELSE {}
    BY SchemaAtFields DEF EvalInv, SchemaInv
  <2>3. "memory_audit" \in Tables
    BY DEF Tables
  <2>4. GrantsAt(version)["memory_audit"] \in {{}, {"SELECT", "INSERT"}}
    BY <1>0, <2>3 DEF GrantsAt
  <2> QED  BY <2>1, <2>2, <2>4
<1> QED  BY <1>1 DEF MayAlterAudit, Allowed

LEMMA NonemptyFrom0005 ==
  ASSUME EvalInv, version >= 5
  PROVE  db.nonempty
BY SchemaAtFlags DEF EvalInv, EvalTypeOK, SchemaInv

LEMMA InsertRows ==
  ASSUME EvalInv, NEW c \in MemIds \cup Candidates, NEW e \in BOOLEAN, InsertMemory(c, e)
  PROVE  /\ version' = version /\ db' = db
         /\ mems' = mems \cup {[id |-> c, empty |-> e]}
         /\ audits' = audits \cup {[mem |-> c, altered |-> FALSE]}
         /\ mems' \subseteq Rows /\ audits' \subseteq Events
         /\ ProvenanceFrom0005'
<1>1. /\ version' = version /\ db' = db
      /\ mems' = mems \cup {[id |-> c, empty |-> e]}
      /\ audits' = audits \cup {[mem |-> c, altered |-> FALSE]}
      /\ db.nonempty => ~ e
  BY DEF InsertMemory
<1>2. mems' \subseteq Rows /\ audits' \subseteq Events
  <2>1. [id |-> c, empty |-> e] \in Rows /\ [mem |-> c, altered |-> FALSE] \in Events
    BY DEF Rows, Events
  <2> QED  BY <1>1, <2>1 DEF EvalInv, EvalTypeOK, Rows, Events
<1>3. ProvenanceFrom0005'
  BY <1>1, NonemptyFrom0005 DEF EvalInv, ProvenanceFrom0005
<1> QED  BY <1>1, <1>2, <1>3

LEMMA RejectRows ==
  ASSUME EvalInv, NEW c \in Candidates, RejectedByGate(c)
  PROVE  /\ UNCHANGED <<version, db, mems>>
         /\ audits' = audits \cup {[mem |-> c, altered |-> FALSE]}
         /\ audits' \subseteq Events
<1>1. [mem |-> c, altered |-> FALSE] \in Events
  BY DEF Events
<1> QED  BY <1>1 DEF RejectedByGate, EvalInv, EvalTypeOK, Events

(* What requests and the owner do to rows while no revision changes: they  *)
(* add nothing of the run's, and take nothing away from 0006 on that has   *)
(* an audit row.                                                           *)
LEMMA TrafficRows ==
  ASSUME EvalInv, Traffic
  PROVE  /\ version' = version /\ db' = db
         /\ mems' \subseteq Rows /\ audits' \subseteq Events
         /\ ProvenanceFrom0005'
         /\ \A m \in mems' : m.id \in Candidates => m \in mems
         /\ \A a \in audits' : a.mem \in Candidates => \E b \in audits : b.mem = a.mem
         /\ version >= 6 =>
              /\ audits \subseteq audits'
              /\ \A m \in mems, a \in audits : a.mem = m.id => m \in mems'
<1>0. mems \subseteq Rows /\ audits \subseteq Events
  BY DEF EvalInv, EvalTypeOK, Rows, Events
<1>1. ASSUME NEW m \in MemIds, NEW e \in BOOLEAN, InsertMemory(m, e)
      PROVE  /\ \A n \in mems' : n.id \in Candidates => n \in mems
             /\ \A a \in audits' : a.mem \in Candidates => \E b \in audits : b.mem = a.mem
             /\ audits \subseteq audits' /\ mems \subseteq mems'
  BY <1>1, InsertRows, SuiteAssumption
<1>2. CASE StoreMemory
  <2>1. PICK m \in MemIds, e \in BOOLEAN : InsertMemory(m, e)
    BY <1>2 DEF StoreMemory
  <2> QED  BY <1>1, <2>1, InsertRows
<1>3. CASE DeleteMemory
  BY <1>0, <1>3 DEF DeleteMemory, EvalInv, ProvenanceFrom0005
<1>4. CASE AlterAudit
  <2>1. UNCHANGED <<version, db, mems>> /\ ProvenanceFrom0005'
    BY <1>4 DEF AlterAudit, EvalInv, ProvenanceFrom0005
  <2>2. PICK a \in audits :
          \/ /\ MayAlterAudit("UPDATE")
             /\ audits' = (audits \ {a}) \cup {[a EXCEPT !.altered = TRUE]}
          \/ /\ MayAlterAudit("DELETE")
             /\ audits' = audits \ {a}
    BY <1>4 DEF AlterAudit
  <2>3. [a EXCEPT !.altered = TRUE] \in Events /\ [a EXCEPT !.altered = TRUE].mem = a.mem
    BY <1>0, <2>2 DEF Events
  <2>4. version < 6
    BY <2>2, AuditIsClosed DEF EvalInv, EvalTypeOK, Head
  <2>5. audits' \subseteq Events /\ \A b \in audits' : \E d \in audits : b.mem = d.mem
    BY <1>0, <2>2, <2>3
  <2>6. ~ (version >= 6)
    BY <2>4 DEF EvalInv, EvalTypeOK, Head
  <2> QED  BY <1>0, <2>1, <2>5, <2>6
<1> QED  BY <1>2, <1>3, <1>4 DEF Traffic

LEMMA MigrateRows ==
  ASSUME EvalInv, Migrate
  PROVE  /\ version' \in 0..Head /\ SchemaInv'
         /\ mems' \subseteq mems /\ audits' \subseteq audits
         /\ ProvenanceFrom0005'
         /\ version' >= 2 => mems' = mems /\ audits' = audits
<1>0. version \in 0..Head /\ db = SchemaAt(version)
  BY DEF EvalInv, EvalTypeOK, SchemaInv
<1>1. CASE Upgrade
  <2>1. PICK target \in (version + 1)..Head :
          /\ version < 5 /\ target >= 5 => \A m \in mems : ~ m.empty
          /\ version' = target
          /\ db' = Upgraded(db, version, target)
          /\ UNCHANGED <<mems, audits>>
    BY <1>1 DEF Upgrade
  <2>2. target \in version..Head /\ target \in 0..Head
    BY <1>0 DEF Head
  <2>3. db' = SchemaAt(target)
    BY <1>0, <2>1, <2>2, UpgradedAt
  <2>4. ProvenanceFrom0005'
    BY <1>0, <2>1, <2>2 DEF EvalInv, ProvenanceFrom0005, Head
  <2> QED  BY <2>1, <2>2, <2>3, <2>4 DEF SchemaInv
<1>2. CASE Downgrade
  <2>1. PICK target \in 0..(version - 1) :
          /\ version' = target
          /\ db' = Downgraded(db, version, target)
          /\ IF target < 2 THEN mems' = {} /\ audits' = {} ELSE UNCHANGED <<mems, audits>>
    BY <1>2 DEF Downgrade
  <2>2. target \in 0..version /\ target \in 0..Head
    BY <1>0 DEF Head
  <2>3. db' = SchemaAt(target)
    BY <1>0, <2>1, <2>2, DowngradedAt
  <2>4. ProvenanceFrom0005'
    BY <1>0, <2>1, <2>2 DEF EvalInv, ProvenanceFrom0005, Head
  <2>5. target >= 2 => mems' = mems /\ audits' = audits
    BY <2>1, <2>2 DEF Head
  <2>6. mems' \subseteq mems /\ audits' \subseteq audits
    BY <2>1
  <2> QED  BY <2>1, <2>2, <2>3, <2>4, <2>5, <2>6 DEF SchemaInv
<1> QED  BY <1>1, <1>2 DEF Migrate

-----------------------------------------------------------------------------
LEMMA InitEval == EvalInit => EvalInv
<1> SUFFICES ASSUME EvalInit PROVE EvalInv
  OBVIOUS
<1>1. SchemaInv
  BY EmptyAt DEF EvalInit, Init, SchemaInv
<1>2. EvalTypeOK
  <2>1. db \in Schemas
    BY <1>1, SchemaAtType DEF SchemaInv, EvalInit, Init, Head
  <2> QED  BY <2>1 DEF EvalTypeOK, EvalInit, Init, NoReport, Ratios, Head
<1>3. ProvenanceFrom0005 /\ TraceInv /\ StoredInv
  BY DEF EvalInit, Init, ProvenanceFrom0005, TraceInv, StoredInv, Reporting, Running, RunLeavesNoTrace
<1> QED  BY <1>1, <1>2, <1>3 DEF EvalInv

LEMMA MigrateEval ==
  ASSUME EvalInv, ~ Running, Migrate, UNCHANGED runVars
  PROVE  EvalInv'
<1>1. /\ SchemaInv' /\ ProvenanceFrom0005' /\ version' \in 0..Head
      /\ mems' \subseteq mems /\ audits' \subseteq audits
  BY MigrateRows
<1>2. EvalTypeOK'
  <2>1. db' \in Schemas
    BY <1>1, SchemaAtType DEF SchemaInv
  <2> QED  BY <1>1, <2>1 DEF EvalInv, EvalTypeOK, runVars
<1>3. TraceInv'
  BY <1>1 DEF EvalInv, TraceInv, Running, RunLeavesNoTrace, runVars
<1>4. StoredInv'
  BY DEF EvalInv, StoredInv, Reporting, Running, runVars
<1> QED  BY <1>1, <1>2, <1>3, <1>4 DEF EvalInv

LEMMA TrafficEval ==
  ASSUME EvalInv, Traffic, UNCHANGED runVars
  PROVE  EvalInv'
<1>1. /\ version' = version /\ db' = db
      /\ mems' \subseteq Rows /\ audits' \subseteq Events
      /\ ProvenanceFrom0005'
      /\ \A m \in mems' : m.id \in Candidates => m \in mems
      /\ \A a \in audits' : a.mem \in Candidates => \E b \in audits : b.mem = a.mem
  BY TrafficRows
<1>2. SchemaInv'
  BY <1>1 DEF EvalInv, SchemaInv
<1>3. EvalTypeOK'
  BY <1>1 DEF EvalInv, EvalTypeOK, Rows, Events, runVars
<1>4. TraceInv'
  BY <1>1 DEF EvalInv, TraceInv, Running, RunLeavesNoTrace, runVars
<1>5. StoredInv'
  <2> SUFFICES ASSUME Reporting, ranAt >= 6
               PROVE  /\ Stored' = labels
                      /\ \A m \in mems' : m.id \in Candidates => \E a \in audits' : a.mem = m.id
    BY DEF EvalInv, StoredInv, Reporting, runVars
  <2>1. version >= 6
    BY DEF EvalInv, TraceInv, Reporting, Running
  <2>2. /\ Stored = labels
        /\ \A m \in mems : m.id \in Candidates => \E a \in audits : a.mem = m.id
    BY DEF EvalInv, StoredInv
  <2>3. audits \subseteq audits' /\ \A m \in mems, a \in audits : a.mem = m.id => m \in mems'
    BY <2>1, TrafficRows
  <2>4. Stored' = Stored
    BY <1>1, <2>2, <2>3 DEF Stored
  <2> QED  BY <1>1, <2>2, <2>3, <2>4
<1> QED  BY <1>1, <1>2, <1>3, <1>4, <1>5 DEF EvalInv

LEMMA LoadEval ==
  ASSUME EvalInv, LoadSuite
  PROVE  EvalInv'
<1>1. EvalTypeOK' /\ SchemaInv' /\ ProvenanceFrom0005'
  BY DEF EvalInv, EvalTypeOK, SchemaInv, ProvenanceFrom0005, LoadSuite, vars
<1>2. TraceInv'
  BY DEF EvalInv, TraceInv, Running, RunLeavesNoTrace, LoadSuite, vars
<1>3. StoredInv'
  <2>1. Stored = {}
    BY DEF EvalInv, TraceInv, LoadSuite, Stored
  <2> QED  BY <2>1 DEF EvalInv, StoredInv, TraceInv, Reporting, Stored, LoadSuite, vars
<1> QED  BY <1>1, <1>2, <1>3 DEF EvalInv

(* Rows a run adds while it stores: its own, with their events. *)
LEMMA StoreEval ==
  ASSUME EvalInv, NEW c \in Candidates, StoreCandidate(c)
  PROVE  EvalInv'
<1>0. /\ phase = "storing" /\ c \in todo /\ todo' = todo \ {c}
      /\ UNCHANGED <<phase, suite, ranAt, found, report>>
  BY DEF StoreCandidate
<1>1. CASE Store(c) /\ labels' = labels \cup {c}
  <2>1. /\ version' = version /\ db' = db
        /\ mems' = mems \cup {[id |-> c, empty |-> FALSE]}
        /\ audits' = audits \cup {[mem |-> c, altered |-> FALSE]}
        /\ mems' \subseteq Rows /\ audits' \subseteq Events
        /\ ProvenanceFrom0005'
    BY <1>1, InsertRows DEF Store
  <2>2. SchemaInv'
    BY <2>1 DEF EvalInv, SchemaInv
  <2>3. EvalTypeOK'
    <3>1. labels' \subseteq Candidates \ todo'
      BY <1>0, <1>1 DEF EvalInv, EvalTypeOK
    <3>2. found' \subseteq [round : 1..2, query : Queries, hits : SUBSET labels']
      BY <1>0, <1>1 DEF EvalInv, EvalTypeOK
    <3> QED  BY <1>0, <2>1, <3>1, <3>2 DEF EvalInv, EvalTypeOK, Rows, Events
  <2>4. TraceInv'
    BY <1>0, <2>1 DEF EvalInv, TraceInv, Running, RunLeavesNoTrace
  <2>5. StoredInv'
    <3> DEFINE row == [id |-> c, empty |-> FALSE]
               event == [mem |-> c, altered |-> FALSE]
    <3>0. row.id = c /\ event.mem = c
      OBVIOUS
    <3> HIDE DEF row, event
    <3>1. Stored' = Stored \cup {c}
      <4>1. mems' = mems \cup {row}
        BY <2>1 DEF row
      <4> QED  BY <3>0, <4>1 DEF Stored
    <3>2. ASSUME \A m \in mems : m.id \in Candidates => \E a \in audits : a.mem = m.id
          PROVE  \A m \in mems' : m.id \in Candidates => \E a \in audits' : a.mem = m.id
      <4>1. mems' = mems \cup {row} /\ audits' = audits \cup {event}
        BY <2>1 DEF row, event
      <4> QED  BY <3>0, <3>2, <4>1
    <3> QED  BY <1>0, <1>1, <3>1, <3>2 DEF EvalInv, StoredInv, Reporting
  <2> QED  BY <2>1, <2>2, <2>3, <2>4, <2>5 DEF EvalInv
<1>2. CASE RejectedByGate(c) /\ UNCHANGED labels
  <2>1. /\ UNCHANGED <<version, db, mems>>
        /\ audits' = audits \cup {[mem |-> c, altered |-> FALSE]}
        /\ audits' \subseteq Events
    BY <1>2, RejectRows
  <2>2. SchemaInv' /\ ProvenanceFrom0005'
    BY <2>1 DEF EvalInv, SchemaInv, ProvenanceFrom0005
  <2>3. EvalTypeOK'
    BY <1>0, <1>2, <2>1 DEF EvalInv, EvalTypeOK, Events
  <2>4. TraceInv'
    BY <1>0, <2>1 DEF EvalInv, TraceInv, Running, RunLeavesNoTrace
  <2>5. StoredInv'
    BY <1>0, <1>2, <2>1 DEF EvalInv, StoredInv, Reporting, Stored
  <2> QED  BY <2>2, <2>3, <2>4, <2>5 DEF EvalInv
<1> QED  BY <1>1, <1>2 DEF StoreCandidate

LEMMA StoreRaisesEval ==
  ASSUME EvalInv, NEW c \in Candidates, StoreRaises(c)
  PROVE  EvalInv'
<1>0. /\ phase = "storing" /\ phase' = "cleanup"
      /\ UNCHANGED <<suite, ranAt, todo, labels, found, report>>
  BY DEF StoreRaises
<1>1. /\ version' = version /\ db' = db
      /\ mems' \subseteq Rows /\ audits' \subseteq Events
      /\ ProvenanceFrom0005'
  <2>1. CASE Store(c)
    BY <2>1, InsertRows DEF Store
  <2>2. CASE RejectedByGate(c)
    BY <2>2, RejectRows DEF EvalInv, EvalTypeOK, Rows, ProvenanceFrom0005
  <2>3. CASE UNCHANGED vars
    BY <2>3 DEF EvalInv, EvalTypeOK, Rows, Events, ProvenanceFrom0005, vars
  <2> QED  BY <2>1, <2>2, <2>3 DEF StoreRaises
<1>2. SchemaInv'
  BY <1>1 DEF EvalInv, SchemaInv
<1>3. EvalTypeOK'
  BY <1>0, <1>1 DEF EvalInv, EvalTypeOK, Rows, Events
<1>4. TraceInv'
  BY <1>0, <1>1 DEF EvalInv, TraceInv, Running, RunLeavesNoTrace
<1>5. StoredInv'
  BY <1>0 DEF EvalInv, StoredInv, Reporting
<1> QED  BY <1>1, <1>2, <1>3, <1>4, <1>5 DEF EvalInv

LEMMA QueryEval ==
  ASSUME EvalInv, RunQuery
  PROVE  EvalInv'
<1>0. UNCHANGED <<vars, suite, ranAt, todo, labels, report>>
  BY DEF RunQuery
<1>1. phase \in {"storing", "querying"} /\ phase' \in {"querying", "cleanup"}
  BY DEF RunQuery
<1>2. found' \subseteq [round : 1..2, query : Queries, hits : SUBSET labels]
  <2>1. PICK p \in Pending, hits \in SUBSET Stored :
          \/ hits \subseteq labels /\ found' = found \cup {[round |-> p[1], query |-> p[2], hits |-> hits]}
          \/ UNCHANGED found
    BY DEF RunQuery
  <2>2. p[1] \in 1..2 /\ p[2] \in Queries
    BY <2>1 DEF Pending, Rounds
  <2> QED  BY <2>1, <2>2 DEF EvalInv, EvalTypeOK
<1>3. EvalTypeOK' /\ SchemaInv' /\ ProvenanceFrom0005'
  BY <1>0, <1>1, <1>2 DEF EvalInv, EvalTypeOK, SchemaInv, ProvenanceFrom0005, vars
<1>4. TraceInv'
  BY <1>0, <1>1 DEF EvalInv, TraceInv, Running, RunLeavesNoTrace, vars
<1>5. StoredInv'
  BY <1>0, <1>1 DEF EvalInv, StoredInv, Reporting, Stored, vars
<1> QED  BY <1>3, <1>4, <1>5 DEF EvalInv

LEMMA RatioType ==
  \A n, d \in Nat : Ratio(n, d) \in Ratios
BY DEF Ratio, Ratios

LEMMA MetricsEval ==
  ASSUME EvalInv, ComputeMetrics
  PROVE  EvalInv'
<1>0. /\ phase = "querying" /\ phase' = "cleanup"
      /\ UNCHANGED <<vars, suite, ranAt, todo, labels, found>>
      /\ report' = [precision |-> Ratio(Cardinality(labels \cap ShouldAdmit), Cardinality(labels)),
                    recall |-> Ratio(Cardinality(labels \cap ShouldAdmit), Cardinality(ShouldAdmit)),
                    at_k |-> [r \in Rounds |-> Ratio(Cardinality(Matched(r)), Cardinality(Retrieved(r)))]]
  BY DEF ComputeMetrics
<1>1. /\ Cardinality(labels \cap ShouldAdmit) \in Nat /\ Cardinality(labels) \in Nat
      /\ Cardinality(ShouldAdmit) \in Nat
  BY SuiteAssumption, FS_Subset, FS_CardinalityType DEF EvalInv, EvalTypeOK
<1>2. ASSUME NEW r \in Rounds
      PROVE  Cardinality(Matched(r)) \in Nat /\ Cardinality(Retrieved(r)) \in Nat
  <2>1. Retrieved(r) \subseteq Queries \X Candidates
    <3>1. \A f \in found : {f.query} \X f.hits \subseteq Queries \X Candidates
      BY DEF EvalInv, EvalTypeOK
    <3> QED  BY <3>1 DEF Retrieved
  <2>2. Matched(r) \subseteq Retrieved(r)
    BY DEF Matched
  <2>3. IsFiniteSet(Queries \X Candidates)
    BY SuiteAssumption, FS_Product
  <2>4. IsFiniteSet(Retrieved(r)) /\ IsFiniteSet(Matched(r))
    BY <2>1, <2>2, <2>3, FS_Subset
  <2> QED  BY <2>4, FS_CardinalityType
<1>3. /\ report'.precision \in Ratios /\ report'.recall \in Ratios
      /\ \A i \in DOMAIN report'.at_k : report'.at_k[i] \in Ratios
  BY <1>0, <1>1, <1>2, RatioType
<1>4. EvalTypeOK' /\ SchemaInv' /\ ProvenanceFrom0005'
  BY <1>0, <1>3 DEF EvalInv, EvalTypeOK, SchemaInv, ProvenanceFrom0005, vars
<1>5. TraceInv'
  BY <1>0 DEF EvalInv, TraceInv, Running, RunLeavesNoTrace, vars
<1>6. StoredInv'
  BY <1>0 DEF EvalInv, StoredInv, Reporting, Stored, vars
<1> QED  BY <1>4, <1>5, <1>6 DEF EvalInv

(* From 0007 on the three tables are there: the clean up runs. *)
LEMMA CleanUpSucceeds ==
  ASSUME EvalInv, version >= 7
  PROVE  CleanUpRuns
<1>1. db.tables = Tables
  BY SchemaAtFields DEF EvalInv, EvalTypeOK, SchemaInv, TablesAt
<1> DEFINE order == <<"memory_audit", "memory_entity_links", "memories">>
<1>2. DOMAIN order = 1..3 /\ \A i \in 1..3 : order[i] \in Tables
  BY DEF Tables
<1>3. order[1] = "memory_audit" /\ \A i \in 1..3 : order[i] = "memories" => i = 3
  OBVIOUS
<1> HIDE DEF order
<1>4. \A i \in DOMAIN order : order[i] = "memories" => \E k \in 1..(i - 1) : order[k] = "memory_audit"
  BY <1>2, <1>3
<1>5. DeletesRun(order, TRUE)
  BY <1>1, <1>2, <1>4 DEF DeletesRun
<1> QED  BY <1>5 DEF CleanUpRuns, order

LEMMA CleanUpEval ==
  ASSUME EvalInv, CleanUp
  PROVE  EvalInv'
<1>0. /\ phase = "cleanup" /\ version' = version /\ db' = db /\ suite' = suite /\ ranAt' = ranAt
      /\ todo' = Candidates /\ labels' = {} /\ found' = {} /\ report' = NoReport
  BY DEF CleanUp, LocalsGone
<1>1. mems' \subseteq mems /\ audits' \subseteq audits /\ phase' \in {"raised", "returned", "dirty"}
  BY DEF CleanUp
<1>2. SchemaInv' /\ ProvenanceFrom0005'
  BY <1>0, <1>1 DEF EvalInv, SchemaInv, ProvenanceFrom0005
<1>3. EvalTypeOK'
  BY <1>0, <1>1 DEF EvalInv, EvalTypeOK, NoReport, Ratios
<1>4. TraceInv'
  <2>1. CASE CleanUpRuns
    <3>1. /\ mems' = {m \in mems : m.id \notin Candidates}
          /\ audits' = {a \in audits : a.mem \notin Candidates}
          /\ phase' \in {"raised", "returned"}
      BY <2>1 DEF CleanUp
    <3> QED  BY <3>1 DEF TraceInv, Running, RunLeavesNoTrace
  <2>2. CASE ~ CleanUpRuns
    <3>1. phase' = "dirty" /\ version = ranAt
      BY <1>0, <2>2 DEF CleanUp, EvalInv, TraceInv, Running
    <3>2. ~ (version >= 7)
      BY <2>2, CleanUpSucceeds
    <3> QED  BY <1>0, <3>1, <3>2 DEF EvalInv, EvalTypeOK, TraceInv, Running, RunLeavesNoTrace, Head
  <2> QED  BY <2>1, <2>2
<1>5. StoredInv'
  BY <1>1 DEF StoredInv, Reporting
<1> QED  BY <1>2, <1>3, <1>4, <1>5 DEF EvalInv

LEMMA EndEval ==
  ASSUME EvalInv, WriteReport \/ Lost
  PROVE  EvalInv'
<1>0. UNCHANGED vars /\ suite' = suite /\ ranAt' = ranAt
  BY DEF WriteReport, Lost
<1>1. CASE WriteReport
  <2>1. phase = "returned" /\ phase' \in {"raised", "written"} /\ UNCHANGED <<todo, labels, found, report>>
    BY <1>1 DEF WriteReport
  <2>2. EvalTypeOK' /\ SchemaInv' /\ ProvenanceFrom0005'
    BY <1>0, <2>1 DEF EvalInv, EvalTypeOK, SchemaInv, ProvenanceFrom0005, vars
  <2>3. TraceInv' /\ StoredInv'
    BY <1>0, <2>1 DEF EvalInv, TraceInv, StoredInv, Reporting, Running, RunLeavesNoTrace, vars
  <2> QED  BY <2>2, <2>3 DEF EvalInv
<1>2. CASE Lost
  <2>1. phase' = "lost" /\ todo' = Candidates /\ labels' = {} /\ found' = {} /\ report' = NoReport
    BY <1>2 DEF Lost, LocalsGone
  <2>2. EvalTypeOK' /\ SchemaInv' /\ ProvenanceFrom0005'
    BY <1>0, <2>1 DEF EvalInv, EvalTypeOK, SchemaInv, ProvenanceFrom0005, NoReport, Ratios, vars
  <2>3. TraceInv' /\ StoredInv'
    BY <1>0, <2>1 DEF EvalInv, TraceInv, StoredInv, Reporting, Running, RunLeavesNoTrace, vars
  <2> QED  BY <2>2, <2>3 DEF EvalInv
<1> QED  BY <1>1, <1>2

LEMMA NextEval == EvalInv /\ [EvalNext]_evalVars => EvalInv'
<1>1. ASSUME EvalInv, UNCHANGED evalVars
      PROVE  EvalInv'
  <2>1. EvalTypeOK' /\ SchemaInv' /\ ProvenanceFrom0005'
    BY <1>1 DEF EvalInv, EvalTypeOK, SchemaInv, ProvenanceFrom0005, evalVars, vars, runVars
  <2>2. TraceInv'
    BY <1>1 DEF EvalInv, TraceInv, Running, RunLeavesNoTrace, evalVars, vars, runVars
  <2>3. StoredInv'
    BY <1>1 DEF EvalInv, StoredInv, Reporting, Stored, evalVars, vars, runVars
  <2> QED  BY <2>1, <2>2, <2>3 DEF EvalInv
<1>2. ASSUME EvalInv, Run
      PROVE  EvalInv'
  BY <1>2, LoadEval, StoreEval, StoreRaisesEval, QueryEval, MetricsEval, CleanUpEval, EndEval DEF Run
<1> QED  BY <1>1, <1>2, MigrateEval, TrafficEval DEF EvalNext

LEMMA Invariance == EvalSpec => []EvalInv
BY InitEval, NextEval, PTL DEF EvalSpec

-----------------------------------------------------------------------------
(* The rows, the schema and the run stay well formed, for any suite. *)
THEOREM TypeCorrect == EvalSpec => []EvalTypeOK
<1>1. EvalInv => EvalTypeOK
  BY DEF EvalInv
<1> QED  BY <1>1, Invariance, PTL

(* Whatever upgrades and downgrades there have been, the schema is that of *)
(* a database upgraded from nothing: induction along each run of revisions. *)
THEOREM SchemaIsFresh == EvalSpec => []SchemaFollowsVersion
<1>1. EvalInv => SchemaFollowsVersion
  <2> SUFFICES ASSUME EvalInv PROVE SchemaFollowsVersion
    OBVIOUS
  <2>1. version \in 0..Head /\ db = SchemaAt(version)
    BY DEF EvalInv, EvalTypeOK, SchemaInv
  <2>2. 0 \in 0..Head
    BY DEF Head
  <2>3. Upgraded(SchemaAt(0), 0, version) = SchemaAt(version)
    BY <2>1, <2>2, UpgradedAt
  <2> QED  BY <2>1, <2>3, EmptyAt DEF SchemaFollowsVersion
<1> QED  BY <1>1, Invariance, PTL

(* At no revision does the application role reach a table without row      *)
(* level security.                                                         *)
THEOREM TenantsAreIsolated == EvalSpec => []ReachableTablesAreIsolated
<1>1. EvalInv => ReachableTablesAreIsolated
  <2> SUFFICES ASSUME EvalInv, NEW t \in Tables, db.grants[t] # {}
               PROVE  db.role /\ t \in db.isolated
    BY DEF ReachableTablesAreIsolated
  <2>1. version \in 0..Head /\ db = SchemaAt(version)
    BY DEF EvalInv, EvalTypeOK, SchemaInv
  <2>2. db.grants = GrantsAt(version) /\ db.isolated = TablesAt(version)
    BY <2>1, SchemaAtFields
  <2>3. version >= 3 /\ t \in TablesAt(version)
    BY <2>1, <2>2 DEF GrantsAt, Head
  <2> QED  BY <2>1, <2>2, <2>3, SchemaAtFlags
<1> QED  BY <1>1, Invariance, PTL

(* From 0005 on every memory has provenance, older rows included. *)
THEOREM ProvenanceHolds == EvalSpec => []ProvenanceFrom0005
<1>1. EvalInv => ProvenanceFrom0005
  BY DEF EvalInv
<1> QED  BY <1>1, Invariance, PTL

(* However a run ends, it leaves nothing behind. *)
THEOREM NoTrace == EvalSpec => []RunLeavesNoTrace
<1>1. EvalInv => RunLeavesNoTrace
  BY DEF EvalInv, TraceInv
<1> QED  BY <1>1, Invariance, PTL

(* The report counts the rows that are stored, for any suite and any       *)
(* traffic beside it.                                                      *)
THEOREM ReportIsTrue == EvalSpec => []ReportCountsWhatIsStored
<1>1. EvalInv => ReportCountsWhatIsStored
  <2> SUFFICES ASSUME EvalInv, phase = "cleanup", report # NoReport, ranAt >= 6
               PROVE  /\ report.precision = Ratio(Cardinality(Stored \cap ShouldAdmit), Cardinality(Stored))
                      /\ report.recall = Ratio(Cardinality(Stored \cap ShouldAdmit), Cardinality(ShouldAdmit))
                      /\ \A f \in found : f.hits \subseteq Stored
    BY DEF ReportCountsWhatIsStored
  <2>1. Stored = labels
    BY DEF EvalInv, StoredInv, Reporting
  <2>2. \A f \in found : f.hits \subseteq labels
    BY DEF EvalInv, EvalTypeOK
  <2> QED  BY <2>1, <2>2 DEF EvalInv, StoredInv
<1> QED  BY <1>1, Invariance, PTL

(* From 0006 on no step, of a request, of the owner, of a migration that   *)
(* stays there or of an evaluation run, removes or alters an audit row of  *)
(* a tenant, or the memory it speaks of.                                   *)
THEOREM HistoryGrows == EvalSpec => HistoryIsAppendOnly
<1>1. ASSUME EvalInv, [EvalNext]_evalVars
      PROVE  [version >= 6 /\ version' >= 6 =>
                \A a \in audits : a.mem \in MemIds =>
                  /\ a \in audits'
                  /\ {m \in mems : m.id = a.mem} \subseteq mems']_vars
  <2> SUFFICES ASSUME version >= 6, version' >= 6, NEW a \in audits, a.mem \in MemIds
               PROVE  a \in audits' /\ {m \in mems : m.id = a.mem} \subseteq mems'
    OBVIOUS
  <2>1. CASE mems \subseteq mems' /\ audits \subseteq audits'
    BY <2>1
  <2>2. CASE Migrate
    BY <1>1, <2>2, MigrateRows DEF Head
  <2>3. CASE Traffic
    BY <2>3, TrafficRows, <1>1
  <2>4. CASE Run
    <3>1. ASSUME NEW c \in Candidates, Store(c) \/ RejectedByGate(c)
          PROVE  mems \subseteq mems' /\ audits \subseteq audits'
      BY <1>1, <3>1, InsertRows, RejectRows DEF Store
    <3>2. CASE CleanUp
      BY <3>2, SuiteAssumption DEF CleanUp
    <3>3. CASE UNCHANGED vars
      BY <3>3, <2>1 DEF vars
    <3>4. CASE \E c \in Candidates : StoreCandidate(c) \/ StoreRaises(c)
      BY <2>1, <3>1, <3>3, <3>4 DEF StoreCandidate, StoreRaises
    <3> QED  BY <2>4, <3>2, <3>3, <3>4 DEF Run, LoadSuite, RunQuery, ComputeMetrics, WriteReport, Lost
  <2>5. CASE UNCHANGED evalVars
    BY <2>1, <2>5 DEF evalVars, vars
  <2> QED  BY <1>1, <2>2, <2>3, <2>4, <2>5 DEF EvalNext
<1> QED  BY <1>1, Invariance, PTL DEF EvalSpec, HistoryIsAppendOnly
=============================================================================
