-------------------------- MODULE FactStoreProofs --------------------------
(***************************************************************************)
(* Proofs about FactStore, for any keys, values, confidences and bounds:   *)
(* no fact is held with more confidence than it was stored with, none that *)
(* is active has faded away, one remark does not overturn one, and a merge *)
(* loses no confirmation.                                                  *)
(*                                                                         *)
(* The first invariants leave the counts of verifications open; the last   *)
(* part is about them.                                                     *)
(***************************************************************************)
EXTENDS FactStore, FiniteSetTheorems, TLAPS

Shape ==
  /\ alone \in BOOLEAN
  /\ tool \in Calls
  /\ at \in Places
  /\ batch \in Seq(Statement) /\ next \in Nat
  /\ at \in {"detect", "resolve", "promote"} => next \in DOMAIN batch
  /\ found \subseteq [key : Keys, conf : Percent]
  /\ DOMAIN snap \subseteq Keys
  /\ \A k \in DOMAIN snap : snap[k].fresh \in Percent
  /\ said \in [Keys -> [Values -> Percent]]
  /\ trust \in [Keys -> [conf : Percent, blows : Nat]]

(* Only a row that was never stored says nothing. *)
Named ==
  \A k \in Keys : facts[k].value = NoValue =>
    facts[k].conf = 0 /\ facts[k].status # "active"

(* What a contradiction will leave of the row found is honest, whatever    *)
(* has been written to the row since.                                      *)
FoundHonest ==
  /\ at # "resolve" => found = {}
  /\ \A f \in found :
       /\ facts[f.key].value # NoValue
       /\ Of(70, f.conf) <= said[f.key][facts[f.key].value]

(* A row only gets fresher while its decay is worked out. *)
FreshSince ==
  at = "fading" => \A k \in DOMAIN snap : snap[k].fresh <= facts[k].fresh

SafeInv == Named /\ HonestConfidence /\ FoundHonest /\ FreshSince /\ ActiveFresh

(* Alone, consolidation finds the rows as it left them. *)
Alone ==
  alone =>
    /\ tool = Rest \/ at = "idle"
    /\ \A f \in found : f.conf = facts[f.key].conf

Weighing == at \in {"detect", "resolve"}
(* What the contradictions of a batch have left of what was believed. *)
Steady ==
  alone /\ (Weighing \/ at = "promote") => \A k \in Keys :
    /\ trust[k].blows = 0 => facts[k].conf >= trust[k].conf
    /\ trust[k].blows = 0 /\ Weighing => facts[k].conf = trust[k].conf
    /\ trust[k].blows = 1 =>
         \E s \in Range(batch) :
           facts[k].conf >= Penalised(s.conf, trust[k].conf)
Rows == \E C : facts \in [Keys -> Row(C)]
TypeInv == Rows /\ Shape
-----------------------------------------------------------------------------
(* Hundredths, of any number. *)
LEMMA Hundredths ==
  ASSUME NEW x \in Nat, NEW y \in Nat, x <= y
  PROVE  /\ x \div 100 \in Nat /\ x \div 100 <= y \div 100
         /\ \A n \in Nat : y <= n * 100 => x \div 100 <= n
OBVIOUS

LEMMA OfBounds ==
  ASSUME NEW p \in 0..100, NEW n \in 0..100
  PROVE  Of(p, n) \in 0..100 /\ Of(p, n) <= n
<1>1. n * p \in Nat /\ n * p <= n * 100
  OBVIOUS
<1> DEFINE x == n * p
<1> HIDE DEF x
<1>2. x \in Nat /\ x <= n * 100
  BY <1>1 DEF x
<1>3. x \div 100 \in Nat /\ x \div 100 <= n
  BY <1>2, Hundredths
<1>4. Of(p, n) = x \div 100
  BY DEF Of, x
<1> QED BY <1>3, <1>4

LEMMA OfMonotone ==
  ASSUME NEW p \in 0..100, NEW m \in 0..100, NEW n \in 0..100, m <= n
  PROVE  Of(p, m) <= Of(p, n)
<1>1. m * p <= n * p /\ m * p \in Nat /\ n * p \in Nat
  OBVIOUS
<1> DEFINE x == m * p
           y == n * p
<1> HIDE DEF x, y
<1>2. x \in Nat /\ y \in Nat /\ x <= y
  BY <1>1 DEF x, y
<1>3. x \div 100 <= y \div 100
  BY <1>2, Hundredths
<1>4. Of(p, m) = x \div 100 /\ Of(p, n) = y \div 100
  BY DEF Of, x, y
<1> QED BY <1>3, <1>4

(* What resolve leaves is at most seven tenths. *)
LEMMA PenalisedBounds ==
  ASSUME NEW c \in Percent, NEW old \in Percent
  PROVE  /\ Penalised(c, old) \in Percent
         /\ Penalised(c, old) <= Of(70, old)
<1>0. 70 \in 0..100 /\ 40 \in 0..100 /\ old \in 0..100
  BY DEF Percent
<1>1. Of(70, old) \in 0..100 /\ Of(40, old) \in 0..100
  BY <1>0, OfBounds
<1>2. Of(40, old) <= Of(70, old)
  BY DEF Of, Percent
<1> QED BY <1>1, <1>2 DEF Penalised, Percent

LEMMA StatementFits ==
  ASSUME Shape, at \in {"detect", "resolve", "promote"}
  PROVE  /\ Fact \in Statement /\ Fact \in Range(batch)
         /\ Fact.key \in Keys /\ Fact.value \in Values /\ Fact.conf \in Percent
         /\ Fact.conf >= 31
<1>1. next \in DOMAIN batch /\ batch \in Seq(Statement)
  BY DEF Shape
<1>2. Fact \in Statement
  BY <1>1 DEF Fact
<1>3. Fact \in Range(batch)
  BY <1>1 DEF Fact, Range
<1>4. Fact.key \in Keys /\ Fact.value \in Values /\ Fact.conf \in Claimed
  BY <1>2 DEF Statement
<1>5. Fact.conf \in 31..100
  BY <1>4, FactStoreAssumption
<1> QED BY <1>2, <1>3, <1>4, <1>5 DEF Percent

(* What a write does to the rows, whoever writes. *)
LEMMA StoreRow ==
  ASSUME NEW k \in Keys, NEW v \in Values, NEW c \in Percent,
         Rows, said \in [Keys -> [Values -> Percent]], Store(k, v, c)
  PROVE  /\ Rows' /\ said' \in [Keys -> [Values -> Percent]]
         /\ facts' = [facts EXCEPT ![k] = Upserted(facts[k], v, c)]
         /\ facts'[k] = Upserted(facts[k], v, c)
         /\ \A j \in Keys \ {k} : facts'[j] = facts[j]
         /\ \A j \in Keys, w \in Values : said[j][w] <= said'[j][w]
         /\ c <= said'[k][v]
<1>1. PICK C : facts \in [Keys -> Row(C)]
  BY DEF Rows
<1> DEFINE D == C \cup {facts[k].count + 1}
<1>2. facts' = [facts EXCEPT ![k] = Upserted(facts[k], v, c)]
  BY DEF Store
<1>3. facts[k] \in Row(C) /\ Upserted(facts[k], v, c) \in Row(D)
  <2>1. facts[k] \in Row(C)
    BY <1>1
  <2> QED BY <2>1 DEF Row, Upserted, Percent, Statuses
<1>4. \A j \in Keys : facts[j] \in Row(D)
  BY <1>1 DEF Row
<1>5. facts' \in [Keys -> Row(D)]
  BY <1>1, <1>2, <1>3, <1>4
<1>6. Rows'
  BY <1>5 DEF Rows
<1>7. /\ said' \in [Keys -> [Values -> Percent]]
      /\ \A j \in Keys, w \in Values : said[j][w] <= said'[j][w]
      /\ c <= said'[k][v]
  <2> DEFINE best == IF c > said[k][v] THEN c ELSE said[k][v]
  <2>1. said[k] \in [Values -> Percent] /\ said[k][v] \in Percent
    OBVIOUS
  <2>2. best \in Percent /\ said[k][v] <= best /\ c <= best
    BY <2>1 DEF Percent
  <2>3. said' = [said EXCEPT ![k] = [said[k] EXCEPT ![v] = best]]
    BY DEF Store
  <2>4. /\ said'[k] = [said[k] EXCEPT ![v] = best]
        /\ \A j \in Keys \ {k} : said'[j] = said[j]
    BY <2>3
  <2>5. \A j \in Keys, w \in Values : said[j][w] \in Percent
    OBVIOUS
  <2> HIDE DEF best
  <2>6. said'[k] \in [Values -> Percent]
    BY <2>1, <2>2, <2>4
  <2>7. said' \in [Keys -> [Values -> Percent]]
    BY <2>3, <2>6, <2>4
  <2> QED BY <2>1, <2>2, <2>4, <2>5, <2>7 DEF Percent
<1> QED BY <1>1, <1>2, <1>6, <1>7
-----------------------------------------------------------------------------
LEMMA CallFits ==
  ASSUME Shape, tool.at \in {"replacing", "storing"}
  PROVE  tool.key \in Keys /\ tool.value \in Values
BY DEF Shape, Calls, Rest

(* A row whose status alone changes is still a row. *)
LEMMA MarkedRow ==
  ASSUME NEW C, NEW r \in Row(C), NEW st \in Statuses
  PROVE  /\ Marked(r, st) \in Row(C)
         /\ Marked(r, st).status = st /\ Marked(r, st).value = r.value
         /\ Marked(r, st).conf = r.conf /\ Marked(r, st).fresh = r.fresh
BY DEF Row, Marked

LEMMA FadedRow ==
  ASSUME NEW C, NEW r \in Row(C), NEW f \in Fades, NEW lost \in BOOLEAN
  PROVE  /\ Faded(r, f, lost) \in Row(C)
         /\ Faded(r, f, lost).status = IF lost THEN "decayed" ELSE r.status
         /\ Faded(r, f, lost).value = r.value
         /\ Faded(r, f, lost).conf = Of(f, r.conf)
         /\ Faded(r, f, lost).fresh = Of(f, r.fresh)
<1>1. r.conf \in 0..100 /\ r.fresh \in 0..100 /\ r.status \in Statuses
  BY DEF Row, Percent
<1>2. f \in 0..100
  BY FactStoreAssumption
<1>3. Of(f, r.conf) \in Percent /\ Of(f, r.fresh) \in Percent
  BY <1>1, <1>2, OfBounds DEF Percent
<1>4. "decayed" \in Statuses
  BY DEF Statuses
<1> QED BY <1>1, <1>3, <1>4 DEF Row, Faded

LEMMA RowsKept == TypeInv /\ [Next]_vars => Rows'
<1> SUFFICES ASSUME TypeInv, [Next]_vars PROVE Rows'
  OBVIOUS
<1>1. PICK C : facts \in [Keys -> Row(C)]
  BY DEF TypeInv, Rows
<1>2. Shape
  BY DEF TypeInv
<1>3. facts' \in [Keys -> Row(C)] => Rows'
  BY DEF Rows
<1>4. ASSUME UNCHANGED facts PROVE Rows'
  BY <1>1, <1>3, <1>4
<1>5. ASSUME NEW k \in Keys, NEW v \in Values, NEW c \in Percent, Store(k, v, c)
      PROVE  Rows'
  BY <1>2, <1>5, StoreRow DEF TypeInv, Shape
<1>6. CASE Remember
  BY <1>5, <1>6 DEF Remember, Percent
<1>7. CASE StoreCorrection
  <2>1. tool.key \in Keys /\ tool.value \in Values
    BY <1>2, <1>7, CallFits DEF StoreCorrection
  <2> QED BY <1>5, <1>7, <2>1 DEF StoreCorrection, Percent
<1>8. CASE Promote
  <2>1. Fact.key \in Keys /\ Fact.value \in Values /\ Fact.conf \in Percent
    BY <1>2, <1>8, StatementFits DEF Promote
  <2> QED BY <1>4, <1>5, <1>8, <2>1 DEF Promote, files
<1>9. CASE Replace
  <2>1. facts[tool.key] \in Row(C)
    BY <1>1, <1>2, <1>9, CallFits DEF Replace
  <2>2. Marked(facts[tool.key], "contradicted") \in Row(C)
    BY <2>1, MarkedRow DEF Statuses
  <2> QED BY <1>1, <1>3, <1>9, <2>2 DEF Replace
<1>10. CASE Resolve
  <2>1. PICK f \in found :
          facts' = [facts EXCEPT ![f.key] =
                      IF Penalised(Fact.conf, f.conf) < 20
                      THEN Marked(facts[f.key], "contradicted")
                      ELSE [facts[f.key] EXCEPT !.conf = Penalised(Fact.conf, f.conf)]]
    BY <1>10 DEF Resolve
  <2>2. f.key \in Keys /\ f.conf \in Percent /\ Fact.conf \in Percent
    BY <1>2, <1>10, StatementFits DEF Shape, Resolve
  <2>3. Penalised(Fact.conf, f.conf) \in Percent
    BY <2>2, PenalisedBounds
  <2>4. facts[f.key] \in Row(C) /\ Marked(facts[f.key], "contradicted") \in Row(C)
    BY <1>1, <2>2, MarkedRow DEF Statuses
  <2>5. [facts[f.key] EXCEPT !.conf = Penalised(Fact.conf, f.conf)] \in Row(C)
    BY <2>3, <2>4 DEF Row
  <2> QED BY <1>1, <1>3, <2>1, <2>4, <2>5
<1>11. CASE Prune
  <2>1. \A k \in Keys : facts[k] \in Row(C) /\ Marked(facts[k], "expired") \in Row(C)
    BY <1>1, MarkedRow DEF Statuses
  <2> QED BY <1>1, <1>3, <1>4, <1>11, <2>1 DEF Prune
<1>12. CASE Fade
  <2>1. PICK f \in [DOMAIN snap -> Fades] :
          facts' = [k \in Keys |->
                      IF k \in DOMAIN snap
                      THEN Faded(facts[k], f[k], Of(f[k], snap[k].fresh) < 20)
                      ELSE facts[k]]
    BY <1>12 DEF Fade
  <2>2. ASSUME NEW k \in Keys, k \in DOMAIN snap
        PROVE  Faded(facts[k], f[k], Of(f[k], snap[k].fresh) < 20) \in Row(C)
    <3>1. f[k] \in Fades /\ facts[k] \in Row(C)
      BY <1>1, <2>2
    <3> DEFINE lost == Of(f[k], snap[k].fresh) < 20
    <3>2. lost \in BOOLEAN
      OBVIOUS
    <3> HIDE DEF lost
    <3>3. Faded(facts[k], f[k], lost) \in Row(C)
      BY <3>1, <3>2, FadedRow
    <3> QED BY <3>3 DEF lost
  <2> QED BY <1>1, <1>3, <2>1, <2>2
<1>13. CASE Merge
  <2>0. PICK S \in SUBSET DOMAIN snap : \E k \in S :
          facts' = [j \in Keys |->
                      IF j = k THEN [facts[j] EXCEPT !.count = @ + Added(S, k)]
                      ELSE IF j \in S THEN Marked(facts[j], "merged")
                      ELSE facts[j]]
    BY <1>13 DEF Merge
  <2>1. PICK k \in S :
          facts' = [j \in Keys |->
                      IF j = k THEN [facts[j] EXCEPT !.count = @ + Added(S, k)]
                      ELSE IF j \in S THEN Marked(facts[j], "merged")
                      ELSE facts[j]]
    BY <2>0
  <2> DEFINE D == C \cup {facts[k].count + Added(S, k)}
  <2>2. ASSUME NEW j \in Keys PROVE facts'[j] \in Row(D)
    <3>1. facts[j] \in Row(C) /\ Marked(facts[j], "merged") \in Row(C)
      BY <1>1, MarkedRow DEF Statuses
    <3>2. [facts[j] EXCEPT !.count = facts[j].count + Added(S, k)] \in
             Row(D \cup {facts[j].count + Added(S, k)})
      BY <3>1 DEF Row
    <3> QED BY <2>1, <3>1, <3>2 DEF Row
  <2>3. facts' \in [Keys -> Row(D)]
    BY <2>1, <2>2
  <2> QED BY <2>3 DEF Rows
<1>14. CASE UNCHANGED vars
  BY <1>4, <1>14 DEF vars
<1>15. CASE Correct \/ CallFails \/ Extract \/ Detect \/ DropBatch \/ ReadFading
            \/ ReadAlike \/ Finish \/ Restart
  BY <1>4, <1>15 DEF Correct, CallFails, Extract, Detect, DropBatch, ReadFading,
                     ReadAlike, ReadRows, Finish, Restart, files
<1> QED BY <1>6, <1>7, <1>8, <1>9, <1>10, <1>11, <1>12, <1>13, <1>14, <1>15 DEF Next

LEMMA AdvanceFits ==
  ASSUME Shape, at \in {"detect", "resolve"}, Advance, batch' = batch
  PROVE  /\ at' \in {"detect", "promote"} /\ next' \in Nat
         /\ next' \in DOMAIN batch'
<1>1. next \in 1..Len(batch) /\ Len(batch) \in Nat /\ DOMAIN batch = 1..Len(batch)
  BY DEF Shape
<1> QED BY <1>1 DEF Advance

(* The places where no statement is looked at. *)
LEMMA PlaceFits ==
  /\ {"idle", "detect", "resolve", "promote", "prune", "fade", "fading", "merge",
       "merging"} = Places
  /\ <<>> \in Seq(Statement)
  /\ Untouched \in [Keys -> [conf : Percent, blows : Nat]]
BY DEF Places, GC, Untouched, Percent

LEMMA ShapeKept == TypeInv /\ [Next]_vars => Shape'
<1> SUFFICES ASSUME TypeInv, [Next]_vars PROVE Shape'
  OBVIOUS
<1> USE DEF Shape
<1>1. PICK C : facts \in [Keys -> Row(C)]
  BY DEF TypeInv, Rows
<1>2. Shape
  BY DEF TypeInv
<1>3. \A k \in Keys : facts[k].conf \in Percent /\ facts[k].fresh \in Percent
  BY <1>1 DEF Row
<1>4. ASSUME NEW k \in Keys, NEW v \in Values, NEW c \in Percent, Store(k, v, c)
      PROVE  said' \in [Keys -> [Values -> Percent]]
  BY <1>2, <1>4, StoreRow DEF TypeInv
<1>5. 90 \in Percent /\ 100 \in Percent
  BY DEF Percent
<1>6. CASE Remember
  <2>1. said' \in [Keys -> [Values -> Percent]]
    BY <1>4, <1>5, <1>6 DEF Remember
  <2> QED BY <1>2, <1>6, <2>1 DEF Remember, CallBegins, steps
<1>7. CASE Correct
  <2>1. tool' \in [at : {"replacing", "storing"}, key : Keys, value : Values]
    BY <1>7 DEF Correct
  <2>2. tool' \in Calls
    BY <2>1 DEF Calls
  <2> QED BY <1>2, <1>7, <2>2 DEF Correct, CallBegins, steps, files
<1>8. CASE Replace
  <2>1. tool \in [at : {"replacing", "storing"}, key : Keys, value : Values]
    BY <1>2, <1>8 DEF Replace, Calls, Rest
  <2>2. tool' \in [at : {"replacing", "storing"}, key : Keys, value : Values]
    BY <1>8, <2>1 DEF Replace
  <2>3. tool' \in Calls
    BY <2>2 DEF Calls
  <2> QED BY <1>2, <1>8, <2>3 DEF Replace, steps
<1>9. CASE StoreCorrection
  <2>1. tool.key \in Keys /\ tool.value \in Values
    BY <1>2, <1>9, CallFits DEF StoreCorrection
  <2>2. said' \in [Keys -> [Values -> Percent]] /\ tool' \in Calls
    BY <1>4, <1>5, <1>9, <2>1 DEF StoreCorrection, Calls
  <2> QED BY <1>2, <1>9, <2>2 DEF StoreCorrection, steps
<1>10. CASE CallFails
  BY <1>2, <1>10 DEF CallFails, files, steps, Calls
<1>11. CASE Extract
  <2>1. PICK n \in 0..MaxBatch : batch' \in [1..n -> Statement]
    BY <1>11 DEF Extract
  <2>2. n \in Nat
    BY <2>1, FactStoreAssumption
  <2>3. batch' \in Seq(Statement) /\ DOMAIN batch' = 1..n
    BY <2>1, <2>2
  <2>4. batch' # <<>> => 1 \in DOMAIN batch'
    BY <2>2, <2>3
  <2>5. trust' \in [Keys -> [conf : Percent, blows : Nat]]
    BY <1>3, <1>11 DEF Extract
  <2>6. next' = 1 /\ at' = IF batch' = <<>> THEN "prune" ELSE "detect"
    BY <1>11 DEF Extract
  <2> QED BY <1>2, <1>11, <2>3, <2>4, <2>5, <2>6, PlaceFits DEF Extract, files
<1>12. CASE Detect
  <2>1. found' \subseteq [key : Keys, conf : Percent]
    BY <1>3, <1>12 DEF Detect, Active
  <2>2. at' \in Places /\ next' \in Nat /\ next' \in DOMAIN batch'
    BY <1>2, <1>12, AdvanceFits, PlaceFits DEF Detect
  <2> QED BY <1>2, <1>12, <2>1, <2>2 DEF Detect, files
<1>13. CASE Resolve
  <2>1. at' \in Places /\ next' \in Nat /\ next' \in DOMAIN batch'
    BY <1>2, <1>13, AdvanceFits, PlaceFits DEF Resolve
  <2>2. trust' \in [Keys -> [conf : Percent, blows : Nat]]
    BY <1>2, <1>13 DEF Resolve
  <2> QED BY <1>2, <1>13, <2>1, <2>2 DEF Resolve
<1>14. ASSUME BatchEnds
       PROVE  /\ at' = "prune" /\ at' \in Places /\ batch' \in Seq(Statement)
              /\ next' \in Nat /\ trust' \in [Keys -> [conf : Percent, blows : Nat]]
  BY <1>14, PlaceFits DEF BatchEnds
<1>15. CASE Promote
  <2>1. Fact.key \in Keys /\ Fact.value \in Values /\ Fact.conf \in Percent
    BY <1>2, <1>15, StatementFits DEF Promote
  <2>2. said' \in [Keys -> [Values -> Percent]]
    BY <1>2, <1>4, <1>15, <2>1 DEF Promote, files
  <2>3. CASE next < Len(batch)
    <3>1. next + 1 \in Nat /\ next + 1 \in DOMAIN batch
      BY <1>2, <1>15, <2>3 DEF Promote
    <3> QED BY <1>2, <1>15, <2>2, <2>3, <3>1 DEF Promote
  <2>4. CASE ~(next < Len(batch))
    <3>1. BatchEnds
      BY <1>15, <2>4 DEF Promote
    <3> QED BY <1>2, <1>14, <1>15, <2>2, <3>1 DEF Promote
  <2> QED BY <2>3, <2>4
<1>16. CASE DropBatch
  <2>1. BatchEnds
    BY <1>16 DEF DropBatch
  <2> QED BY <1>2, <1>14, <1>16, <2>1 DEF DropBatch, files
<1>17. CASE Prune
  <2>1. at' \in {"idle", "fade"}
    BY <1>17 DEF Prune
  <2> QED BY <1>2, <1>17, <2>1, PlaceFits DEF Prune
<1>18. ASSUME NEW from, NEW to \in {"fading", "merging"}, ReadRows(from, to)
       PROVE  Shape'
  <2>1. DOMAIN snap' \subseteq Keys /\ \A k \in DOMAIN snap' : snap'[k].fresh \in Percent
    BY <1>3, <1>18 DEF ReadRows, Active
  <2>2. at' \in {"fading", "merging"}
    BY <1>18 DEF ReadRows
  <2> QED BY <1>2, <1>18, <2>1, <2>2, PlaceFits DEF ReadRows, files
<1>19. CASE ReadFading \/ ReadAlike
  BY <1>18, <1>19 DEF ReadFading, ReadAlike
<1>20. CASE Fade
  BY <1>2, <1>20, PlaceFits DEF Fade
<1>21. CASE Merge
  <2>1. PICK S \in SUBSET DOMAIN snap : snap' = [j \in DOMAIN snap \ S |-> snap[j]]
    BY <1>21 DEF Merge
  <2>2. DOMAIN snap' \subseteq Keys /\ \A k \in DOMAIN snap' : snap'[k].fresh \in Percent
    BY <1>2, <2>1
  <2> QED BY <1>2, <1>21, <2>2 DEF Merge
<1>22. CASE Finish
  BY <1>2, <1>22, PlaceFits DEF Finish, files
<1>23. CASE Restart
  BY <1>2, <1>23, PlaceFits DEF Restart, files, Calls
<1>24. CASE UNCHANGED vars
  BY <1>2, <1>24 DEF vars, steps
<1> QED BY <1>6, <1>7, <1>8, <1>9, <1>10, <1>11, <1>12, <1>13, <1>15, <1>16, <1>17,
           <1>19, <1>20, <1>21, <1>22, <1>23, <1>24 DEF Next
-----------------------------------------------------------------------------
LEMMA AtMost ==
  ASSUME NEW a \in Percent, NEW b \in Percent, NEW c \in Percent, a <= b, b <= c
  PROVE  a <= c
BY DEF Percent

LEMMA RowParts ==
  ASSUME Rows, NEW k \in Keys
  PROVE  /\ facts[k].conf \in Percent /\ facts[k].fresh \in Percent
         /\ facts[k].value \in Values \cup {NoValue}
BY DEF Rows, Row

(* A write keeps the rows honest, if what it brings is sure enough for the *)
(* contradiction that is being weighed.                                    *)
LEMMA StoreSafe ==
  ASSUME TypeInv, SafeInv, NEW k \in Keys, NEW v \in Values, NEW c \in Percent,
         Store(k, v, c), c >= 70 \/ found = {}
  PROVE  /\ Named' /\ HonestConfidence' /\ ActiveFresh'
         /\ \A j \in Keys : facts[j].fresh <= facts'[j].fresh
         /\ \A f \in found : /\ facts'[f.key].value # NoValue
                             /\ Of(70, f.conf) <= said'[f.key][facts'[f.key].value]
<1>1. Rows /\ Shape /\ said \in [Keys -> [Values -> Percent]]
  BY DEF TypeInv, Shape
<1>2. /\ said' \in [Keys -> [Values -> Percent]]
      /\ facts'[k] = Upserted(facts[k], v, c)
      /\ \A j \in Keys \ {k} : facts'[j] = facts[j]
      /\ \A j \in Keys, w \in Values : said[j][w] <= said'[j][w]
      /\ c <= said'[k][v]
  BY <1>1, StoreRow
<1>3. /\ facts'[k].status = "active" /\ facts'[k].fresh = 100
      /\ facts'[k].value = IF c >= facts[k].conf THEN v ELSE facts[k].value
      /\ facts'[k].conf = IF c >= facts[k].conf THEN c ELSE facts[k].conf
  BY <1>2 DEF Upserted
<1>4. \A j \in Keys : /\ facts[j].conf \in Percent /\ facts[j].fresh \in Percent
                      /\ facts[j].value \in Values \cup {NoValue}
  BY <1>1, RowParts
<1>5. NoValue \notin Values
  BY FactStoreAssumption
<1>6. facts'[k].value \in Values
  <2>1. facts[k].value = NoValue => c >= facts[k].conf
    BY DEF SafeInv, Named, Percent
  <2> QED BY <1>3, <1>4, <2>1
<1>7. Named'
  BY <1>2, <1>5, <1>6 DEF SafeInv, Named
<1>8. facts'[k].conf <= said'[k][facts'[k].value]
  <2>1. CASE c >= facts[k].conf
    BY <1>2, <1>3, <2>1
  <2>2. CASE ~(c >= facts[k].conf)
    <3>1. facts[k].value \in Values /\ facts'[k].value = facts[k].value
          /\ facts'[k].conf = facts[k].conf
      BY <1>3, <1>6, <2>2
    <3>2. facts[k].conf <= said[k][facts[k].value]
      BY <1>5, <3>1 DEF SafeInv, HonestConfidence
    <3>3. said[k][facts[k].value] \in Percent /\ said'[k][facts[k].value] \in Percent
      BY <1>1, <1>2, <3>1
    <3>4. said[k][facts[k].value] <= said'[k][facts[k].value]
      BY <1>2, <3>1
    <3>5. facts[k].conf <= said'[k][facts[k].value]
      BY <1>4, <3>2, <3>3, <3>4, AtMost
    <3> QED BY <3>1, <3>5
  <2> QED BY <2>1, <2>2
<1>9. HonestConfidence'
  <2>1. ASSUME NEW j \in Keys, facts'[j].value # NoValue
        PROVE  facts'[j].conf <= said'[j][facts'[j].value]
    <3>1. CASE j = k
      BY <1>8, <3>1
    <3>2. CASE j # k
      <4>1. facts'[j] = facts[j] /\ facts[j].value \in Values
        BY <1>2, <1>4, <2>1, <3>2
      <4>2. facts[j].conf <= said[j][facts[j].value]
        BY <2>1, <4>1 DEF SafeInv, HonestConfidence
      <4>3. said[j][facts[j].value] \in Percent /\ said'[j][facts[j].value] \in Percent
        BY <1>1, <1>2, <4>1
      <4>4. said[j][facts[j].value] <= said'[j][facts[j].value]
        BY <1>2, <4>1
      <4>5. facts[j].conf <= said'[j][facts[j].value]
        BY <1>4, <4>2, <4>3, <4>4, AtMost
      <4> QED BY <4>1, <4>5
    <3> QED BY <3>1, <3>2
  <2> QED BY <2>1 DEF HonestConfidence
<1>10. ActiveFresh' /\ \A j \in Keys : facts[j].fresh <= facts'[j].fresh
  <2>1. facts'[k].fresh = 100 /\ \A j \in Keys : facts[j].fresh \in 0..100
    BY <1>3, <1>4 DEF Percent
  <2>2. ASSUME NEW j \in Keys
        PROVE  /\ facts'[j].status = "active" => facts'[j].fresh >= 20
               /\ facts[j].fresh <= facts'[j].fresh
    <3>1. CASE j = k
      BY <2>1, <3>1
    <3>2. CASE j # k
      BY <1>2, <2>1, <3>2 DEF SafeInv, ActiveFresh, Active
    <3> QED BY <3>1, <3>2
  <2> QED BY <2>2 DEF ActiveFresh, Active
<1>11. ASSUME NEW f \in found
       PROVE  /\ facts'[f.key].value # NoValue
              /\ Of(70, f.conf) <= said'[f.key][facts'[f.key].value]
  <2>1. f.key \in Keys /\ f.conf \in Percent
    BY <1>1 DEF Shape
  <2>2. facts[f.key].value # NoValue /\ Of(70, f.conf) <= said[f.key][facts[f.key].value]
    BY DEF SafeInv, FoundHonest
  <2>3. Of(70, f.conf) \in 0..100 /\ Of(70, f.conf) <= 70
    BY <2>1 DEF Of, Percent
  <2>4. facts[f.key].value \in Values
    BY <1>4, <2>1, <2>2
  <2>5. /\ said[f.key][facts[f.key].value] \in Percent
        /\ said'[f.key][facts[f.key].value] \in Percent
        /\ said'[k][v] \in Percent
        /\ said[f.key][facts[f.key].value] <= said'[f.key][facts[f.key].value]
    BY <1>1, <1>2, <2>1, <2>4
  <2>6. Of(70, f.conf) <= said'[f.key][facts[f.key].value]
    BY <2>2, <2>3, <2>5, AtMost DEF Percent
  <2>7. CASE f.key # k
    BY <1>2, <2>1, <2>2, <2>6, <2>7
  <2>8. CASE f.key = k
    <3>1. c >= 70
      OBVIOUS
    <3>2. CASE facts'[k].value = v
      BY <1>2, <1>5, <2>3, <2>5, <2>8, <3>1, <3>2 DEF Percent
    <3>3. CASE facts'[k].value = facts[k].value
      BY <2>2, <2>6, <2>8, <3>3
    <3> QED BY <1>3, <3>2, <3>3
  <2> QED BY <2>7, <2>8
<1> QED BY <1>7, <1>9, <1>10, <1>11

(* What only lowers a confidence, or hides a row, does no harm. *)
LEMMA LoweredSafe ==
  ASSUME TypeInv, SafeInv, said' = said,
         \A k \in Keys :
           /\ facts'[k].value = facts[k].value
           /\ facts'[k].conf \in Percent /\ facts'[k].conf <= facts[k].conf
           /\ facts'[k].status = "active" => facts[k].status = "active"
  PROVE  /\ Named' /\ HonestConfidence'
         /\ \A f \in found : /\ facts'[f.key].value # NoValue
                             /\ Of(70, f.conf) <= said'[f.key][facts'[f.key].value]
<1>1. Rows /\ Shape
  BY DEF TypeInv
<1>2. \A k \in Keys : facts[k].conf \in Percent
  BY <1>1, RowParts
<1>3. Named'
  BY <1>2 DEF SafeInv, Named, Percent
<1>4. HonestConfidence'
  <2>1. ASSUME NEW k \in Keys, facts'[k].value # NoValue
        PROVE  facts'[k].conf <= said'[k][facts'[k].value]
    <3>1. facts[k].value \in Values
      BY <1>1, <2>1, RowParts
    <3>2. said[k][facts[k].value] \in Percent
      BY <1>1, <3>1 DEF Shape
    <3>3. facts[k].conf <= said[k][facts[k].value]
      BY <2>1 DEF SafeInv, HonestConfidence
    <3> QED BY <1>2, <3>2, <3>3, AtMost
  <2> QED BY <2>1 DEF HonestConfidence
<1>5. \A f \in found : f.key \in Keys
  BY <1>1 DEF Shape
<1> QED BY <1>3, <1>4, <1>5 DEF SafeInv, FoundHonest

LEMMA SafeKept == TypeInv /\ SafeInv /\ [Next]_vars => SafeInv'
<1> SUFFICES ASSUME TypeInv, SafeInv, [Next]_vars PROVE SafeInv'
  OBVIOUS
<1>1. Rows /\ Shape
  BY DEF TypeInv
<1>2. \A k \in Keys : /\ facts[k].conf \in Percent /\ facts[k].fresh \in Percent
                      /\ facts[k].value \in Values \cup {NoValue}
  BY <1>1, RowParts
<1>3. PICK C : facts \in [Keys -> Row(C)]
  BY <1>1 DEF Rows
<1>4. 90 \in Percent /\ 100 \in Percent
  BY DEF Percent
<1>5. ASSUME UNCHANGED <<facts, said>>,
             found' = {} \/ UNCHANGED <<found, at>>,
             at' = "fading" => UNCHANGED <<at, snap>>
      PROVE  SafeInv'
  BY <1>5 DEF SafeInv, Named, HonestConfidence, FoundHonest, FreshSince, ActiveFresh,
              Active
<1>6. ASSUME NEW k \in Keys, NEW v \in Values, NEW c \in Percent, Store(k, v, c),
             c >= 70 \/ found = {}, UNCHANGED <<found, snap>>,
             at' = "fading" => at = "fading", at' # "resolve" => at # "resolve"
      PROVE  SafeInv'
  <2>1. /\ Named' /\ HonestConfidence' /\ ActiveFresh'
        /\ \A j \in Keys : facts[j].fresh <= facts'[j].fresh
        /\ \A f \in found : /\ facts'[f.key].value # NoValue
                            /\ Of(70, f.conf) <= said'[f.key][facts'[f.key].value]
    BY <1>6, StoreSafe
  <2>2. FoundHonest'
    BY <1>6, <2>1 DEF SafeInv, FoundHonest
  <2>3. FreshSince'
    <3>1. Rows'
      BY <1>1, <1>6, StoreRow DEF Shape
    <3>2. \A j \in Keys : facts'[j].fresh \in Percent
      BY <3>1 DEF Rows, Row
    <3>3. ASSUME at' = "fading", NEW j \in DOMAIN snap
          PROVE  snap[j].fresh <= facts'[j].fresh
      <4>1. j \in Keys /\ snap[j].fresh \in Percent
        BY <1>1, <3>3 DEF Shape
      <4>2. snap[j].fresh <= facts[j].fresh
        BY <1>6, <3>3 DEF SafeInv, FreshSince
      <4> QED BY <1>2, <2>1, <3>2, <4>1, <4>2, AtMost
    <3> QED BY <1>6, <3>3 DEF FreshSince
  <2> QED BY <2>1, <2>2, <2>3 DEF SafeInv
<1>7. CASE Remember
  BY <1>4, <1>6, <1>7 DEF Remember, CallBegins, steps
<1>8. CASE StoreCorrection
  <2>1. tool.key \in Keys /\ tool.value \in Values
    BY <1>1, <1>8, CallFits DEF StoreCorrection
  <2> QED BY <1>4, <1>6, <1>8, <2>1 DEF StoreCorrection, steps
<1>9. CASE Promote
  <2>1. Fact.key \in Keys /\ Fact.value \in Values /\ Fact.conf \in Percent
    BY <1>1, <1>9, StatementFits DEF Promote
  <2>2. found = {} /\ at = "promote" /\ at' \in {"promote", "prune"}
        /\ UNCHANGED <<found, snap>>
    BY <1>9 DEF Promote, BatchEnds, SafeInv, FoundHonest
  <2>3. CASE Store(Fact.key, Fact.value, Fact.conf)
    BY <1>6, <2>1, <2>2, <2>3
  <2>4. CASE UNCHANGED files
    BY <1>5, <2>2, <2>4 DEF files
  <2> QED BY <1>9, <2>3, <2>4 DEF Promote
(* Rows that are only marked. *)
<1>10. ASSUME said' = said, UNCHANGED <<found, snap>>,
              at' = "resolve" <=> at = "resolve", at' = "fading" => at = "fading",
              \A k \in Keys :
                /\ facts'[k].value = facts[k].value /\ facts'[k].conf = facts[k].conf
                /\ facts'[k].fresh = facts[k].fresh
                /\ facts'[k].status = "active" => facts[k].status = "active"
       PROVE  SafeInv'
  <2>1. /\ Named' /\ HonestConfidence'
        /\ \A f \in found : /\ facts'[f.key].value # NoValue
                            /\ Of(70, f.conf) <= said'[f.key][facts'[f.key].value]
    <3>1. \A k \in Keys : facts'[k].conf \in Percent /\ facts'[k].conf <= facts[k].conf
      BY <1>2, <1>10 DEF Percent
    <3> QED BY <1>10, <3>1, LoweredSafe
  <2>2. FoundHonest'
    BY <1>10, <2>1 DEF SafeInv, FoundHonest
  <2>3. FreshSince' /\ ActiveFresh'
    BY <1>1, <1>10 DEF SafeInv, FreshSince, ActiveFresh, Active, Shape
  <2> QED BY <2>1, <2>2, <2>3 DEF SafeInv
<1>11. CASE Replace
  <2>1. tool.key \in Keys /\ facts[tool.key] \in Row(C)
    BY <1>1, <1>3, <1>11, CallFits DEF Replace
  <2>2. facts' = [facts EXCEPT ![tool.key] = Marked(facts[tool.key], "contradicted")]
    BY <1>11 DEF Replace
  <2>3. "contradicted" \in Statuses
    BY DEF Statuses
  <2>4. \A k \in Keys :
          /\ facts'[k].value = facts[k].value /\ facts'[k].conf = facts[k].conf
          /\ facts'[k].fresh = facts[k].fresh
          /\ facts'[k].status = "active" => facts[k].status = "active"
    BY <1>3, <2>1, <2>2, <2>3, MarkedRow
  <2> QED BY <1>10, <1>11, <2>4 DEF Replace, steps
<1>12. CASE Prune
  <2>1. \A k \in Keys : facts'[k] \in {facts[k], Marked(facts[k], "expired")}
    BY <1>3, <1>12 DEF Prune
  <2>2. \A k \in Keys :
          /\ facts'[k].value = facts[k].value /\ facts'[k].conf = facts[k].conf
          /\ facts'[k].fresh = facts[k].fresh
          /\ facts'[k].status = "active" => facts[k].status = "active"
    BY <1>3, <2>1, MarkedRow DEF Statuses
  <2> QED BY <1>10, <1>12, <2>2 DEF Prune
<1>13. CASE Merge
  <2>0. PICK S \in SUBSET DOMAIN snap : \E k \in S :
          /\ facts' = [j \in Keys |->
                         IF j = k THEN [facts[j] EXCEPT !.count = @ + Added(S, k)]
                         ELSE IF j \in S THEN Marked(facts[j], "merged")
                         ELSE facts[j]]
          /\ snap' = [j \in DOMAIN snap \ S |-> snap[j]]
    BY <1>13 DEF Merge
  <2>1. PICK n :
          \A j \in Keys : facts'[j] \in {[facts[j] EXCEPT !.count = n], facts[j],
                                         Marked(facts[j], "merged")}
    <3>1. PICK k \in S :
            facts' = [j \in Keys |->
                         IF j = k THEN [facts[j] EXCEPT !.count = @ + Added(S, k)]
                         ELSE IF j \in S THEN Marked(facts[j], "merged")
                         ELSE facts[j]]
      BY <2>0
    <3>2. \A j \in Keys :
            facts'[j] \in {[facts[j] EXCEPT !.count = facts[k].count + Added(S, k)],
                           facts[j], Marked(facts[j], "merged")}
      BY <3>1
    <3> QED BY <3>2
  <2>2. \A k \in Keys :
          /\ facts'[k].value = facts[k].value /\ facts'[k].conf = facts[k].conf
          /\ facts'[k].fresh = facts[k].fresh
          /\ facts'[k].status = "active" => facts[k].status = "active"
    <3>1. ASSUME NEW k \in Keys
          PROVE  \A r \in {[facts[k] EXCEPT !.count = n], facts[k],
                           Marked(facts[k], "merged")} :
                   /\ r.value = facts[k].value /\ r.conf = facts[k].conf
                   /\ r.fresh = facts[k].fresh
                   /\ r.status = "active" => facts[k].status = "active"
      BY <1>3 DEF Row, Marked
    <3> QED BY <2>1, <3>1
  <2>3. /\ Named' /\ HonestConfidence' /\ ActiveFresh'
        /\ FoundHonest' /\ FreshSince'
    <3>1. /\ Named' /\ HonestConfidence'
      <4>1. \A k \in Keys : facts'[k].conf \in Percent /\ facts'[k].conf <= facts[k].conf
        BY <1>2, <2>2 DEF Percent
      <4> QED BY <1>13, <2>2, <4>1, LoweredSafe DEF Merge
    <3>2. FoundHonest' /\ FreshSince' /\ ActiveFresh'
      BY <1>13, <2>2 DEF Merge, SafeInv, FoundHonest, FreshSince, ActiveFresh, Active
    <3> QED BY <3>1, <3>2
  <2> QED BY <2>3 DEF SafeInv
<1>14. CASE Fade
  <2>1. PICK f \in [DOMAIN snap -> Fades] :
          facts' = [k \in Keys |->
                      IF k \in DOMAIN snap
                      THEN Faded(facts[k], f[k], Of(f[k], snap[k].fresh) < 20)
                      ELSE facts[k]]
    BY <1>14 DEF Fade
  <2>2. ASSUME NEW k \in Keys
        PROVE  /\ facts'[k].value = facts[k].value
               /\ facts'[k].conf \in Percent /\ facts'[k].conf <= facts[k].conf
               /\ facts'[k].status = "active" =>
                    facts[k].status = "active" /\ facts'[k].fresh >= 20
    <3>1. CASE k \notin DOMAIN snap
      BY <1>2, <2>1, <3>1 DEF Percent, SafeInv, ActiveFresh, Active
    <3>2. CASE k \in DOMAIN snap
      <4> DEFINE lost == Of(f[k], snap[k].fresh) < 20
      <4>1. lost \in BOOLEAN /\ f[k] \in Fades /\ facts[k] \in Row(C)
        BY <1>3, <3>2
      <4>2. f[k] \in 0..100 /\ facts[k].conf \in 0..100 /\ facts[k].fresh \in 0..100
            /\ snap[k].fresh \in 0..100 /\ snap[k].fresh <= facts[k].fresh
        <5>1. f[k] \in 0..100
          <6>1. f[k] \in Fades
            BY <3>2
          <6>2. \A x \in Fades : x \in 0..100
            BY FactStoreAssumption
          <6> QED BY <6>1, <6>2
        <5>2. facts[k].conf \in 0..100 /\ facts[k].fresh \in 0..100
          BY <1>2 DEF Percent
        <5>3. snap[k].fresh \in 0..100
          BY <1>1, <3>2 DEF Shape, Percent
        <5>4. snap[k].fresh <= facts[k].fresh
          BY <1>14, <3>2 DEF Fade, SafeInv, FreshSince
        <5> QED BY <5>1, <5>2, <5>3, <5>4
      <4>3. /\ Of(f[k], facts[k].conf) \in 0..100
            /\ Of(f[k], facts[k].conf) <= facts[k].conf
            /\ Of(f[k], facts[k].fresh) \in 0..100 /\ Of(f[k], snap[k].fresh) \in 0..100
            /\ Of(f[k], snap[k].fresh) <= Of(f[k], facts[k].fresh)
        BY <4>2, OfBounds, OfMonotone
      <4> HIDE DEF lost
      <4>4. facts'[k] = Faded(facts[k], f[k], lost)
        BY <2>1, <3>2 DEF lost
      <4>5. /\ facts'[k].status = IF lost THEN "decayed" ELSE facts[k].status
            /\ facts'[k].value = facts[k].value
            /\ facts'[k].conf = Of(f[k], facts[k].conf)
            /\ facts'[k].fresh = Of(f[k], facts[k].fresh)
        BY <4>1, <4>4, FadedRow
      <4>6. ~lost => Of(f[k], facts[k].fresh) >= 20
        BY <4>3 DEF lost
      <4> QED BY <4>3, <4>5, <4>6 DEF Percent
    <3> QED BY <3>1, <3>2
  <2>3. Named' /\ HonestConfidence'
    BY <1>14, <2>2, LoweredSafe DEF Fade
  <2>4. FoundHonest' /\ FreshSince'
    BY <1>14 DEF Fade, SafeInv, FoundHonest, FreshSince
  <2>5. ActiveFresh'
    BY <2>2 DEF ActiveFresh, Active
  <2> QED BY <2>3, <2>4, <2>5 DEF SafeInv
<1>15. CASE Detect
  <2>1. UNCHANGED <<facts, said>> /\ at' # "fading"
    BY <1>15 DEF Detect, Advance, files
  <2>2. CASE found' = {}
    BY <1>5, <2>1, <2>2
  <2>3. CASE at' = "resolve" /\ \E k \in Active : found' = {[key |-> k, conf |-> facts[k].conf]}
    <3>1. PICK k \in Active : found' = {[key |-> k, conf |-> facts[k].conf]}
      BY <2>3
    <3>2. k \in Keys /\ facts[k].value \in Values /\ facts[k].value # NoValue
      BY <1>2 DEF Active, SafeInv, Named
    <3>3. /\ facts[k].conf <= said[k][facts[k].value]
          /\ said[k][facts[k].value] \in Percent
      BY <1>1, <3>2 DEF SafeInv, HonestConfidence, Shape
    <3>4. Of(70, facts[k].conf) \in Percent /\ Of(70, facts[k].conf) <= facts[k].conf
      BY <1>2, <3>2 DEF Of, Percent
    <3>5. Of(70, facts[k].conf) <= said[k][facts[k].value]
      BY <1>2, <3>2, <3>3, <3>4, AtMost
    <3>6. FoundHonest'
      <4>1. \A f \in found' : f.key = k /\ f.conf = facts[k].conf
        BY <3>1
      <4> QED BY <2>1, <2>3, <3>2, <3>5, <4>1 DEF FoundHonest
    <3> QED BY <2>1, <3>6 DEF SafeInv, Named, HonestConfidence, FreshSince, ActiveFresh,
                              Active
  <2> QED BY <1>15, <2>2, <2>3 DEF Detect
<1>16. CASE Resolve
  <2>1. PICK f \in found :
          facts' = [facts EXCEPT ![f.key] =
                      IF Penalised(Fact.conf, f.conf) < 20
                      THEN Marked(facts[f.key], "contradicted")
                      ELSE [facts[f.key] EXCEPT !.conf = Penalised(Fact.conf, f.conf)]]
    BY <1>16 DEF Resolve
  <2> DEFINE left == Penalised(Fact.conf, f.conf)
  <2>2. f.key \in Keys /\ f.conf \in Percent /\ Fact.conf \in Percent
    BY <1>1, <1>16, StatementFits DEF Shape, Resolve
  <2>3. left \in Percent /\ left <= Of(70, f.conf)
    BY <2>2, PenalisedBounds
  <2>4. /\ facts[f.key].value # NoValue /\ facts[f.key].value \in Values
        /\ Of(70, f.conf) <= said[f.key][facts[f.key].value]
    BY <1>2, <2>2 DEF SafeInv, FoundHonest
  <2>5. said[f.key][facts[f.key].value] \in Percent /\ Of(70, f.conf) \in Percent
    <3>1. said[f.key][facts[f.key].value] \in Percent
      BY <1>1, <2>2, <2>4 DEF Shape
    <3>2. Of(70, f.conf) \in Percent
      BY <2>2 DEF Of, Percent
    <3> QED BY <3>1, <3>2
  <2>6. left <= said[f.key][facts[f.key].value]
    BY <2>3, <2>4, <2>5, AtMost
  <2> HIDE DEF left
  <2>7. facts[f.key] \in Row(C)
    BY <1>3, <2>2
  <2>8. /\ facts'[f.key].value = facts[f.key].value
        /\ facts'[f.key].fresh = facts[f.key].fresh
        /\ facts'[f.key].conf \in {facts[f.key].conf, left}
        /\ facts'[f.key].status = "active" => facts[f.key].status = "active"
    <3>1. facts'[f.key] \in {Marked(facts[f.key], "contradicted"),
                             [facts[f.key] EXCEPT !.conf = left]}
      BY <1>3, <2>1, <2>2 DEF left
    <3>2. \A r \in {Marked(facts[f.key], "contradicted"), [facts[f.key] EXCEPT !.conf = left]} :
            /\ r.value = facts[f.key].value /\ r.fresh = facts[f.key].fresh
            /\ r.conf \in {facts[f.key].conf, left}
            /\ r.status = "active" => facts[f.key].status = "active"
      BY <2>7 DEF Row, Marked
    <3> QED BY <3>1, <3>2
  <2>9. \A k \in Keys \ {f.key} : facts'[k] = facts[k]
    BY <1>3, <2>1
  <2>10. said' = said /\ found' = {} /\ at' # "fading"
    BY <1>16 DEF Resolve, Advance
  <2>11. Named'
    BY <2>4, <2>8, <2>9 DEF SafeInv, Named
  <2>12. HonestConfidence'
    BY <2>4, <2>6, <2>8, <2>9, <2>10 DEF SafeInv, HonestConfidence
  <2>13. FoundHonest' /\ FreshSince' /\ ActiveFresh'
    BY <2>8, <2>9, <2>10 DEF SafeInv, FoundHonest, FreshSince, ActiveFresh, Active
  <2> QED BY <2>11, <2>12, <2>13 DEF SafeInv
<1>17. CASE ReadFading
  <2>1. DOMAIN snap' = Active /\ \A k \in Active : snap'[k].fresh = facts[k].fresh
    BY <1>17 DEF ReadFading, ReadRows
  <2>2. FreshSince'
    BY <1>2, <1>17, <2>1 DEF ReadFading, ReadRows, files, FreshSince, Active, Percent
  <2> QED BY <1>17, <2>2 DEF ReadFading, ReadRows, files, SafeInv, Named, HonestConfidence,
                             FoundHonest, ActiveFresh, Active
<1>18. CASE ReadAlike \/ Finish \/ Extract
  BY <1>5, <1>18 DEF ReadAlike, ReadRows, Finish, Extract, files, SafeInv, FoundHonest
<1>19. CASE Correct \/ CallFails
  BY <1>5, <1>19 DEF Correct, CallFails, CallBegins, steps, files
<1>20. CASE DropBatch \/ Restart
  BY <1>5, <1>20 DEF DropBatch, BatchEnds, Restart, files
<1>21. CASE UNCHANGED vars
  BY <1>5, <1>21 DEF vars, steps
<1> QED BY <1>7, <1>8, <1>9, <1>11, <1>12, <1>13, <1>14, <1>15, <1>16, <1>17, <1>18,
           <1>19, <1>20, <1>21 DEF Next
-----------------------------------------------------------------------------
LEMMA InitSafe == Init => TypeInv /\ SafeInv
<1> SUFFICES ASSUME Init PROVE TypeInv /\ SafeInv
  OBVIOUS
<1>1. NoRow \in Row(Nat)
  BY DEF NoRow, Row, Statuses, Percent
<1>2. Rows
  <2>1. facts \in [Keys -> Row(Nat)]
    BY <1>1 DEF Init
  <2> QED BY <2>1 DEF Rows
<1>3. Shape
  BY PlaceFits DEF Init, Shape, Calls, Percent
<1>4. \A k \in Keys : facts[k] = NoRow
  BY DEF Init
<1>5. SafeInv
  BY <1>4 DEF Init, SafeInv, Named, HonestConfidence, FoundHonest, FreshSince, ActiveFresh,
              Active, NoRow
<1> QED BY <1>2, <1>3, <1>5 DEF TypeInv

LEMMA Invariance == Spec => [](TypeInv /\ SafeInv)
<1>1. TypeInv /\ SafeInv /\ [Next]_vars => (TypeInv /\ SafeInv)'
  BY RowsKept, ShapeKept, SafeKept DEF TypeInv
<1> QED BY <1>1, InitSafe, PTL DEF Spec

(* No fact is held with more confidence than its value was stored with.    *)
THEOREM FactsHonest == Spec => []HonestConfidence
<1>1. TypeInv /\ SafeInv => HonestConfidence
  BY DEF SafeInv
<1> QED BY <1>1, Invariance, PTL

(* No active fact has faded below the threshold. *)
THEOREM FactsFresh == Spec => []ActiveFresh
<1>1. TypeInv /\ SafeInv => ActiveFresh
  BY DEF SafeInv
<1> QED BY <1>1, Invariance, PTL
-----------------------------------------------------------------------------
LEMMA InRange ==
  ASSUME Shape, NEW s \in Range(batch)
  PROVE  s.conf \in Percent
<1>1. s \in Statement
  BY DEF Shape, Range
<1>2. s.conf \in Claimed
  BY <1>1 DEF Statement
<1>3. \A x \in Claimed : x \in 0..100
  BY FactStoreAssumption
<1> QED BY <1>2, <1>3 DEF Percent

(* What a write may do to what a row says, and how sure it is. *)
LEMMA StoreRaises ==
  ASSUME TypeInv, NEW k \in Keys, NEW v \in Values, NEW c \in Percent, Store(k, v, c),
         NEW j \in Keys
  PROVE  /\ facts'[j].conf \in Percent /\ facts[j].conf <= facts'[j].conf
         /\ facts'[j].value # facts[j].value =>
              j = k /\ facts'[j].conf = c /\ facts[j].conf <= c
<1>1. /\ facts'[k] = Upserted(facts[k], v, c)
      /\ \A i \in Keys \ {k} : facts'[i] = facts[i]
  BY StoreRow DEF TypeInv, Shape
<1>2. facts[j].conf \in Percent /\ facts[k].conf \in Percent
  BY RowParts DEF TypeInv
<1>3. CASE j = k
  BY <1>1, <1>2, <1>3 DEF Upserted, Percent
<1>4. CASE j # k
  BY <1>1, <1>2, <1>4 DEF Percent
<1> QED BY <1>3, <1>4

(* The other steps leave every value as it is. *)
LEMMA OnlyWritesReplace ==
  ASSUME TypeInv, NEW k \in Keys,
         Replace \/ Resolve \/ Prune \/ Fade \/ Merge
  PROVE  facts'[k].value = facts[k].value
<1>1. Shape
  BY DEF TypeInv
<1>2. PICK C : facts \in [Keys -> Row(C)]
  BY DEF TypeInv, Rows
<1>3. ASSUME NEW st PROVE Marked(facts[k], st).value = facts[k].value
  BY <1>2 DEF Row, Marked
<1>4. ASSUME NEW x PROVE [facts[k] EXCEPT !.conf = x].value = facts[k].value
  BY <1>2 DEF Row
<1>5. CASE Replace
  BY <1>2, <1>3, <1>5 DEF Replace
<1>6. CASE Resolve
  <2>1. PICK f \in found :
          facts' = [facts EXCEPT ![f.key] =
                      IF Penalised(Fact.conf, f.conf) < 20
                      THEN Marked(facts[f.key], "contradicted")
                      ELSE [facts[f.key] EXCEPT !.conf = Penalised(Fact.conf, f.conf)]]
    BY <1>6 DEF Resolve
  <2> QED BY <1>2, <1>3, <1>4, <2>1
<1>7. CASE Prune
  BY <1>3, <1>7 DEF Prune
<1>8. CASE Fade
  <2>1. PICK f \in [DOMAIN snap -> Fades] :
          facts' = [j \in Keys |->
                      IF j \in DOMAIN snap
                      THEN Faded(facts[j], f[j], Of(f[j], snap[j].fresh) < 20)
                      ELSE facts[j]]
    BY <1>8 DEF Fade
  <2>2. ASSUME NEW x, NEW lost PROVE Faded(facts[k], x, lost).value = facts[k].value
    BY <1>2 DEF Row, Faded
  <2> QED BY <2>1, <2>2
<1>9. CASE Merge
  <2>1. PICK S \in SUBSET DOMAIN snap : \E i \in S :
          facts' = [j \in Keys |->
                      IF j = i THEN [facts[j] EXCEPT !.count = @ + Added(S, i)]
                      ELSE IF j \in S THEN Marked(facts[j], "merged")
                      ELSE facts[j]]
    BY <1>9 DEF Merge
  <2>2. PICK i \in S :
          facts' = [j \in Keys |->
                      IF j = i THEN [facts[j] EXCEPT !.count = @ + Added(S, i)]
                      ELSE IF j \in S THEN Marked(facts[j], "merged")
                      ELSE facts[j]]
    BY <2>1
  <2>3. ASSUME NEW x PROVE [facts[k] EXCEPT !.count = x].value = facts[k].value
    BY <1>2 DEF Row
  <2> QED BY <1>3, <2>2, <2>3
<1> QED BY <1>5, <1>6, <1>7, <1>8, <1>9

LEMMA AloneKept == TypeInv /\ SafeInv /\ Alone /\ [Next]_vars => Alone'
<1> SUFFICES ASSUME TypeInv, SafeInv, Alone, [Next]_vars PROVE Alone'
  OBVIOUS
<1>1. at # "resolve" => found = {}
  BY DEF SafeInv, FoundHonest
<1>2. Shape
  BY DEF TypeInv
<1>3. CASE Remember \/ Correct
  BY <1>1, <1>3 DEF Remember, Correct, CallBegins, steps, Alone
<1>4. CASE Replace \/ StoreCorrection \/ CallFails
  <2>1. tool # Rest /\ alone' = alone /\ at' = at /\ found' = found
    BY <1>4 DEF Replace, StoreCorrection, CallFails, steps, Rest
  <2>2. alone => at = "idle" /\ found = {}
    BY <1>1, <2>1 DEF Alone
  <2> QED BY <2>1, <2>2 DEF Alone
<1>5. CASE Extract
  BY <1>1, <1>5 DEF Extract, files, Alone
<1>6. CASE Detect
  <2>1. \A f \in found' : facts'[f.key].conf = f.conf
    BY <1>6 DEF Detect, files
  <2> QED BY <1>6, <2>1 DEF Detect, files, Alone
<1>7. CASE Resolve \/ DropBatch \/ Restart
  BY <1>7 DEF Resolve, DropBatch, Restart, Alone
<1>8. CASE Promote
  BY <1>1, <1>8 DEF Promote, Alone
<1>9. CASE Prune \/ Fade \/ Merge
  BY <1>1, <1>9 DEF Prune, Fade, Merge, Alone
<1>10. CASE ReadFading \/ ReadAlike \/ Finish
  BY <1>1, <1>10 DEF ReadFading, ReadAlike, ReadRows, Finish, Alone
<1>11. CASE UNCHANGED vars
  BY <1>11 DEF vars, steps, Alone
<1> QED BY <1>3, <1>4, <1>5, <1>6, <1>7, <1>8, <1>9, <1>10, <1>11 DEF Next

LEMMA SteadyKept == TypeInv /\ SafeInv /\ Alone /\ Steady /\ [Next]_vars => Steady'
<1> SUFFICES ASSUME TypeInv, SafeInv, Alone, Steady, [Next]_vars,
                    alone', at' \in {"detect", "resolve", "promote"}
             PROVE  \A k \in Keys :
                      /\ trust'[k].blows = 0 => facts'[k].conf >= trust'[k].conf
                      /\ trust'[k].blows = 0 /\ at' \in {"detect", "resolve"} =>
                           facts'[k].conf = trust'[k].conf
                      /\ trust'[k].blows = 1 =>
                           \E s \in Range(batch') :
                             facts'[k].conf >= Penalised(s.conf, trust'[k].conf)
  BY DEF Steady, Weighing
<1>1. Shape /\ Rows
  BY DEF TypeInv
<1>2. \A k \in Keys : /\ facts[k].conf \in Percent /\ trust[k].conf \in Percent
                      /\ trust[k].blows \in Nat
  BY <1>1, RowParts DEF Shape
<1>3. at \in {"detect", "resolve", "promote"} /\ alone => \A k \in Keys :
        /\ trust[k].blows = 0 => facts[k].conf >= trust[k].conf
        /\ trust[k].blows = 0 /\ at \in {"detect", "resolve"} => facts[k].conf = trust[k].conf
        /\ trust[k].blows = 1 =>
             \E s \in Range(batch) : facts[k].conf >= Penalised(s.conf, trust[k].conf)
  BY DEF Steady, Weighing
<1>4. CASE Remember \/ Correct \/ Replace \/ StoreCorrection \/ CallFails
  <2>1. alone /\ at' = at
    BY <1>4 DEF Remember, Correct, Replace, StoreCorrection, CallFails, CallBegins, steps
  <2>2. CASE Remember \/ Correct
    BY <2>1, <2>2 DEF Remember, Correct, CallBegins
  <2>3. CASE Replace \/ StoreCorrection \/ CallFails
    <3>1. Rest.at = "idle"
      BY DEF Rest
    <3>2. tool # Rest
      BY <2>3, <3>1 DEF Replace, StoreCorrection, CallFails
    <3> QED BY <2>1, <3>2 DEF Alone
  <2> QED BY <1>4, <2>2, <2>3
<1>5. CASE Extract
  <2>1. \A k \in Keys : facts'[k].conf = facts[k].conf /\ trust'[k].conf = facts[k].conf
                         /\ trust'[k].blows = 0
    BY <1>5 DEF Extract, files
  <2> QED BY <1>2, <2>1 DEF Percent
<1>6. CASE Detect
  BY <1>3, <1>6 DEF Detect, Advance, files
<1>7. CASE Resolve
  <2>1. PICK f \in found :
          /\ facts' = [facts EXCEPT ![f.key] =
                         IF Penalised(Fact.conf, f.conf) < 20
                         THEN Marked(facts[f.key], "contradicted")
                         ELSE [facts[f.key] EXCEPT !.conf = Penalised(Fact.conf, f.conf)]]
          /\ trust' = [trust EXCEPT ![f.key].blows = @ + 1]
    BY <1>7 DEF Resolve
  <2>2. /\ f.key \in Keys /\ f.conf \in Percent /\ f.conf = facts[f.key].conf
        /\ Fact.conf \in Percent /\ Fact \in Range(batch)
    BY <1>1, <1>7, StatementFits DEF Shape, Resolve, Alone
  <2>3. at = "resolve" /\ alone /\ batch' = batch
    BY <1>7 DEF Resolve
  <2>4. \A k \in Keys \ {f.key} : facts'[k] = facts[k] /\ trust'[k] = trust[k]
    BY <1>1, <2>1 DEF Rows, Shape
  <2>5. trust'[f.key].blows = trust[f.key].blows + 1 /\ trust'[f.key].conf = trust[f.key].conf
    BY <1>1, <2>1, <2>2 DEF Shape
  <2> DEFINE left == Penalised(Fact.conf, f.conf)
  <2>6. left \in Percent /\ left <= f.conf
    <3>1. left \in Percent /\ left <= Of(70, f.conf)
      BY <2>2, PenalisedBounds
    <3>2. Of(70, f.conf) <= f.conf /\ Of(70, f.conf) \in Percent
      BY <2>2 DEF Of, Percent
    <3> QED BY <2>2, <3>1, <3>2, AtMost
  <2>7. facts'[f.key].conf \in {left, facts[f.key].conf}
    <3>1. PICK C : facts \in [Keys -> Row(C)]
      BY <1>1 DEF Rows
    <3>2. facts[f.key] \in Row(C)
      BY <2>2, <3>1
    <3>3. /\ Marked(facts[f.key], "contradicted").conf = facts[f.key].conf
          /\ [facts[f.key] EXCEPT !.conf = left].conf = left
      BY <3>2 DEF Row, Marked
    <3> QED BY <2>1, <2>2, <3>1, <3>3
  <2>8. facts'[f.key].conf >= left
    BY <2>2, <2>6, <2>7 DEF Percent
  <2>9. trust[f.key].blows = 0 => f.conf = trust[f.key].conf
    BY <1>3, <2>2, <2>3
  <2>10. trust'[f.key].blows # 0 /\ (trust'[f.key].blows = 1 => trust[f.key].blows = 0)
    BY <1>2, <2>2, <2>5
  <2>11. trust'[f.key].blows = 1 =>
           \E s \in Range(batch') : facts'[f.key].conf >= Penalised(s.conf, trust'[f.key].conf)
    BY <2>2, <2>3, <2>5, <2>8, <2>9, <2>10
  <2> QED BY <1>3, <1>7, <2>3, <2>4, <2>10, <2>11
<1>8. CASE Promote
  <2>1. Fact.key \in Keys /\ Fact.value \in Values /\ Fact.conf \in Percent
    BY <1>1, <1>8, StatementFits DEF Promote
  <2>2. at = "promote" /\ at' = "promote" /\ alone /\ batch' = batch /\ trust' = trust
    BY <1>8 DEF Promote, BatchEnds
  <2>3. ASSUME NEW k \in Keys
        PROVE  facts'[k].conf \in Percent /\ facts'[k].conf >= facts[k].conf
    <3>1. CASE Store(Fact.key, Fact.value, Fact.conf)
      <4>1. facts'[k].conf \in Percent /\ facts[k].conf <= facts'[k].conf
        BY <2>1, <3>1, StoreRaises
      <4> QED BY <1>2, <4>1 DEF Percent
    <3>2. CASE UNCHANGED files
      BY <1>2, <3>2 DEF files, Percent
    <3> QED BY <1>8, <3>1, <3>2 DEF Promote
  <2>4. ASSUME NEW k \in Keys, trust[k].blows = 1
        PROVE  \E s \in Range(batch) : facts'[k].conf >= Penalised(s.conf, trust[k].conf)
    <3>1. PICK s \in Range(batch) : facts[k].conf >= Penalised(s.conf, trust[k].conf)
      BY <1>3, <2>2, <2>4
    <3>2. Penalised(s.conf, trust[k].conf) \in Percent
      BY <1>1, <1>2, InRange, PenalisedBounds
    <3>3. facts'[k].conf >= Penalised(s.conf, trust[k].conf)
      BY <1>2, <2>3, <3>1, <3>2, AtMost
    <3> QED BY <3>3
  <2>5. ASSUME NEW k \in Keys, trust[k].blows = 0
        PROVE  facts'[k].conf >= trust[k].conf
    <3>1. facts[k].conf >= trust[k].conf
      BY <1>3, <2>2, <2>5
    <3> QED BY <1>2, <2>3, <3>1, AtMost
  <2> QED BY <2>2, <2>4, <2>5
<1>9. CASE DropBatch \/ Prune \/ ReadFading \/ ReadAlike \/ Fade \/ Merge \/ Finish \/ Restart
  BY <1>9 DEF DropBatch, BatchEnds, Prune, ReadFading, ReadAlike, ReadRows, Fade, Merge, Finish,
              Restart
<1>10. CASE UNCHANGED vars
  BY <1>3, <1>10 DEF vars, steps
<1> QED BY <1>4, <1>5, <1>6, <1>7, <1>8, <1>9, <1>10 DEF Next

LEMMA InitSteady == Init => Alone /\ Steady
BY DEF Init, Alone, Steady, Weighing

LEMMA SteadyInvariance == Spec => [](TypeInv /\ SafeInv /\ Alone /\ Steady)
<1>1. TypeInv /\ SafeInv /\ Alone /\ Steady /\ [Next]_vars
        => (TypeInv /\ SafeInv /\ Alone /\ Steady)'
  BY RowsKept, ShapeKept, SafeKept, AloneKept, SteadyKept DEF TypeInv
<1> QED BY <1>1, InitSafe, InitSteady, PTL DEF Spec

(* A remark that replaces, although it met what contradictions left of a   *)
(* confidence, is not alone in being at least half as sure.                *)
LEMMA HalfSure ==
  ASSUME NEW old \in Percent, NEW c \in Percent, NEW r \in Percent, c > 30,
         c >= Penalised(r, old), 2 * r < old
  PROVE  2 * c >= old
<1>1. Penalised(r, old) = Of(70, old)
  BY DEF Penalised, Percent
<1> QED BY <1>1 DEF Of, Percent

LEMMA OneRemarkStep ==
  ASSUME TypeInv, SafeInv, Alone, Steady, [Next]_vars, alone,
         NEW k \in Keys, Replaced(k), trust[k].blows <= 1
  PROVE  \E c \in {facts'[k].conf} \cup {s.conf : s \in Range(batch)} :
           2 * c >= trust[k].conf
<1>1. Shape
  BY DEF TypeInv
<1>2. /\ facts[k].conf \in Percent /\ trust[k].conf \in Percent
      /\ trust[k].blows \in Nat
  BY <1>1, RowParts DEF TypeInv, Shape
<1>3. facts'[k].value # facts[k].value
  BY DEF Replaced
<1>4. SUFFICES \/ 2 * facts'[k].conf >= trust[k].conf
               \/ \E s \in Range(batch) : 2 * s.conf >= trust[k].conf
  OBVIOUS
<1>5. CASE Remember
  <2>1. PICK j \in Keys, v \in Values : Store(j, v, 90)
    BY <1>5 DEF Remember
  <2>2. facts'[k].conf = 90
    <3>1. 90 \in Percent
      BY DEF Percent
    <3> QED BY <1>3, <2>1, <3>1, StoreRaises
  <2> QED BY <1>2, <2>2 DEF Percent
<1>6. CASE StoreCorrection
  <2>1. tool.key \in Keys /\ tool.value \in Values
    BY <1>1, <1>6, CallFits DEF Shape, StoreCorrection
  <2>2. Store(tool.key, tool.value, 100) /\ 100 \in Percent
    BY <1>6 DEF StoreCorrection, Percent
  <2>3. facts'[k].conf = 100
    BY <1>3, <2>1, <2>2, StoreRaises
  <2> QED BY <1>2, <2>3 DEF Percent
<1>7. CASE Promote
  <2>1. Fact.key \in Keys /\ Fact.value \in Values
    BY <1>1, <1>7, StatementFits DEF Promote
  <2>2. Fact.conf \in Percent /\ Fact.conf > 30
    <3>1. Fact.conf \in Percent /\ Fact.conf >= 31
      BY <1>1, <1>7, StatementFits DEF Promote
    <3> QED BY <3>1 DEF Percent
  <2>3. Store(Fact.key, Fact.value, Fact.conf)
    BY <1>3, <1>7 DEF Promote, files
  <2>4. facts'[k].conf = Fact.conf /\ facts[k].conf <= Fact.conf
    BY <1>3, <2>1, <2>2, <2>3, StoreRaises
  <2>5. CASE trust[k].blows = 0
    <3>1. trust[k].conf <= facts[k].conf
      BY <1>2, <1>7, <2>5 DEF Promote, Steady, Percent
    <3>2. trust[k].conf <= Fact.conf
      BY <1>2, <2>2, <2>4, <3>1, AtMost
    <3> QED BY <1>2, <2>2, <2>4, <3>2 DEF Percent
  <2>6. CASE trust[k].blows = 1
    <3>1. PICK s \in Range(batch) : facts[k].conf >= Penalised(s.conf, trust[k].conf)
      BY <1>7, <2>6 DEF Promote, Steady
    <3>2. s.conf \in Percent /\ Penalised(s.conf, trust[k].conf) \in Percent
      BY <1>1, <1>2, InRange, PenalisedBounds
    <3>3. Fact.conf >= Penalised(s.conf, trust[k].conf)
      BY <1>2, <2>2, <2>4, <3>1, <3>2, AtMost
    <3>4. CASE 2 * s.conf < trust[k].conf
      <4>1. 2 * Fact.conf >= trust[k].conf
        BY <1>2, <2>2, <3>2, <3>3, <3>4, HalfSure
      <4> QED BY <2>4, <4>1
    <3>5. CASE ~ (2 * s.conf < trust[k].conf)
      <4>1. 2 * s.conf >= trust[k].conf
        BY <1>2, <3>2, <3>5 DEF Percent
      <4> QED BY <4>1
    <3> QED BY <3>4, <3>5
  <2> QED BY <1>2, <2>5, <2>6
<1>8. CASE Replace \/ Resolve \/ Prune \/ Fade \/ Merge
  BY <1>3, <1>8, OnlyWritesReplace
<1>9. CASE \/ Correct \/ CallFails \/ Extract \/ Detect \/ DropBatch \/ ReadFading
           \/ ReadAlike \/ Finish \/ Restart \/ UNCHANGED vars
  BY <1>3, <1>9 DEF Correct, CallFails, Extract, Detect, DropBatch, ReadFading, ReadAlike,
                    ReadRows, Finish, Restart, vars, files
<1> QED BY <1>5, <1>6, <1>7, <1>8, <1>9 DEF Next

(* In one consolidation, a value that was contradicted once gives way only *)
(* to a batch with a remark at least half as sure as it was, when tools    *)
(* and consolidation take turns.                                           *)
THEOREM RemarksWeighed == Spec => OneRemark
<1>1. TypeInv /\ SafeInv /\ Alone /\ Steady /\ [Next]_vars
        => [alone => \A k \in Keys :
              Replaced(k) /\ trust[k].blows <= 1 =>
                \E c \in {facts'[k].conf} \cup {s.conf : s \in Range(batch)} :
                  2 * c >= trust[k].conf]_vars
  BY OneRemarkStep
<1> QED BY <1>1, SteadyInvariance, PTL DEF Spec, OneRemark
-----------------------------------------------------------------------------
(* Sums.  A sum over a finite set is a number, adds up over parts, and     *)
(* looks at nothing else.                                                  *)
LEMMA CountUpTo ==
  ASSUME NEW n \in Nat
  PROVE  IsFiniteSet(1..n) /\ Cardinality(1..n) = n
<1>1. IsFiniteSet(1..n) /\ Cardinality(1..n) = IF 1 > n THEN 0 ELSE n - 1 + 1
  BY FS_Interval
<1> QED BY <1>1

LEMMA PileFinite ==
  ASSUME NEW S, IsFiniteSet(S), NEW f, \A j \in S : f[j] \in Nat
  PROVE  IsFiniteSet(Pile(f, S)) /\ Total(f, S) \in Nat
<1> DEFINE piles == {{j} \X (1..f[j]) : j \in S}
<1>1. \A T \in piles : IsFiniteSet(T)
  <2> SUFFICES ASSUME NEW j \in S PROVE IsFiniteSet({j} \X (1..f[j]))
    OBVIOUS
  <2>1. IsFiniteSet({j})
    BY FS_Singleton
  <2>2. IsFiniteSet(1..f[j])
    BY CountUpTo
  <2> QED BY <2>1, <2>2, FS_Product
<1>2. IsFiniteSet(piles)
  <2> DEFINE pile == [j \in S |-> {j} \X (1..f[j])]
  <2>1. piles = {pile[j] : j \in S}
    OBVIOUS
  <2>2. pile \in [S -> piles]
    OBVIOUS
  <2>3. pile \in Surjection(S, piles)
    BY <2>1, <2>2 DEF Surjection
  <2> QED BY <2>3, FS_Surjection
<1>3. IsFiniteSet(UNION piles)
  BY <1>1, <1>2, FS_UNION
<1> QED BY <1>3, FS_CardinalityType DEF Pile, Total

LEMMA TotalOfOne ==
  ASSUME NEW f, NEW j, f[j] \in Nat
  PROVE  Total(f, {j}) = f[j]
<1>1. Pile(f, {j}) = {j} \X (1..f[j])
  BY DEF Pile
<1>2. IsFiniteSet({j}) /\ Cardinality({j}) = 1
  BY FS_Singleton
<1>3. IsFiniteSet(1..f[j]) /\ Cardinality(1..f[j]) = f[j]
  BY CountUpTo
<1>4. Cardinality({j} \X (1..f[j])) = 1 * f[j]
  BY <1>2, <1>3, FS_Product
<1>5. 1 * f[j] = f[j]
  OBVIOUS
<1> QED BY <1>1, <1>4, <1>5 DEF Total

LEMMA TotalOfParts ==
  ASSUME NEW S, IsFiniteSet(S), NEW T, IsFiniteSet(T), S \cap T = {},
         NEW f, \A j \in S \cup T : f[j] \in Nat
  PROVE  Total(f, S \cup T) = Total(f, S) + Total(f, T)
<1>1. Pile(f, S \cup T) = Pile(f, S) \cup Pile(f, T)
  BY DEF Pile
<1>2. Pile(f, S) \cap Pile(f, T) = {}
  BY DEF Pile
<1>3. IsFiniteSet(Pile(f, S)) /\ IsFiniteSet(Pile(f, T))
  BY PileFinite
<1>4. Cardinality(Pile(f, S)) \in Nat /\ Cardinality(Pile(f, T)) \in Nat
  BY <1>3, FS_CardinalityType
<1>5. Cardinality(Pile(f, S) \cap Pile(f, T)) = 0
  BY <1>2, FS_EmptySet
<1>6. Cardinality(Pile(f, S) \cup Pile(f, T)) =
        Cardinality(Pile(f, S)) + Cardinality(Pile(f, T)) - 0
  BY <1>3, <1>5, FS_Union
<1>7. Total(f, S) \in Nat /\ Total(f, T) \in Nat
  BY <1>4 DEF Total
<1>8. Total(f, S \cup T) = Total(f, S) + Total(f, T) - 0
  BY <1>1, <1>6 DEF Total
<1> QED BY <1>7, <1>8

LEMMA TotalWithOne ==
  ASSUME NEW S, IsFiniteSet(S), NEW k, k \notin S,
         NEW f, \A j \in S : f[j] \in Nat, f[k] \in Nat
  PROVE  Total(f, S \cup {k}) = Total(f, S) + f[k]
<1>1. IsFiniteSet({k}) /\ S \cap {k} = {} /\ \A j \in S \cup {k} : f[j] \in Nat
  BY FS_Singleton
<1>2. Total(f, S \cup {k}) = Total(f, S) + Total(f, {k})
  BY <1>1, TotalOfParts
<1> QED BY <1>2, TotalOfOne

LEMMA SameTotal ==
  ASSUME NEW S, NEW f, NEW g, \A j \in S : f[j] = g[j]
  PROVE  Total(f, S) = Total(g, S)
<1>1. Pile(f, S) = Pile(g, S)
  BY DEF Pile
<1> QED BY <1>1 DEF Total
-----------------------------------------------------------------------------
(* How often the rows were stored: a number, not zero where one is active, *)
(* and there are never more active rows than were ever written.            *)
RowsCounted ==
  /\ IsFiniteSet(Active)
  /\ \A k \in Keys : facts[k].count \in Nat
  /\ \A k \in Active : facts[k].count >= 1

SnapCounted ==
  /\ IsFiniteSet(DOMAIN snap)
  /\ \A k \in DOMAIN snap : snap[k] \in Row(Nat)

(* Who merges alone works on the rows as they are. *)
SnapNow ==
  alone /\ at = "merging" => \A k \in DOMAIN snap : snap[k] = facts[k] /\ k \in Active

CountInv == RowsCounted /\ SnapCounted /\ SnapNow

LEMMA RowsAreNumbered ==
  ASSUME Rows, RowsCounted
  PROVE  facts \in [Keys -> Row(Nat)]
<1>1. PICK C : facts \in [Keys -> Row(C)]
  BY DEF Rows
<1>2. ASSUME NEW k \in Keys PROVE facts[k] \in Row(Nat)
  <2>1. facts[k] \in Row(C) /\ facts[k].count \in Nat
    BY <1>1 DEF RowsCounted
  <2> QED BY <2>1 DEF Row
<1> QED BY <1>1, <1>2

(* No row becomes active or is counted again. *)
LEMMA OnlyHidden ==
  ASSUME RowsCounted,
         \A j \in Keys : /\ facts'[j].count = facts[j].count
                         /\ facts'[j].status = "active" => facts[j].status = "active"
  PROVE  RowsCounted'
<1>1. Active' \in SUBSET Active /\ Active \subseteq Keys
  BY DEF Active
<1>2. IsFiniteSet(Active')
  BY <1>1, FS_Subset DEF RowsCounted
<1>3. \A j \in Keys : facts'[j].count \in Nat
  BY DEF RowsCounted
<1>4. \A j \in Active' : facts'[j].count >= 1
  BY <1>1 DEF RowsCounted
<1> QED BY <1>2, <1>3, <1>4 DEF RowsCounted

LEMMA StoreCounted ==
  ASSUME TypeInv, RowsCounted, NEW k \in Keys, NEW v \in Values, NEW c \in Percent,
         Store(k, v, c)
  PROVE  RowsCounted'
<1>1. /\ facts'[k] = Upserted(facts[k], v, c)
      /\ \A j \in Keys \ {k} : facts'[j] = facts[j]
  BY StoreRow DEF TypeInv, Shape
<1>2. facts'[k].count = facts[k].count + 1 /\ facts[k].count \in Nat
  BY <1>1 DEF Upserted, RowsCounted
<1>3. Active' \in SUBSET (Active \cup {k})
  BY <1>1 DEF Active
<1>4. IsFiniteSet(Active')
  <2>1. IsFiniteSet(Active \cup {k})
    BY FS_AddElement DEF RowsCounted
  <2> QED BY <1>3, <2>1, FS_Subset
<1>5. ASSUME NEW j \in Keys PROVE facts'[j].count \in Nat /\ (j \in Active' => facts'[j].count >= 1)
  BY <1>1, <1>2, <1>3 DEF RowsCounted
<1>6. \A j \in Active' : j \in Keys
  BY DEF Active
<1> QED BY <1>4, <1>5, <1>6 DEF RowsCounted

(* What a merge does to each row, and that what it adds is a number. *)
LEMMA MergeRows ==
  ASSUME TypeInv, SnapCounted, Merge
  PROVE  \E S \in SUBSET DOMAIN snap : \E k \in S :
           /\ S \subseteq Keys /\ Keeper(S, k) /\ Added(S, k) \in Nat
           /\ snap' = [j \in DOMAIN snap \ S |-> snap[j]]
           /\ facts'[k].status = facts[k].status
           /\ facts'[k].count = facts[k].count + Added(S, k)
           /\ \A j \in S \ {k} : /\ facts'[j].status = "merged"
                                 /\ facts'[j].count = facts[j].count
           /\ \A j \in Keys \ S : facts'[j] = facts[j]
<1>1. PICK S \in SUBSET DOMAIN snap : \E k \in S :
        /\ Keeper(S, k)
        /\ facts' = [j \in Keys |->
                       IF j = k THEN [facts[j] EXCEPT !.count = @ + Added(S, k)]
                       ELSE IF j \in S THEN Marked(facts[j], "merged")
                       ELSE facts[j]]
        /\ snap' = [j \in DOMAIN snap \ S |-> snap[j]]
  BY DEF Merge
<1>2. PICK k \in S :
        /\ Keeper(S, k)
        /\ facts' = [j \in Keys |->
                       IF j = k THEN [facts[j] EXCEPT !.count = @ + Added(S, k)]
                       ELSE IF j \in S THEN Marked(facts[j], "merged")
                       ELSE facts[j]]
        /\ snap' = [j \in DOMAIN snap \ S |-> snap[j]]
  BY <1>1
<1>3. S \subseteq Keys
  BY DEF TypeInv, Shape
<1>4. Added(S, k) \in Nat
  <2> DEFINE f == [j \in S |-> IF snap[j].count > 1 THEN snap[j].count ELSE 1]
  <2>1. \A j \in S : snap[j].count \in Nat
    BY DEF SnapCounted, Row
  <2>2. \A j \in S \ {k} : f[j] \in Nat
    BY <2>1
  <2>3. IsFiniteSet(S \ {k})
    BY FS_Subset DEF SnapCounted
  <2> HIDE DEF f
  <2>4. Total(f, S \ {k}) \in Nat
    BY <2>2, <2>3, PileFinite
  <2> QED BY <2>4 DEF Added, f
<1>5. PICK C : facts \in [Keys -> Row(C)]
  BY DEF TypeInv, Rows
<1>6. ASSUME NEW j \in Keys
      PROVE  /\ [facts[j] EXCEPT !.count = @ + Added(S, k)].status = facts[j].status
             /\ [facts[j] EXCEPT !.count = @ + Added(S, k)].count = facts[j].count + Added(S, k)
             /\ Marked(facts[j], "merged").status = "merged"
             /\ Marked(facts[j], "merged").count = facts[j].count
  <2>1. facts[j] \in Row(C)
    BY <1>5
  <2> QED BY <2>1 DEF Row, Marked
<1> QED BY <1>2, <1>3, <1>4, <1>6

LEMMA MergeCounted ==
  ASSUME TypeInv, RowsCounted, SnapCounted, Merge
  PROVE  RowsCounted'
<1>1. PICK S \in SUBSET DOMAIN snap : \E k \in S :
           /\ S \subseteq Keys /\ Added(S, k) \in Nat
           /\ facts'[k].status = facts[k].status
           /\ facts'[k].count = facts[k].count + Added(S, k)
           /\ \A j \in S \ {k} : /\ facts'[j].status = "merged"
                                 /\ facts'[j].count = facts[j].count
           /\ \A j \in Keys \ S : facts'[j] = facts[j]
  BY MergeRows
<1>2. PICK k \in S :
           /\ S \subseteq Keys /\ Added(S, k) \in Nat
           /\ facts'[k].status = facts[k].status
           /\ facts'[k].count = facts[k].count + Added(S, k)
           /\ \A j \in S \ {k} : /\ facts'[j].status = "merged"
                                 /\ facts'[j].count = facts[j].count
           /\ \A j \in Keys \ S : facts'[j] = facts[j]
  BY <1>1
<1>3. ASSUME NEW j \in Keys
      PROVE  /\ facts'[j].count \in Nat /\ facts'[j].count >= facts[j].count
             /\ facts'[j].status = "active" => facts[j].status = "active"
  BY <1>2 DEF RowsCounted
<1>4. Active' \in SUBSET Active
  BY <1>3 DEF Active
<1>5. IsFiniteSet(Active')
  BY <1>4, FS_Subset DEF RowsCounted
<1>6. ASSUME NEW j \in Active' PROVE facts'[j].count >= 1
  <2>1. j \in Active /\ j \in Keys /\ facts[j].count \in Nat /\ facts[j].count >= 1
    BY <1>4 DEF Active, RowsCounted
  <2>2. facts'[j].count \in Nat /\ facts'[j].count >= facts[j].count
    BY <1>3, <2>1
  <2> QED BY <2>1, <2>2
<1> QED BY <1>3, <1>5, <1>6 DEF RowsCounted

LEMMA RowsCountKept == TypeInv /\ RowsCounted /\ SnapCounted /\ [Next]_vars => RowsCounted'
<1> SUFFICES ASSUME TypeInv, RowsCounted, SnapCounted, [Next]_vars PROVE RowsCounted'
  OBVIOUS
<1>1. Shape
  BY DEF TypeInv
<1>2. PICK C : facts \in [Keys -> Row(C)]
  BY DEF TypeInv, Rows
<1>3. ASSUME NEW k \in Keys, NEW st \in Statuses
      PROVE  Marked(facts[k], st).count = facts[k].count /\ Marked(facts[k], st).status = st
  BY <1>2 DEF Row, Marked
<1>4. {"contradicted", "expired", "decayed"} \subseteq Statuses
  BY DEF Statuses
<1>5. ASSUME UNCHANGED facts PROVE RowsCounted'
  BY <1>5, OnlyHidden
<1>6. CASE Remember
  BY <1>6, StoreCounted DEF Remember, Percent
<1>7. CASE StoreCorrection
  <2>1. tool.key \in Keys /\ tool.value \in Values
    BY <1>1, <1>7, CallFits DEF StoreCorrection
  <2> QED BY <1>7, <2>1, StoreCounted DEF StoreCorrection, Percent
<1>8. CASE Promote
  <2>1. Fact.key \in Keys /\ Fact.value \in Values /\ Fact.conf \in Percent
    BY <1>1, <1>8, StatementFits DEF Promote
  <2>2. CASE Store(Fact.key, Fact.value, Fact.conf)
    BY <2>1, <2>2, StoreCounted
  <2> QED BY <1>5, <1>8, <2>2 DEF Promote, files
<1>9. CASE Replace
  <2>1. facts' = [facts EXCEPT ![tool.key] = Marked(facts[tool.key], "contradicted")]
    BY <1>9 DEF Replace
  <2>2. \A j \in Keys : /\ facts'[j].count = facts[j].count
                        /\ facts'[j].status = "active" => facts[j].status = "active"
    BY <1>2, <1>3, <1>4, <2>1
  <2> QED BY <2>2, OnlyHidden
<1>10. CASE Resolve
  <2>1. PICK f \in found :
          facts' = [facts EXCEPT ![f.key] =
                      IF Penalised(Fact.conf, f.conf) < 20
                      THEN Marked(facts[f.key], "contradicted")
                      ELSE [facts[f.key] EXCEPT !.conf = Penalised(Fact.conf, f.conf)]]
    BY <1>10 DEF Resolve
  <2>2. ASSUME NEW j \in Keys, NEW c
        PROVE  /\ [facts[j] EXCEPT !.conf = c].count = facts[j].count
               /\ [facts[j] EXCEPT !.conf = c].status = facts[j].status
    BY <1>2 DEF Row
  <2>3. \A j \in Keys : /\ facts'[j].count = facts[j].count
                        /\ facts'[j].status = "active" => facts[j].status = "active"
    BY <1>2, <1>3, <1>4, <2>1, <2>2
  <2> QED BY <2>3, OnlyHidden
<1>11. CASE Prune
  <2>1. ASSUME NEW j \in Keys
        PROVE  facts'[j] \in {facts[j], Marked(facts[j], "expired")}
    BY <1>2, <1>11 DEF Prune
  <2>2. \A j \in Keys : /\ facts'[j].count = facts[j].count
                        /\ facts'[j].status = "active" => facts[j].status = "active"
    BY <1>3, <1>4, <2>1
  <2> QED BY <2>2, OnlyHidden
<1>12. CASE Fade
  <2>1. PICK f \in [DOMAIN snap -> Fades] :
          facts' = [k \in Keys |->
                      IF k \in DOMAIN snap
                      THEN Faded(facts[k], f[k], Of(f[k], snap[k].fresh) < 20)
                      ELSE facts[k]]
    BY <1>12 DEF Fade
  <2>2. ASSUME NEW j \in Keys, NEW n, NEW lost \in BOOLEAN
        PROVE  /\ Faded(facts[j], n, lost).count = facts[j].count
               /\ Faded(facts[j], n, lost).status \in {"decayed", facts[j].status}
    BY <1>2 DEF Row, Faded
  <2>3. ASSUME NEW j \in Keys
        PROVE  /\ facts'[j].count = facts[j].count
               /\ facts'[j].status = "active" => facts[j].status = "active"
    <3>1. CASE j \in DOMAIN snap
      <4> DEFINE lost == Of(f[j], snap[j].fresh) < 20
      <4>1. facts'[j] = Faded(facts[j], f[j], lost) /\ lost \in BOOLEAN
        BY <2>1, <3>1
      <4> HIDE DEF lost
      <4> QED BY <2>2, <4>1
    <3>2. CASE j \notin DOMAIN snap
      BY <2>1, <3>2
    <3> QED BY <3>1, <3>2
  <2> QED BY <2>3, OnlyHidden
<1>13. CASE Merge
  BY <1>13, MergeCounted
<1>14. CASE Correct \/ CallFails \/ Extract \/ Detect \/ DropBatch \/ ReadFading
            \/ ReadAlike \/ Finish \/ Restart \/ UNCHANGED vars
  BY <1>5, <1>14 DEF Correct, CallFails, Extract, Detect, DropBatch, ReadFading,
                     ReadAlike, ReadRows, Finish, Restart, files, vars
<1> QED BY <1>6, <1>7, <1>8, <1>9, <1>10, <1>11, <1>12, <1>13, <1>14 DEF Next

LEMMA SnapCountKept ==
  TypeInv /\ RowsCounted /\ SnapCounted /\ [Next]_vars => SnapCounted'
<1> SUFFICES ASSUME TypeInv, RowsCounted, SnapCounted, [Next]_vars PROVE SnapCounted'
  OBVIOUS
<1>1. facts \in [Keys -> Row(Nat)]
  BY RowsAreNumbered DEF TypeInv
<1>2. ASSUME UNCHANGED snap PROVE SnapCounted'
  BY <1>2 DEF SnapCounted
<1>3. CASE ReadFading \/ ReadAlike
  <2>1. snap' = [k \in Active |-> facts[k]]
    BY <1>3 DEF ReadFading, ReadAlike, ReadRows
  <2>2. Active \subseteq Keys /\ IsFiniteSet(Active)
    BY DEF Active, RowsCounted
  <2> QED BY <1>1, <2>1, <2>2 DEF SnapCounted
<1>4. CASE Merge
  <2>1. PICK S \in SUBSET DOMAIN snap : snap' = [j \in DOMAIN snap \ S |-> snap[j]]
    BY <1>4 DEF Merge
  <2>2. IsFiniteSet(DOMAIN snap \ S)
    BY FS_Subset DEF SnapCounted
  <2> QED BY <2>1, <2>2 DEF SnapCounted
<1>5. CASE Finish \/ Restart
  <2>1. snap' = <<>>
    BY <1>5 DEF Finish, Restart
  <2>2. DOMAIN <<>> = {}
    OBVIOUS
  <2> QED BY <2>1, <2>2, FS_EmptySet DEF SnapCounted
<1>6. CASE Remember \/ Correct \/ Replace \/ StoreCorrection \/ CallFails
  BY <1>2, <1>6 DEF Remember, Correct, CallBegins, Replace, StoreCorrection, CallFails, steps
<1>7. CASE Extract \/ Detect \/ Resolve \/ Promote \/ DropBatch \/ Prune \/ Fade \/ UNCHANGED vars
  BY <1>2, <1>7 DEF Extract, Detect, Resolve, Promote, DropBatch, Prune, Fade, vars
<1> QED BY <1>3, <1>4, <1>5, <1>6, <1>7 DEF Next

LEMMA SnapNowKept ==
  TypeInv /\ Alone /\ CountInv /\ [Next]_vars => SnapNow'
<1> SUFFICES ASSUME TypeInv, Alone, CountInv, [Next]_vars, alone', at' = "merging"
             PROVE  \A k \in DOMAIN snap' : snap'[k] = facts'[k] /\ k \in Active'
  BY DEF SnapNow
<1>1. alone /\ at = "merging" => \A k \in DOMAIN snap : snap[k] = facts[k] /\ k \in Active
  BY DEF CountInv, SnapNow
<1>2. CASE Remember \/ Correct \/ Replace \/ StoreCorrection \/ CallFails
  <2>1. alone /\ at = "merging"
    BY <1>2 DEF Remember, Correct, Replace, StoreCorrection, CallFails, CallBegins, steps
  <2>2. tool = Rest
    BY <2>1 DEF Alone
  <2>3. Rest.at = "idle"
    BY DEF Rest
  <2> QED BY <1>2, <2>1, <2>2, <2>3
      DEF Remember, Correct, Replace, StoreCorrection, CallFails, CallBegins
<1>3. CASE ReadAlike
  BY <1>3 DEF ReadAlike, ReadRows, files, Active
<1>4. CASE Merge
  <2>1. alone /\ at = "merging"
    BY <1>4 DEF Merge
  <2>2. PICK S \in SUBSET DOMAIN snap :
          /\ snap' = [j \in DOMAIN snap \ S |-> snap[j]]
          /\ \A j \in Keys \ S : facts'[j] = facts[j]
    BY <1>4, MergeRows DEF CountInv
  <2>3. DOMAIN snap \subseteq Keys
    BY DEF TypeInv, Shape
  <2> QED BY <1>1, <2>1, <2>2, <2>3 DEF Active
<1>5. CASE UNCHANGED vars
  BY <1>1, <1>5 DEF vars, Active
<1>6. ~(Extract \/ Detect \/ Resolve \/ Promote \/ DropBatch \/ Prune \/ ReadFading \/ Fade
          \/ Finish \/ Restart)
  BY DEF Extract, Detect, Resolve, Advance, Promote, DropBatch, BatchEnds, Prune, ReadFading,
         ReadRows, Fade, Finish, Restart
<1> QED BY <1>2, <1>3, <1>4, <1>5, <1>6 DEF Next

LEMMA InitCounted == Init => CountInv
<1> SUFFICES ASSUME Init PROVE CountInv
  OBVIOUS
<1>1. \A k \in Keys : facts[k] = NoRow
  BY DEF Init
<1>2. Active = {}
  BY <1>1 DEF Active, NoRow
<1>3. RowsCounted
  BY <1>1, <1>2, FS_EmptySet DEF RowsCounted, NoRow
<1>4. snap = <<>> /\ DOMAIN <<>> = {} /\ at = "idle"
  BY DEF Init
<1>5. SnapCounted /\ SnapNow
  BY <1>4, FS_EmptySet DEF SnapCounted, SnapNow
<1> QED BY <1>3, <1>5 DEF CountInv

LEMMA CountInvariance == Spec => [](TypeInv /\ SafeInv /\ Alone /\ CountInv)
<1>1. TypeInv /\ SafeInv /\ Alone /\ CountInv /\ [Next]_vars
        => (TypeInv /\ SafeInv /\ Alone /\ CountInv)'
  BY RowsKept, ShapeKept, SafeKept, AloneKept, RowsCountKept, SnapCountKept, SnapNowKept
     DEF TypeInv, CountInv
<1> QED BY <1>1, InitSafe, InitSteady, InitCounted, PTL DEF Spec
-----------------------------------------------------------------------------
(* Nothing else marks a row as merged. *)
LEMMA OnlyMergeMerges ==
  ASSUME TypeInv, [Next]_vars, NEW k \in Active, facts'[k].status = "merged"
  PROVE  Merge
<1> SUFFICES ASSUME ~Merge PROVE FALSE
  OBVIOUS
<1>1. Shape
  BY DEF TypeInv
<1>2. PICK C : facts \in [Keys -> Row(C)]
  BY DEF TypeInv, Rows
<1>3. k \in Keys /\ facts[k].status = "active" /\ facts[k] \in Row(C)
  BY <1>2 DEF Active
<1>4. \A st : Marked(facts[k], st).status = st
  BY <1>3 DEF Row, Marked
<1>5. ASSUME NEW j \in Keys, NEW v \in Values, NEW c \in Percent, Store(j, v, c)
      PROVE  facts'[k].status = "active"
  <2>1. facts'[j] = Upserted(facts[j], v, c) /\ \A i \in Keys \ {j} : facts'[i] = facts[i]
    BY <1>5, StoreRow DEF TypeInv, Shape
  <2> QED BY <1>3, <2>1 DEF Upserted
<1>6. CASE Remember
  BY <1>5, <1>6 DEF Remember, Percent
<1>7. CASE StoreCorrection
  <2>1. tool.key \in Keys /\ tool.value \in Values
    BY <1>1, <1>7, CallFits DEF StoreCorrection
  <2> QED BY <1>5, <1>7, <2>1 DEF StoreCorrection, Percent
<1>8. CASE Promote
  <2>1. Fact.key \in Keys /\ Fact.value \in Values /\ Fact.conf \in Percent
    BY <1>1, <1>8, StatementFits DEF Promote
  <2> QED BY <1>3, <1>5, <1>8, <2>1 DEF Promote, files
<1>9. CASE Replace
  <2>1. facts' = [facts EXCEPT ![tool.key] = Marked(facts[tool.key], "contradicted")]
    BY <1>9 DEF Replace
  <2> QED BY <1>2, <1>3, <1>4, <2>1
<1>10. CASE Resolve
  <2>1. PICK f \in found :
          facts' = [facts EXCEPT ![f.key] =
                      IF Penalised(Fact.conf, f.conf) < 20
                      THEN Marked(facts[f.key], "contradicted")
                      ELSE [facts[f.key] EXCEPT !.conf = Penalised(Fact.conf, f.conf)]]
    BY <1>10 DEF Resolve
  <2>2. \A c : [facts[k] EXCEPT !.conf = c].status = facts[k].status
    BY <1>3 DEF Row
  <2> QED BY <1>2, <1>3, <1>4, <2>1, <2>2
<1>11. CASE Prune
  <2>1. facts'[k] \in {facts[k], Marked(facts[k], "expired")}
    BY <1>2, <1>3, <1>11 DEF Prune
  <2> QED BY <1>3, <1>4, <2>1
<1>12. CASE Fade
  <2>1. PICK f \in [DOMAIN snap -> Fades] :
          facts' = [j \in Keys |->
                      IF j \in DOMAIN snap
                      THEN Faded(facts[j], f[j], Of(f[j], snap[j].fresh) < 20)
                      ELSE facts[j]]
    BY <1>12 DEF Fade
  <2>2. ASSUME NEW n, NEW lost PROVE Faded(facts[k], n, lost).status # "merged"
    BY <1>3 DEF Row, Faded
  <2> QED BY <1>3, <2>1, <2>2
<1>13. CASE Correct \/ CallFails \/ Extract \/ Detect \/ DropBatch \/ ReadFading
            \/ ReadAlike \/ Finish \/ Restart \/ UNCHANGED vars
  BY <1>3, <1>13 DEF Correct, CallFails, Extract, Detect, DropBatch, ReadFading,
                     ReadAlike, ReadRows, Finish, Restart, files, vars
<1> QED BY <1>6, <1>7, <1>8, <1>9, <1>10, <1>11, <1>12, <1>13 DEF Next

LEMMA MergeStep ==
  ASSUME TypeInv, CountInv, Merge, alone, NEW k \in Active, facts'[k].status = "merged"
  PROVE  /\ \E j \in Active \ {k} :
              facts'[j].status = "active" /\ Outranks(facts[j], facts[k])
         /\ Votes' = Votes
<1>1. \A j \in DOMAIN snap : snap[j] = facts[j] /\ j \in Active
  BY DEF Merge, CountInv, SnapNow
<1>2. PICK S \in SUBSET DOMAIN snap : \E i \in S :
           /\ S \subseteq Keys /\ Keeper(S, i) /\ Added(S, i) \in Nat
           /\ facts'[i].status = facts[i].status
           /\ facts'[i].count = facts[i].count + Added(S, i)
           /\ \A j \in S \ {i} : /\ facts'[j].status = "merged"
                                 /\ facts'[j].count = facts[j].count
           /\ \A j \in Keys \ S : facts'[j] = facts[j]
  BY MergeRows DEF CountInv
<1>3. PICK i \in S :
           /\ S \subseteq Keys /\ Keeper(S, i) /\ Added(S, i) \in Nat
           /\ facts'[i].status = facts[i].status
           /\ facts'[i].count = facts[i].count + Added(S, i)
           /\ \A j \in S \ {i} : /\ facts'[j].status = "merged"
                                 /\ facts'[j].count = facts[j].count
           /\ \A j \in Keys \ S : facts'[j] = facts[j]
  BY <1>2
<1>4. Active \subseteq Keys /\ S \subseteq Active
  BY <1>1 DEF Active
<1>5. facts'[i].status = "active"
  BY <1>3, <1>4 DEF Active
<1>6. k \in S \ {i}
  BY <1>3, <1>4, <1>5 DEF Active
<1>7. i \in Active \ {k} /\ Outranks(facts[i], facts[k])
  BY <1>1, <1>3, <1>4, <1>6 DEF Keeper
<1> DEFINE rest   == S \ {i}
           others == Active \ S
           f      == [j \in Keys |-> facts[j].count]
           g      == [j \in Keys |-> facts'[j].count]
           h      == [j \in S |-> IF snap[j].count > 1 THEN snap[j].count ELSE 1]
<1>8. /\ Active = others \cup S /\ S = rest \cup {i}
      /\ others \cap S = {} /\ rest \cap {i} = {} /\ others \cap {i} = {}
  BY <1>4
<1>9. Active' = others \cup {i}
  <2>1. \A j \in others : facts'[j].status = "active"
    BY <1>3, <1>4 DEF Active
  <2>2. \A j \in Keys : facts'[j].status = "active" => j \in others \cup {i}
    <3> SUFFICES ASSUME NEW j \in Keys, facts'[j].status = "active", j # i
                 PROVE  j \in Active \ S
      OBVIOUS
    <3>1. j \notin S
      BY <1>3
    <3> QED BY <1>3, <3>1 DEF Active
  <2> QED BY <1>4, <1>5, <2>1, <2>2 DEF Active
<1>10. IsFiniteSet(others) /\ IsFiniteSet(S) /\ IsFiniteSet(rest) /\ IsFiniteSet({i})
  <2>1. IsFiniteSet(Active)
    BY DEF CountInv, RowsCounted
  <2>2. others \in SUBSET Active /\ S \in SUBSET Active /\ rest \in SUBSET Active
    BY <1>4
  <2> QED BY <2>1, <2>2, FS_Subset, FS_Singleton
<1>11. /\ \A j \in Active : f[j] \in Nat /\ f[j] >= 1
       /\ \A j \in others : f[j] = g[j]
       /\ f[i] \in Nat /\ g[i] = f[i] + Added(S, i)
  BY <1>3, <1>4 DEF CountInv, RowsCounted
<1>12. \A j \in rest : h[j] = f[j]
  <2> SUFFICES ASSUME NEW j \in rest PROVE h[j] = f[j]
    OBVIOUS
  <2>1. j \in S /\ j \in Keys /\ snap[j] = facts[j]
    BY <1>1, <1>4
  <2>2. facts[j].count \in Nat /\ facts[j].count >= 1
    BY <1>4, <2>1 DEF CountInv, RowsCounted
  <2> QED BY <2>1, <2>2
<1>13. Added(S, i) = Total(h, rest)
  BY DEF Added
<1>14. Votes = Total(f, Active) /\ Votes' = Total(g, Active')
  BY DEF Votes
<1> HIDE DEF f, g, h, rest, others
<1>15. Added(S, i) = Total(f, rest)
  BY <1>12, <1>13, SameTotal
<1>16. Total(f, others) = Total(g, others)
  BY <1>11, SameTotal
<1>17. Total(f, others) \in Nat /\ Total(f, rest) \in Nat
  BY <1>8, <1>10, <1>11, PileFinite
<1>18. Total(f, S) = Total(f, rest) + f[i]
  <2>1. i \notin rest /\ \A j \in rest : f[j] \in Nat
    BY <1>8, <1>11
  <2> QED BY <1>8, <1>10, <1>11, <2>1, TotalWithOne
<1>19. Total(f, Active) = Total(f, others) + Total(f, S)
  BY <1>8, <1>10, <1>11, TotalOfParts
<1>20. Total(g, others \cup {i}) = Total(g, others) + g[i]
  <2>1. i \notin others /\ g[i] \in Nat /\ \A j \in others : g[j] \in Nat
    BY <1>3, <1>8, <1>11
  <2> QED BY <1>10, <2>1, TotalWithOne
<1>21. Votes' = Votes
  BY <1>9, <1>11, <1>14, <1>15, <1>16, <1>17, <1>18, <1>19, <1>20
<1> QED BY <1>5, <1>7, <1>21

(* When tools and consolidation take turns, a merge leaves behind an       *)
(* active row that was stored as often as the merged one, or is as sure,   *)
(* and the sum of all confirmations is what it was (merge_duplicates adds  *)
(* what it has read to what is there by then).                             *)
THEOREM MergesKeepVotes == Spec => MergeKept
<1>1. TypeInv /\ SafeInv /\ Alone /\ CountInv /\ [Next]_vars
        => [alone => \A k \in Active :
              facts'[k].status = "merged" =>
                /\ \E j \in Active \ {k} :
                     facts'[j].status = "active" /\ Outranks(facts[j], facts[k])
                /\ Votes' = Votes]_vars
  BY OnlyMergeMerges, MergeStep
<1> QED BY <1>1, CountInvariance, PTL DEF Spec, MergeKept
-----------------------------------------------------------------------------
(* What is left of the type: one row is contradicted at a time. *)
OneFound ==
  /\ Cardinality(found) <= 1 /\ (at = "resolve" => found # {})
  /\ work \in 0..MaxWork

LEMMA OneFoundKept == TypeInv /\ OneFound /\ [Next]_vars => OneFound'
<1> SUFFICES ASSUME TypeInv, OneFound, [Next]_vars PROVE OneFound'
  OBVIOUS
<1>1. /\ Cardinality(found) <= 1 /\ (at = "resolve" => found # {})
      /\ work \in 0..MaxWork /\ MaxWork \in Nat
  BY FactStoreAssumption DEF OneFound
<1>2. Cardinality({}) = 0 /\ \A x : Cardinality({x}) = 1
  BY FS_EmptySet, FS_Singleton
<1>3. CASE Remember \/ Correct
  BY <1>1, <1>3 DEF OneFound, Remember, Correct, CallBegins, steps
<1>4. CASE Replace \/ StoreCorrection \/ CallFails \/ UNCHANGED vars
  BY <1>1, <1>4 DEF OneFound, Replace, StoreCorrection, CallFails, steps, vars
<1>5. CASE Extract
  <2>1. work' \in 0..MaxWork
    BY <1>1, <1>5, FactStoreAssumption DEF Extract
  <2>2. at' # "resolve" /\ found' = found
    BY <1>5 DEF Extract
  <2> QED BY <1>1, <2>1, <2>2 DEF OneFound
<1>6. CASE Detect
  <2>1. work' = work
    BY <1>6 DEF Detect
  <2>2. CASE at' = "resolve"
    <3>1. PICK k \in Active : found' = {[key |-> k, conf |-> facts[k].conf]}
      BY <1>6, <2>2 DEF Detect, Advance
    <3> DEFINE x == [key |-> k, conf |-> facts[k].conf]
    <3>2. found' = {x}
      BY <3>1
    <3> HIDE DEF x
    <3>3. Cardinality(found') = 1 /\ found' # {}
      BY <1>2, <3>2
    <3> QED BY <1>1, <2>1, <3>3 DEF OneFound
  <2>3. CASE at' # "resolve"
    <3>1. found' = {}
      BY <1>6, <2>3 DEF Detect
    <3> QED BY <1>1, <1>2, <2>1, <2>3, <3>1 DEF OneFound
  <2> QED BY <2>2, <2>3
<1>7. CASE Resolve \/ DropBatch \/ Restart
  <2>1. found' = {} /\ work' = work /\ at' # "resolve"
    BY <1>7 DEF Resolve, Advance, DropBatch, BatchEnds, Restart
  <2> QED BY <1>1, <1>2, <2>1 DEF OneFound
<1>8. CASE Promote \/ Prune \/ ReadFading \/ ReadAlike \/ Fade \/ Merge \/ Finish
  <2>1. found' = found /\ work' = work /\ at' # "resolve"
    BY <1>8 DEF Promote, BatchEnds, Prune, ReadFading, ReadAlike, ReadRows, Fade, Merge, Finish
  <2> QED BY <1>1, <2>1 DEF OneFound
<1> QED BY <1>3, <1>4, <1>5, <1>6, <1>7, <1>8 DEF Next

(* Every row, call, statement and snapshot keeps its type, over any calls, *)
(* failures and restarts.                                                  *)
THEOREM FactTypes == Spec => []TypeOK
<1>1. Init => OneFound
  BY FactStoreAssumption, FS_EmptySet DEF Init, OneFound
<1>2. TypeInv /\ CountInv /\ OneFound => TypeOK
  BY RowsAreNumbered DEF TypeInv, Shape, CountInv, SnapCounted, OneFound, TypeOK
<1> QED BY <1>1, <1>2, OneFoundKept, CountInvariance, PTL DEF Spec
=============================================================================
