----------------------------- MODULE FactStore -----------------------------
(***************************************************************************)
(* What a character believes about the user: the rows of facts_v2, and     *)
(* those who write them, the remember tool, the consolidation of what was  *)
(* said, with its search for contradictions, and the housekeeping after    *)
(* it.                                                                     *)
(*                                                                         *)
(* Code: the facts of Repository (storage/repository.py), FactChecker      *)
(* (memory/fact_checker.py), _parse_fact_lines (memory/consolidation.py),  *)
(* MemoryLifecycleManager (memory/lifecycle.py), LongTermMemory            *)
(* (memory/long_term.py), RememberTool (tools/memory_tools.py).            *)
(*                                                                         *)
(* A step is one transaction, or the reading before one. Confidence and    *)
(* freshness are percentages, rounded down.                                *)
(***************************************************************************)
EXTENDS Integers, Sequences, FiniteSets, FiniteSetsExt, Functions

CONSTANTS
  Keys,          \* the fact keys of one category
  Values,        \* what a fact may say
  NoValue,
  Claimed,       \* confidences the model gives what it extracts
  Fades,         \* what time leaves of a fact, 0.99 to the power of its days
  MaxFacts,      \* max_facts
  MaxBatch,      \* bound on the facts of one extraction
  MaxWork        \* bound on tool calls, consolidations and their facts

(* Nothing up to 0.3 is kept of an extraction. *)
ASSUME FactStoreAssumption ==
  /\ NoValue \notin Values
  /\ Claimed \subseteq 31..100
  /\ Fades \subseteq 0..99
  /\ MaxFacts \in Nat /\ MaxBatch \in Nat /\ MaxWork \in Nat

VARIABLES
  facts,      \* the row of each key
  alone,      \* tools and consolidation take turns: the Web and the CLI, as
              \* long as no tool outlives its timeout; not so in the TUI
  tool,       \* the call of remember under way, and how far it is
  at,         \* where consolidation stands
  batch,      \* the facts it has extracted
  next,       \* the one it works on
  found,      \* the row it contradicts, as it was read, if any
  snap,       \* the active rows as housekeeping has read them
  work,       \* what of MaxWork is used up
  said,       \* history: the highest confidence each value was stored with
  trust       \* history: each row's confidence when the consolidation began,
              \* and how often it was contradicted since

files == <<facts, said>>
steps == <<at, batch, next, found, snap>>
vars  == <<facts, alone, tool, at, batch, next, found, snap, work, said,
           trust>>

Percent   == 0..100
Statuses  == {"none", "active", "contradicted", "decayed", "merged", "expired"}
Row(C)    == [status : Statuses, value : Values \cup {NoValue}, conf : Percent,
              fresh : Percent, count : C]
Statement == [key : Keys, value : Values, conf : Claimed]
NoRow     == [status |-> "none", value |-> NoValue, conf |-> 0, fresh |-> 0,
              count |-> 0]
Rest      == [at |-> "idle"]
Calls     == {Rest} \cup
             [at : {"replacing", "storing"}, key : Keys, value : Values]
GC        == {"fade", "fading", "merge", "merging"}
Places    == {"idle", "detect", "resolve", "promote", "prune"} \cup GC

TypeOK ==
  /\ facts \in [Keys -> Row(Nat)]
  /\ alone \in BOOLEAN
  /\ tool \in Calls
  /\ at \in Places
  /\ batch \in Seq(Statement) /\ next \in Nat
  /\ at \in {"detect", "resolve", "promote"} => next \in DOMAIN batch
  /\ found \subseteq [key : Keys, conf : Percent] /\ Cardinality(found) <= 1
  /\ at = "resolve" => found # {}
  /\ DOMAIN snap \subseteq Keys /\ \A k \in DOMAIN snap : snap[k] \in Row(Nat)
  /\ work \in 0..MaxWork
  /\ said \in [Keys -> [Values -> Percent]]
  /\ trust \in [Keys -> [conf : Percent, blows : Nat]]
-----------------------------------------------------------------------------
Untouched == [k \in Keys |-> [conf |-> 0, blows |-> 0]]
Of(p, n)  == (n * p) \div 100
Active    == {k \in Keys : facts[k].status = "active"}
Visible   == {k \in Active : facts[k].conf >= 20}
Marked(r, s) == [r EXCEPT !.status = s]

(* Faults: mistakes that the runs must catch, each before the definition   *)
(* it stands in for; no specification uses them.                           *)
LatestFault(r, v, c) ==
  [status |-> "active", value |-> v,
   conf |-> IF c > r.conf THEN c ELSE r.conf, fresh |-> 100,
   count |-> r.count + 1]
(* upsert_fact_v2, on a row or on none: a value as sure as the one there   *)
(* replaces it, and in any case the row is visible again.                  *)
Upserted(r, v, c) ==
  [status |-> "active",
   value  |-> IF c >= r.conf THEN v ELSE r.value,
   conf   |-> IF c >= r.conf THEN c ELSE r.conf,
   fresh  |-> 100,
   count  |-> r.count + 1]

Store(k, v, c) ==
  /\ facts' = [facts EXCEPT ![k] = Upserted(@, v, c)]
  /\ said' = [said EXCEPT ![k][v] = IF c > @ THEN c ELSE @]
-----------------------------------------------------------------------------
(* RememberTool. *)
CallBegins ==
  /\ tool = Rest /\ (alone => at = "idle")
  /\ work < MaxWork /\ work' = work + 1
  /\ UNCHANGED <<alone, steps, trust>>

Remember ==
  /\ CallBegins
  /\ \E k \in Keys, v \in Values : Store(k, v, 90)
  /\ UNCHANGED tool

(* correct: the fact there is, if it is visible and among the first five   *)
(* found, is hidden before the right one is stored.                        *)
Correct ==
  /\ CallBegins
  /\ \E k \in Keys, v \in Values, step \in {"replacing", "storing"} :
       /\ step = "replacing" => k \in Visible
       /\ tool' = [at |-> step, key |-> k, value |-> v]
  /\ UNCHANGED files

Replace ==
  /\ tool.at = "replacing"
  /\ facts' = [facts EXCEPT ![tool.key] = Marked(@, "contradicted")]
  /\ tool' = [tool EXCEPT !.at = "storing"]
  /\ UNCHANGED <<alone, steps, work, said, trust>>

StoreCorrection ==
  /\ tool.at = "storing"
  /\ Store(tool.key, tool.value, 100)
  /\ tool' = Rest
  /\ UNCHANGED <<alone, steps, work, trust>>

CallFails ==
  /\ tool # Rest /\ tool' = Rest
  /\ UNCHANGED <<alone, files, steps, work, trust>>
-----------------------------------------------------------------------------
(* _parse_fact_lines, with the facts that are grounded in what the user    *)
(* said: first the contradictions of all of them, then the writes.         *)
Extract ==
  /\ at = "idle" /\ (alone => tool = Rest)
  /\ \E n \in 0..MaxBatch :
       /\ work + n < MaxWork /\ work' = work + n + 1
       /\ batch' \in [1..n -> Statement]
  /\ next' = 1
  /\ at' = IF batch' = <<>> THEN "prune" ELSE "detect"
  /\ trust' = [k \in Keys |-> [conf |-> facts[k].conf, blows |-> 0]]
  /\ UNCHANGED <<alone, files, tool, found, snap>>

Fact == batch[next]
Advance ==
  IF next < Len(batch) THEN next' = next + 1 /\ at' = "detect"
                       ELSE next' = 1 /\ at' = "promote"

(* The row of the same key if it differs and is among the first five;      *)
(* otherwise any that is alike, by its vector or its words, unless the     *)
(* model, asked again, finds no contradiction.                             *)
Detect ==
  /\ at = "detect"
  /\ \/ /\ \E k \in Active :
             /\ facts[k].value # Fact.value
             /\ found' = {[key |-> k, conf |-> facts[k].conf]}
        /\ at' = "resolve" /\ UNCHANGED next
     \/ found' = {} /\ Advance
  /\ UNCHANGED <<alone, files, tool, batch, snap, work, trust>>

HarshFault(c, old) == Of(40, old)
(* What a contradiction leaves of a confidence: less, if the new fact is   *)
(* at least half as sure.                                                  *)
Penalised(c, old) == IF 2 * c < old THEN Of(70, old) ELSE Of(40, old)

(* FactChecker.resolve, from the confidence that was read. *)
Resolve ==
  /\ at = "resolve"
  /\ \E f \in found :
       LET left == Penalised(Fact.conf, f.conf) IN
       /\ facts' = [facts EXCEPT ![f.key] =
                      IF left < 20 THEN Marked(@, "contradicted")
                                   ELSE [@ EXCEPT !.conf = left]]
       /\ trust' = [trust EXCEPT ![f.key].blows = @ + 1]
  /\ found' = {}
  /\ Advance
  /\ UNCHANGED <<alone, tool, batch, snap, work, said>>

BatchEnds ==
  at' = "prune" /\ batch' = <<>> /\ next' = 1 /\ trust' = Untouched

(* A write that fails is logged, and the next one follows. *)
Promote ==
  /\ at = "promote"
  /\ \/ Store(Fact.key, Fact.value, Fact.conf)
     \/ UNCHANGED files
  /\ IF next < Len(batch)
     THEN next' = next + 1 /\ UNCHANGED <<at, batch, trust>>
     ELSE BatchEnds
  /\ UNCHANGED <<alone, tool, found, snap, work>>

(* An error while contradictions are sought drops the batch. *)
DropBatch ==
  /\ at \in {"detect", "resolve"}
  /\ BatchEnds /\ found' = {}
  /\ UNCHANGED <<alone, files, tool, snap, work>>
-----------------------------------------------------------------------------
(* Housekeeping. *)

(* prune_facts, which an error leaves undone: the order of the rows weighs *)
(* in an importance that is left out here. Every few consolidations the    *)
(* lifecycle's collection follows.                                         *)
Prune ==
  /\ at = "prune"
  /\ LET excess == Cardinality(Active) - MaxFacts IN
     \/ UNCHANGED facts
     \/ /\ excess > 0
        /\ \E S \in kSubset(excess, Active) :
             facts' = [k \in Keys |-> IF k \in S THEN Marked(facts[k], "expired")
                                                 ELSE facts[k]]
  /\ at' \in {"idle", "fade"}
  /\ UNCHANGED <<alone, tool, batch, next, found, snap, work, said, trust>>

ReadRows(from, to) ==
  /\ at = from /\ at' = to
  /\ snap' = [k \in Active |-> facts[k]]
  /\ UNCHANGED <<alone, files, tool, batch, next, found, work, trust>>

(* decay, and the one transaction of decay_facts_v2_batch. *)
ReadFading == ReadRows("fade", "fading")
UnmarkedFault(row, f, lost) ==
  [row EXCEPT !.fresh = Of(f, @), !.conf = Of(f, @)]
Faded(row, f, lost) ==
  [row EXCEPT !.fresh = Of(f, @), !.conf = Of(f, @),
              !.status = IF lost THEN "decayed" ELSE @]
Fade ==
  /\ at = "fading"
  /\ \E f \in [DOMAIN snap -> Fades] :
       facts' = [k \in Keys |->
                   IF k \in DOMAIN snap
                   THEN Faded(facts[k], f[k], Of(f[k], snap[k].fresh) < 20)
                   ELSE facts[k]]
  /\ at' = "merge"
  /\ UNCHANGED <<alone, tool, batch, next, found, snap, work, said, trust>>

(* merge_duplicates: of rows alike, the one verified most often stays, and *)
(* takes over what the others had. *)
ReadAlike == ReadRows("merge", "merging")
Outranks(r, s) ==
  r.count > s.count \/ (r.count = s.count /\ r.conf >= s.conf)
(* The sum of f over S, as the number of as many pairs. *)
Pile(f, S)  == UNION {{j} \X (1..f[j]) : j \in S}
Total(f, S) == Cardinality(Pile(f, S))
Added(S, k) == Total([j \in S |-> IF snap[j].count > 1 THEN snap[j].count ELSE 1],
                     S \ {k})
WeakestFault(S, k) == \A j \in S : Outranks(snap[j], snap[k])
Keeper(S, k) == \A j \in S : Outranks(snap[k], snap[j])
Merge ==
  /\ at = "merging"
  /\ \E S \in SUBSET DOMAIN snap : \E k \in S :
       /\ Cardinality(S) > 1 /\ Keeper(S, k)
       /\ facts' = [j \in Keys |->
                      IF j = k THEN [facts[j] EXCEPT !.count = @ + Added(S, k)]
                      ELSE IF j \in S THEN Marked(facts[j], "merged")
                      ELSE facts[j]]
       /\ snap' = [j \in DOMAIN snap \ S |-> snap[j]]
  /\ UNCHANGED <<alone, tool, at, batch, next, found, work, said, trust>>

(* The end, or an error. *)
Finish ==
  /\ at \in {"merging", "fade", "fading", "merge"}
  /\ at' = "idle" /\ snap' = <<>>
  /\ UNCHANGED <<alone, files, tool, batch, next, found, work, trust>>

(* The process ends and starts again: the rows are on disk. *)
Restart ==
  /\ tool # Rest \/ at # "idle"
  /\ tool' = Rest /\ at' = "idle"
  /\ found' = {} /\ snap' = <<>> /\ batch' = <<>> /\ next' = 1
  /\ trust' = Untouched
  /\ UNCHANGED <<alone, files, work>>
-----------------------------------------------------------------------------
Init ==
  /\ facts = [k \in Keys |-> NoRow]
  /\ alone \in BOOLEAN
  /\ tool = Rest
  /\ at = "idle" /\ batch = <<>> /\ next = 1 /\ found = {} /\ snap = <<>>
  /\ work = 0
  /\ said = [k \in Keys |-> [v \in Values |-> 0]]
  /\ trust = Untouched

Next ==
  \/ Remember \/ Correct \/ Replace \/ StoreCorrection \/ CallFails
  \/ Extract \/ Detect \/ Resolve \/ Promote \/ DropBatch
  \/ Prune \/ ReadFading \/ Fade \/ ReadAlike \/ Merge \/ Finish
  \/ Restart

Spec == Init /\ [][Next]_vars
-----------------------------------------------------------------------------
(* Properties. *)

(* No fact is held with more confidence than its value was ever stored     *)
(* with, whatever contradictions, collections and merges have done to it,  *)
(* and even when remember writes while a contradiction is being weighed    *)
(* (upsert_fact_v2 keeps a less sure value out; resolve uses the           *)
(* confidence it read some time before).                                   *)
HonestConfidence ==
  \A k \in Keys :
    facts[k].value # NoValue => facts[k].conf <= said[k][facts[k].value]

(* What has faded below the threshold is not offered as a fact any more,   *)
(* although decay decides from rows it read before (decay,                 *)
(* decay_facts_v2_batch).                                                  *)
ActiveFresh == \A k \in Active : facts[k].fresh >= 20

(* A value gives way to another. *)
Replaced(k) ==
  facts[k].value # NoValue /\ facts'[k].value # facts[k].value

(* In one consolidation, a value that was contradicted once gives way only *)
(* to a batch with a remark at least half as sure as it was: a passing     *)
(* remark does not overturn what is known (FactChecker.resolve, then       *)
(* upsert_fact_v2).                                                        *)
OneRemark ==
  [][alone => \A k \in Keys :
       Replaced(k) /\ trust[k].blows <= 1 =>
         \E c \in {facts'[k].conf} \cup {s.conf : s \in Range(batch)} :
           2 * c >= trust[k].conf]_vars

Votes == Total([k \in Keys |-> facts[k].count], Active)
(* A merged fact leaves behind an active one that was stored as often or   *)
(* is as sure, and no confirmation is lost (merge_duplicates,              *)
(* merge_facts_v2).                                                        *)
MergeKept ==
  [][alone => \A k \in Active :
       facts'[k].status = "merged" =>
         /\ \E j \in Active \ {k} :
              facts'[j].status = "active" /\ Outranks(facts[j], facts[k])
         /\ Votes' = Votes]_vars
=============================================================================
