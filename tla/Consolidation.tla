--------------------------- MODULE Consolidation ---------------------------
(***************************************************************************)
(* What a conversation leaves behind: every few turns the agent hands the  *)
(* latest turn to the consolidator, which notes it as an observation, asks *)
(* the model for facts, an experience and an insight, lets the             *)
(* relationship grow, prunes, and forgets the batch if its facts were      *)
(* extracted. What becomes of a fact is in FactStore, of a clue in         *)
(* CareList.                                                               *)
(*                                                                         *)
(* Code: MemoryConsolidator (memory/consolidation.py), _process_emotion    *)
(* (core/agent.py), the experiences, insights and relationship of          *)
(* Repository (storage/repository.py), observe and contradict_fact         *)
(* (memory/lifecycle.py).                                                  *)
(*                                                                         *)
(* One consolidation at a time, as on the Web and in the line-mode CLI:    *)
(* those who speak meanwhile only add turns. Numbers of turns go on after  *)
(* a restart, where the code starts again: nothing of the buffer survives  *)
(* to be compared with. A step is one model call with what is stored of    *)
(* its answer. Levels are percentages.                                     *)
(***************************************************************************)
EXTENDS Integers, Sequences, FiniteSets, FiniteSetsExt, SequencesExt

CONSTANTS
  Interval,        \* consolidation_interval
  Every2, Every3,  \* how often the insights of level 2 and 3 are due: 3, 10
  Unified,         \* consolidation_unified_call
  MaxExperiences, MaxInsights,
  Claimed,         \* confidences the model gives an insight, in percent
  Dims,            \* metrics of the relationship
  Levels,          \* where the relationship may stand at first
  TurnMax,         \* bound on the turns
  SaveMax,         \* bound on /save
  DoubtMin         \* bound: what is less sure than this is not doubted again

ASSUME ConsolidationAssumption ==
  /\ Interval \in Nat \ {0} /\ Every2 \in Nat \ {0} /\ Every3 \in Nat \ {0}
  /\ Unified \in BOOLEAN
  /\ MaxExperiences \in Nat /\ MaxInsights \in Nat
  /\ Dims \subseteq {"familiarity", "trust", "intimacy", "playfulness"}
  /\ Claimed \subseteq 0..100 /\ Levels \subseteq 0..100
  /\ TurnMax \in Nat /\ SaveMax \in Nat /\ DoubtMin \in Nat

VARIABLES
  spoken,      \* turns in the buffer, ever
  last,        \* the latest of them
  count,       \* turn_count
  saves,       \* what of SaveMax is used up
  at,          \* where the exchange, and then its consolidation, stands
  buffered,    \* _pending_buffer
  seenIds,     \* _seen_ids
  signature,   \* _last_obs_sig: the batch observed last
  rounds,      \* _consolidation_count
  batch,       \* the text that is being consolidated, as turns
  answer,      \* the sections of the unified answer; none: three calls
  news,        \* _batch_new_info
  failed,      \* "facts" in errors
  observations,  \* rows: the batches they were made of
  experiences,   \* how many rows are not archived
  insights,      \* the active rows of insights_v2, oldest first
  bond,          \* the relationship metrics
  handed,      \* history: the turns given to the consolidator
  gone,        \* history: those a restart has taken from the buffer
  extracted,   \* history: how often each turn has had its facts extracted
  fresh        \* history: whether this batch has brought a fact or experience

talk  == <<spoken, last, count, saves>>
queue == <<buffered, seenIds, signature, rounds>>
task  == <<batch, answer, news, failed, fresh>>
store == <<observations, experiences, insights, bond>>
told  == <<handed, gone, extracted>>
consVars == <<talk, at, queue, task, store, told>>

Speakers  == {"user", "assistant"}
Turn      == [id : 1..TurnMax, role : Speakers]
NoTurn    == [id |-> 0, role |-> "assistant"]
NoBatch   == <<NoTurn>>
Sections  == {"FACTS", "EXPERIENCE", "INSIGHT"}
Insight   == [conf : 0..100, cites : BOOLEAN, needs : BOOLEAN]
Places    == {"idle", "asked", "replied", "observe", "ask", "facts",
              "experience", "insight", "relationship", "prune", "finish"}

ConsTypeOK ==
  /\ spoken \in 0..TurnMax /\ last \in Turn \cup {NoTurn}
  /\ count \in Nat /\ saves \in 0..SaveMax /\ rounds \in Nat
  /\ at \in Places
  /\ buffered \in Seq(Turn) /\ seenIds \subseteq Turn
  /\ signature \in Seq(Turn) \cup {NoBatch}
  /\ batch \in Seq(Turn) /\ answer \subseteq Sections
  /\ news \in BOOLEAN /\ failed \in BOOLEAN /\ fresh \in BOOLEAN
  /\ observations \subseteq Seq(Turn)
  /\ experiences \in Nat /\ insights \in Seq(Insight)
  /\ bond \in [Dims -> 0..100]
  /\ handed \subseteq 1..TurnMax /\ gone \subseteq handed
  /\ extracted \in [1..TurnMax -> Nat]
-----------------------------------------------------------------------------
TurnIds(turns) == {turns[i].id : i \in DOMAIN turns}
Saying(n, role) ==
  /\ spoken + n <= TurnMax /\ spoken' = spoken + n
  /\ last' = [id |-> spoken + n, role |-> role]

(* The turns of an exchange, and those of others: the driver's, and the    *)
(* two of a message that meets a sleeper.                                  *)
UserTurn ==
  /\ at = "idle" /\ at' = "asked"
  /\ Saying(1, "user")
  /\ UNCHANGED <<count, saves, queue, task, store, told>>

ReplyTurn ==
  /\ at = "asked" /\ at' = "replied"
  /\ Saying(1, "assistant") /\ count' = count + 1
  /\ UNCHANGED <<saves, queue, task, store, told>>

Abort ==
  /\ at = "asked" /\ at' = "idle"
  /\ UNCHANGED <<talk, queue, task, store, told>>

Speak ==
  /\ \/ at \in {"idle", "asked", "replied"} /\ Saying(1, "assistant")
        /\ count' = count + 1
     \/ at = "idle" /\ Saying(2, "assistant") /\ count' = count + 2
  /\ UNCHANGED <<at, saves, queue, task, store, told>>

Forget ==
  /\ at = "idle" /\ last # NoTurn /\ last' = NoTurn
  /\ UNCHANGED <<spoken, count, saves, at, queue, task, store, told>>
-----------------------------------------------------------------------------
StaleNewsFault(turns) ==
  /\ batch' = turns
  /\ at' = IF turns = <<>> THEN "prune" ELSE "observe"
  /\ answer' = {} /\ failed' = FALSE /\ fresh' = FALSE /\ news' = news
(* The start of consolidate. *)
Start(turns) ==
  /\ batch' = turns
  /\ at' = IF turns = <<>> THEN "prune" ELSE "observe"
  /\ answer' = {} /\ failed' = FALSE /\ fresh' = FALSE
  /\ news' = IF turns = <<>> THEN news ELSE FALSE

AddPending(turn) ==
  /\ buffered' = IF turn \in seenIds THEN buffered ELSE Append(buffered, turn)
  /\ seenIds' = seenIds \cup {turn}
  /\ handed' = handed \cup {turn.id}

(* _process_emotion, behind the reply: the latest turn is handed over when *)
(* the count is a multiple of the interval. *)
PostProcess ==
  /\ at = "replied"
  /\ IF count % Interval = 0 /\ last # NoTurn
     THEN /\ AddPending(last) /\ Start(buffered')
     ELSE at' = "idle" /\ UNCHANGED <<buffered, seenIds, handed, task>>
  /\ UNCHANGED <<talk, signature, rounds, store, gone, extracted>>

(* /save and the end of the CLI. *)
Save ==
  /\ at = "idle" /\ saves < SaveMax /\ saves' = saves + 1
  /\ Start(buffered)
  /\ UNCHANGED <<spoken, last, count, queue, store, told>>

Level == IF rounds % Every3 = 0 THEN 3 ELSE IF rounds % Every2 = 0 THEN 2 ELSE 1

(* The observation of a batch, unless the batch is the one of last time,   *)
(* or it fails. *)
Observe ==
  /\ at = "observe"
  /\ \/ signature = batch /\ UNCHANGED <<signature, observations>>
     \/ /\ signature # batch /\ signature' = batch
        /\ observations' = observations \cup {batch}
     \/ signature # batch /\ UNCHANGED <<signature, observations>>
  /\ rounds' = rounds + 1
  /\ at' = IF Unified /\ Level' = 1 THEN "ask" ELSE "facts"
  /\ UNCHANGED <<talk, buffered, seenIds, task, experiences, insights, bond,
                 told>>

(* _consolidate_unified: whatever has no section at all, no answer and an  *)
(* error included, falls back to the three calls. *)
Ask ==
  /\ at = "ask" /\ at' = "facts"
  /\ answer' \in SUBSET Sections
  /\ UNCHANGED <<talk, queue, batch, news, failed, fresh, store, told>>

Answered(section) == answer # {} => section \in answer
UserSpeaks(turns) == \E i \in DOMAIN turns : turns[i].role = "user"

SwallowFault ==
  /\ at = "facts" /\ at' = "experience"
  /\ UNCHANGED <<failed, news, fresh, extracted>>
  /\ UNCHANGED <<talk, queue, batch, answer, store, handed, gone>>
(* The facts, if any, each grounded in a user's turn of the batch. No      *)
(* answer, no section, and an error before the writes are a failure of the *)
(* batch; the write of one fact may fail, which is only logged. *)
Facts ==
  /\ at = "facts" /\ at' = "experience"
  /\ \/ /\ Answered("FACTS")
        /\ \E found \in {FALSE, UserSpeaks(batch)} :
             news' = (news \/ found) /\ fresh' = (fresh \/ found)
        /\ extracted' = [i \in DOMAIN extracted |->
                           IF i \in TurnIds(batch) THEN extracted[i] + 1
                                                   ELSE extracted[i]]
        /\ UNCHANGED failed
     \/ failed' = TRUE /\ UNCHANGED <<news, fresh, extracted>>
  /\ UNCHANGED <<talk, queue, batch, answer, store, handed, gone>>

(* An experience, of a long batch and if it is significant; what fails     *)
(* here costs the batch nothing. *)
Experience ==
  /\ at = "experience" /\ at' = "insight"
  /\ \/ /\ Answered("EXPERIENCE")
        /\ experiences' = experiences + 1
        /\ news' = TRUE /\ fresh' = TRUE
     \/ UNCHANGED <<experiences, news, fresh>>
  /\ UNCHANGED <<talk, queue, batch, answer, failed, observations, insights,
                 bond, told>>
-----------------------------------------------------------------------------
Gate == IF Level = 1 THEN 40 ELSE IF Level = 2 THEN 30 ELSE 50
(* _store_insight_from_json: without evidence, or unsure, it needs more,   *)
(* whatever the model says. *)
NeedsMore(conf, cites, asks) == asks \/ ~cites \/ conf < 70

(* The insight: of level 1 only if the batch brought something new. *)
Reflect ==
  /\ at = "insight" /\ at' = "relationship"
  /\ \/ /\ Level = 1 => news /\ Answered("INSIGHT")
        /\ \E conf \in Claimed, cites \in BOOLEAN, asks \in BOOLEAN :
             /\ conf > Gate
             /\ insights' = Append(insights,
                  [conf |-> conf, cites |-> cites,
                   needs |-> NeedsMore(conf, cites, asks)])
     \/ UNCHANGED insights
  /\ answer' = {} /\ fresh' = FALSE
  /\ UNCHANGED <<talk, queue, batch, news, failed, observations, experiences,
                 bond, told>>

Raised(v, by)  == IF v + by > 100 THEN 100 ELSE v + by
Lowered(v, by) == IF v < by THEN 0 ELSE v - by

(* _update_relationship. What the user says counts only if a turn of the   *)
(* user is among the last three of the batch. *)
Moods  == {"trusting", "content", "engaged", "joyful", "negative", "bored"}
Change(d, mood, kind, sharing) ==
  CASE d = "familiarity" -> Raised(bond[d], 2)
    [] d = "trust" /\ mood = "trusting" -> Raised(bond[d], 5)
    [] d = "trust" /\ mood # "trusting" /\ kind -> Raised(bond[d], 4)
    [] d = "intimacy" /\ sharing -> Raised(bond[d], 3)
    [] d = "intimacy" /\ ~sharing /\ mood \in {"trusting", "content", "engaged"}
         -> Raised(bond[d], 2)
    [] d = "playfulness" /\ mood \in {"trusting", "content", "engaged", "joyful"}
         -> Raised(bond[d], 2)
    [] d \in {"trust", "playfulness"} /\ mood = "negative"
         -> Lowered(bond[d], 2)
    [] OTHER -> bond[d]
Order == <<"familiarity", "trust", "intimacy", "playfulness">>
Relate ==
  /\ at = "relationship" /\ at' = "prune"
  /\ \E mood \in Moods, kind \in BOOLEAN, sharing \in BOOLEAN, n \in 0..4 :
       /\ kind \/ sharing =>
            \E i \in DOMAIN batch : i > Len(batch) - 3 /\ batch[i].role = "user"
       /\ bond' = [d \in Dims |-> IF d \in ToSet(SubSeq(Order, 1, n))
                                  THEN Change(d, mood, kind, sharing)
                                  ELSE bond[d]]
  /\ batch' = <<>>
  /\ UNCHANGED <<talk, queue, answer, news, failed, fresh, observations,
                 experiences, insights, told>>
-----------------------------------------------------------------------------
Weaker(i, j) ==
  \/ insights[i].conf < insights[j].conf
  \/ insights[i].conf = insights[j].conf /\ i < j

(* The excess goes: of the experiences, by a score that is left out here;  *)
(* of the insights, the least sure and then the oldest. *)
PruneExperiences ==
  experiences' = IF experiences > MaxExperiences THEN MaxExperiences
                                                 ELSE experiences
PruneInsights ==
  LET size == IF Len(insights) > MaxInsights THEN MaxInsights
                                             ELSE Len(insights) IN
  \E S \in kSubset(size, DOMAIN insights) :
    /\ \A i \in DOMAIN insights \ S, j \in S : Weaker(i, j)
    /\ LET kept == SetToSortSeq(S, LAMBDA i, j : i < j) IN
       insights' = [n \in 1..size |-> insights[kept[n]]]

(* _prune: one after the other, and an error ends it. *)
Prune ==
  /\ at = "prune" /\ at' = "finish"
  /\ \/ UNCHANGED <<experiences, insights>>
     \/ PruneExperiences /\ UNCHANGED insights
     \/ PruneExperiences /\ PruneInsights
  /\ UNCHANGED <<talk, queue, task, observations, bond, told>>

KeepAnyFault ==
  /\ at = "finish" /\ at' = "idle"
  /\ \/ UNCHANGED <<buffered, seenIds>>
     \/ ~failed /\ buffered' = <<>> /\ seenIds' = {}
  /\ UNCHANGED <<talk, signature, rounds, task, store, told>>
(* The batch is forgotten unless its facts have failed. *)
Finish ==
  /\ at = "finish" /\ at' = "idle"
  /\ IF failed THEN UNCHANGED <<buffered, seenIds>>
               ELSE buffered' = <<>> /\ seenIds' = {}
  /\ UNCHANGED <<talk, signature, rounds, task, store, told>>
-----------------------------------------------------------------------------
Suspected(row) == [row EXCEPT !.conf = @ \div 2, !.needs = TRUE]
(* contradict_fact, for the memory agent: the active insights that cite    *)
(* the fact, each written by itself; what fails is logged. *)
Overturn ==
  /\ at = "asked"
  /\ \E i \in DOMAIN insights :
       /\ insights[i].cites /\ insights[i].conf >= DoubtMin
       /\ insights' = [insights EXCEPT ![i] = Suspected(@)]
  /\ UNCHANGED <<talk, at, queue, task, observations, experiences, bond, told>>

Restart ==
  /\ at' = "idle"
  /\ last' = NoTurn
  /\ buffered' = <<>> /\ seenIds' = {} /\ signature' = NoBatch /\ rounds' = 0
  /\ batch' = <<>> /\ answer' = {} /\ news' = FALSE /\ failed' = FALSE
  /\ fresh' = FALSE
  /\ gone' = gone \cup TurnIds(buffered)
  /\ UNCHANGED <<spoken, count, saves, store, handed, extracted>>
-----------------------------------------------------------------------------
ConsInit ==
  /\ spoken = 0 /\ last = NoTurn /\ count = 0 /\ saves = 0
  /\ at = "idle"
  /\ buffered = <<>> /\ seenIds = {} /\ signature = NoBatch /\ rounds = 0
  /\ batch = <<>> /\ answer = {} /\ news = FALSE /\ failed = FALSE
  /\ fresh = FALSE
  /\ observations = {} /\ experiences = 0 /\ insights = <<>>
  /\ \E v \in Levels : bond = [d \in Dims |-> v]
  /\ handed = {} /\ gone = {}
  /\ extracted = [i \in 1..TurnMax |-> 0]

ConsNext ==
  \/ UserTurn \/ ReplyTurn \/ Abort \/ Speak \/ Forget \/ PostProcess \/ Save
  \/ Observe \/ Ask \/ Facts \/ Experience \/ Reflect \/ Relate \/ Prune
  \/ Finish \/ Overturn \/ Restart

ConsSpec == ConsInit /\ [][ConsNext]_consVars
-----------------------------------------------------------------------------
(* Properties. *)

(* A turn that was handed over is not lost: its facts have been extracted, *)
(* or it still waits, through answers that fail, lack their section or     *)
(* cannot be parsed, and through failures of every other step; only a      *)
(* restart loses what waits (consolidate, step 8).                         *)
TurnsKept ==
  \A i \in handed : extracted[i] > 0 \/ i \in TurnIds(buffered) \cup gone

(* The facts of a turn are extracted once: no failure of a later step, and *)
(* no /save, has the same words confirm a fact a second time (consolidate, *)
(* step 8; upsert_fact_v2 counts every confirmation).                      *)
ExtractedOnce == \A i \in 1..TurnMax : extracted[i] <= 1

(* An insight of level 1 is stored only for a batch that itself brought a  *)
(* fact or an experience, whichever way it was asked for, and never on the *)
(* strength of the batch before (_batch_new_info).                         *)
InsightEarned ==
  [][Len(insights') > Len(insights) /\ Level = 1 => fresh]_consVars

(* The text that is searched for facts about the user holds something the  *)
(* user said (doc/technical.md 4.3). It does not hold: what is handed over *)
(* is the latest turn behind a reply, which is the reply.                  *)
UserHeard == at = "facts" => UserSpeaks(batch)
=============================================================================
