------------------------------ MODULE CareList ------------------------------
(***************************************************************************)
(* The inner world of a character: what it has on its mind, each entry     *)
(* with a priority, and how a proactive message draws on one of them. The  *)
(* think loop of the driver, the consolidator, the memory agent and the    *)
(* message handler all work on one list, an operation at a time, and on    *)
(* its file.                                                               *)
(*                                                                         *)
(* Code: InnerDriveState (core/inner_drive_state.py), assess_proactive     *)
(* (core/inner_drive.py), the outcome of a proactive message               *)
(* (core/proactivity.py, core/message_handler.py), _extract_care_clues     *)
(* (memory/consolidation.py).                                              *)
(*                                                                         *)
(* Priorities are percentages, rounded down. Of the types the list tells   *)
(* apart, a plan may expire, and only entries of a type are rewarded       *)
(* together; the weights of the surfacing score are a choice.              *)
(***************************************************************************)
EXTENDS Integers, Sequences, FiniteSets, SequencesExt, Places

CONSTANTS
  Contents,      \* what may be on its mind; near-duplicates are one of them
  PlanLike,      \* those that come as plans, with a date
  Given,         \* priorities entries start with
  MaxEntries,    \* inner_drive_care_list_size
  SurfaceK,      \* inner_drive_surface_top_k
  MaxRounds,     \* proactive_think_max_rounds
  WorkMax        \* bound on operations

ASSUME CareAssumption ==
  /\ PlanLike \subseteq Contents /\ Given \subseteq 0..100
  /\ MaxEntries \in Nat \ {0} /\ SurfaceK \in Nat \ {0}
  /\ MaxRounds \in Nat \ {0} /\ WorkMax \in Nat

VARIABLES
  list,      \* _entries, oldest first
  loaded,    \* _loaded
  mindFile,  \* what the state file holds, or that it cannot be read
  round,     \* the round of the think loop; 0: not thinking
  care,      \* _last_proactive_care: the number of an entry, or 0
  judging,   \* the user's answer to it is being weighed
  used,      \* what of WorkMax is used up
  born,      \* history: how many entries there have ever been
  closed     \* history: the entries whose end has reached the file

careVars ==
  <<list, loaded, mindFile, round, care, judging, used, born, closed>>

Statuses == {"active", "resolved", "expired", "decayed"}
(* id: the number the code gives; self: which entry it really is.          *)
Entry == [id : Nat \ {0}, self : Nat, content : Contents, prio : 0..100,
          status : Statuses]
Torn  == [torn |-> TRUE, list |-> <<>>]
Whole(l) == [torn |-> FALSE, list |-> l]

CareTypeOK ==
  /\ list \in Seq(Entry) /\ loaded \in BOOLEAN
  /\ mindFile.torn \in BOOLEAN /\ mindFile.list \in Seq(Entry)
  /\ round \in 0..MaxRounds /\ care \in Nat /\ judging \in BOOLEAN
  /\ used \in 0..WorkMax /\ born \in Nat
  /\ closed \subseteq 1..born
-----------------------------------------------------------------------------
Live(l)   == {i \in DOMAIN l : l[i].status = "active"}
IsPlan(e) == e.content \in PlanLike
Scaled(p, n) == (p * n) \div 100
Numbers(l) == {l[i].id : i \in DOMAIN l}

RevivedFault ==
  IF loaded THEN list
  ELSE [i \in DOMAIN mindFile.list |->
         IF mindFile.list[i].status = "decayed"
         THEN [mindFile.list[i] EXCEPT !.status = "active"]
         ELSE mindFile.list[i]]
(* _load_once: a file that cannot be read is an empty list. *)
Known == IF loaded THEN list ELSE mindFile.list

(* The next number: one more than there are, and past those in use. *)
NextId(l) == CHOOSE n \in (Len(l) + 1)..(2 * Len(l) + 1) :
               /\ n \notin Numbers(l)
               /\ (Len(l) + 1)..(n - 1) \subseteq Numbers(l)

(* _refresh_statuses: the dates of some plans have passed. *)
Refreshed(l, late) ==
  [i \in DOMAIN l |-> IF i \in late THEN [l[i] EXCEPT !.status = "expired"]
                                    ELSE l[i]]
Late(l) == SUBSET {i \in Live(l) : IsPlan(l[i])}

(* _archive_decayed. *)
Archived(l) ==
  [i \in DOMAIN l |-> IF l[i].status = "active" /\ l[i].prio < 20
                      THEN [l[i] EXCEPT !.status = "decayed"] ELSE l[i]]

First(S) == CHOOSE i \in S : \A j \in S : i <= j
Faintest(l) == CHOOSE i \in DOMAIN l : \A j \in DOMAIN l :
                 \/ l[i].prio < l[j].prio
                 \/ l[i].prio = l[j].prio /\ i <= j
(* Who goes first: what is over, and then what matters least. *)
Victim(l) ==
  LET over == DOMAIN l \ Live(l) IN
  IF over # {} THEN First(over) ELSE Faintest(l)
(* _evict_if_needed, for the few entries one operation adds. *)
EvictedOnce(l) == IF Len(l) > MaxEntries THEN RemoveAt(l, Victim(l)) ELSE l
Evicted(l) == EvictedOnce(EvictedOnce(EvictedOnce(l)))

Over(l) == {l[i].self : i \in DOMAIN l \ Live(l)}

(* _save_quiet: written in place, or not at all, or torn. *)
SaveList(l) ==
  /\ list' = l
  /\ \/ mindFile' = Whole(l) /\ closed' = closed \cup Over(l)
     \/ mindFile' = Torn /\ UNCHANGED closed
     \/ UNCHANGED <<mindFile, closed>>

Working == used < WorkMax /\ used' = used + 1 /\ loaded' = TRUE
-----------------------------------------------------------------------------
(* surface, at the start of the think loop: what comes to mind and is not  *)
(* acted upon loses weight. *)
Think ==
  /\ round = 0 /\ round' = 1 /\ Working
  /\ \E late \in Late(Known) :
       LET l == Refreshed(Known, late) IN
       \E picked \in SUBSET Live(l) :
         /\ Cardinality(picked) = IF Cardinality(Live(l)) < SurfaceK
                                  THEN Cardinality(Live(l)) ELSE SurfaceK
         /\ SaveList(Evicted(Archived(
              [i \in DOMAIN l |-> IF i \in picked
                                  THEN [l[i] EXCEPT !.prio = Scaled(90, @)]
                                  ELSE l[i]])))
  /\ UNCHANGED <<care, judging, born>>

RepeatedFault(l, c, p) ==
  Append(l, [id |-> NextId(l), self |-> born + 1, content |-> c, prio |-> p,
             status |-> "active"])
(* A new entry, unless an active one says the same. *)
Added(l, c, p) ==
  IF \E i \in Live(l) : l[i].content = c THEN l
  ELSE Append(l, [id |-> NextId(l), self |-> born + 1, content |-> c,
                  prio |-> p, status |-> "active"])

(* apply_updates, with one entry to add and some to remove. *)
Updates(l) ==
  \E gone \in SUBSET Contents, c \in Contents, p \in Given, adds \in BOOLEAN :
    LET kept == Picked(l, {i \in DOMAIN l : l[i].content \notin gone})
        new  == IF adds THEN Added(kept, c, p) ELSE kept IN
    /\ Cardinality(gone) <= 1
    /\ SaveList(Evicted(new))
    /\ born' = IF adds THEN born + 1 ELSE born

(* A round of the think loop: it may ask its memory and go on, as long as  *)
(* there are rounds left; an answer that cannot be parsed ends it.         *)
Ponder ==
  /\ round # 0 /\ Working
  /\ \/ Updates(Known)
     \/ list' = Known /\ UNCHANGED <<mindFile, born, closed>>
  /\ \/ round < MaxRounds /\ round' = round + 1
     \/ round' = 0
  /\ UNCHANGED <<care, judging>>

(* handle_proactive: the message is about the entry it matches, if any.    *)
Attribute ==
  /\ round = 0 /\ Working
  /\ \E late \in Late(Known) :
       LET l == Refreshed(Known, late) IN
       /\ list' = l
       /\ care' \in {0} \cup {l[i].id : i \in Live(l)}
  /\ UNCHANGED <<mindFile, round, judging, born, closed>>

(* The clues of a consolidation and the doubts of the memory agent. *)
Note ==
  /\ Working /\ Updates(Known)
  /\ UNCHANGED <<round, care, judging>>

(* resolve_matching: what the conversation is close to is resolved. *)
ResolveMatching ==
  /\ Working
  /\ \E late \in Late(Known) :
       LET l == Refreshed(Known, late) IN
       \/ list' = l /\ UNCHANGED <<mindFile, closed>>
       \/ \E hit \in (SUBSET Live(l)) \ {{}} :
            SaveList([i \in DOMAIN l |-> IF i \in hit
                                         THEN [l[i] EXCEPT !.status = "resolved"]
                                         ELSE l[i]])
  /\ UNCHANGED <<round, care, judging, born>>

(* The user answers: the model weighs how, and then the entry the message  *)
(* was about is resolved, and its kind rewarded or not. *)
Answer ==
  /\ care # 0 /\ ~judging /\ judging' = TRUE
  /\ UNCHANGED <<list, loaded, mindFile, round, care, used, born, closed>>

Judged(e, good) ==
  [e EXCEPT !.prio = IF ~good THEN Scaled(90, @)
                     ELSE IF @ > 95 THEN 100 ELSE @ + 5]
RecordOutcome ==
  /\ judging /\ judging' = FALSE /\ care' = 0
  /\ Working
  /\ \E good \in BOOLEAN :
       LET l == Known
           target == {i \in Live(l) : l[i].id = care} IN
       IF target = {} THEN list' = l /\ UNCHANGED <<mindFile, closed>>
       ELSE LET t == First(target) IN
            SaveList([i \in DOMAIN l |->
                   IF i = t THEN [Judged(l[i], good) EXCEPT !.status = "resolved"]
                   ELSE IF i \in Live(l) /\ (IsPlan(l[i]) <=> IsPlan(l[t]))
                        THEN Judged(l[i], good) ELSE l[i]])
  /\ UNCHANGED <<round, born>>

Reopen ==
  /\ list' = <<>> /\ loaded' = FALSE
  /\ round' = 0 /\ care' = 0 /\ judging' = FALSE
  /\ UNCHANGED <<mindFile, used, born, closed>>
-----------------------------------------------------------------------------
CareInit ==
  /\ list = <<>> /\ loaded = FALSE /\ mindFile = Whole(<<>>)
  /\ round = 0 /\ care = 0 /\ judging = FALSE
  /\ used = 0 /\ born = 0 /\ closed = {}

CareNext ==
  \/ Think \/ Ponder \/ Attribute \/ Note \/ ResolveMatching
  \/ Answer \/ RecordOutcome \/ Reopen

CareSpec == CareInit /\ [][CareNext]_careVars
-----------------------------------------------------------------------------
(* Properties. *)

(* Nothing is on its mind twice, although every source adds without        *)
(* knowing of the others, and the file comes back after a restart          *)
(* (apply_updates). *)
NoTwins ==
  \A i, j \in Live(list) : list[i].content = list[j].content => i = j

(* What is settled, and has been saved so, never comes to mind again,      *)
(* whatever is not saved later, and whenever the file is read again        *)
(* (_save_quiet, _load_once). *)
StaysSettled == \A i \in Live(Known) : Known[i].self \notin closed
=============================================================================
