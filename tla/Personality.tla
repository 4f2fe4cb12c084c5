---------------------------- MODULE Personality ----------------------------
(***************************************************************************)
(* The file of a character, which the program and its owner both write:    *)
(* the owner edits the static half while the program runs, the program     *)
(* saves the emotional half over and over, and a backup is kept of what    *)
(* could last be read. The emotional half remembers its latest events.     *)
(*                                                                         *)
(* Code: Personality.load and save (core/personality.py), emotion_events   *)
(* (models/personality.py). What a character is like is one value, what it *)
(* remembers a sequence of dreams and other events.                        *)
(***************************************************************************)
EXTENDS Naturals, Sequences, SequencesExt

CONSTANTS
  Personas,     \* what the owner may write
  Default,      \* PersonalityConfig()
  MaxEvents,    \* MAX_EMOTION_EVENTS
  EditMax       \* bound on what the owner does to the file

ASSUME PersonaAssumption == Default \notin Personas /\ MaxEvents \in Nat \ {0}

VARIABLES
  file, bak,    \* the file and its .bak
  mind,         \* the Personality of the running program
  edits,        \* what of EditMax is used up
  backed        \* history: the backup is of a written character, and not torn

personaVars == <<file, bak, mind, edits, backed>>

NoFile   == [at |-> "none", persona |-> Default, events |-> <<>>]
Broken   == [at |-> "broken", persona |-> Default, events |-> <<>>]
Gone     == [up |-> FALSE, persona |-> Default, events |-> <<>>,
             deque |-> TRUE]
(* A new one has a deque; one that was read has the list of the JSON, if   *)
(* there is one: the owner's file need not have an emotional half. *)
NewMind  == [up |-> TRUE, persona |-> Default, events |-> <<>>, deque |-> TRUE]
MindsOf(f) == {[up |-> TRUE, persona |-> f.persona, events |-> f.events,
                deque |-> d] : d \in {FALSE, f.events = <<>>}}
-----------------------------------------------------------------------------
BackupFirstFault ==
  /\ ~mind.up /\ bak' = file
  /\ mind' \in IF file.at = "whole" THEN MindsOf(file)
               ELSE IF bak'.at = "whole" THEN MindsOf(bak') ELSE {NewMind}
  /\ backed' = IF file.at = "whole" THEN file.persona # Default ELSE backed
  /\ UNCHANGED <<file, edits>>
(* Read the file and copy it, which may fail; or else read the backup. *)
LoadMind ==
  /\ ~mind.up
  /\ IF file.at = "whole"
     THEN /\ mind' \in MindsOf(file)
          /\ \/ bak' = file /\ backed' = (file.persona # Default)
             \/ UNCHANGED <<bak, backed>>
     ELSE /\ mind' \in IF file.at = "broken" /\ bak.at = "whole"
                       THEN MindsOf(bak) ELSE {NewMind}
          /\ UNCHANGED <<bak, backed>>
  /\ UNCHANGED <<file, edits>>

(* The process dies while it copies. *)
TornCopy ==
  /\ ~mind.up /\ file.at = "whole"
  /\ bak' = Broken /\ backed' = FALSE
  /\ UNCHANGED <<file, mind, edits>>

(* _merge_with_disk, and a replacement in one step, or none at all. *)
SaveMind ==
  /\ mind.up
  /\ file' = [at |-> "whole", events |-> mind.events,
              persona |-> IF file.at = "whole" THEN file.persona
                          ELSE mind.persona]
  /\ UNCHANGED <<bak, mind, edits, backed>>

StopMind ==
  /\ mind.up /\ mind' = Gone
  /\ UNCHANGED <<file, bak, edits, backed>>

FirstOther(s) == SelectInSeq(s, LAMBDA e : e # "dream")
(* record_emotion_event: the deque drops its oldest by itself; of a list   *)
(* that has grown too long one goes. *)
Remembered(s, e, deque) ==
  LET all == Append(s, e) IN
  IF Len(all) <= MaxEvents THEN all
  ELSE IF ~deque /\ e = "dream" /\ FirstOther(all) # 0
       THEN RemoveAt(all, FirstOther(all))
       ELSE Tail(all)

RecordEvent ==
  /\ mind.up
  /\ \E e \in {"dream", "other"} :
       mind' = [mind EXCEPT !.events = Remembered(@, e, mind.deque)]
  /\ UNCHANGED <<file, bak, edits, backed>>

(* The owner writes, with or without a mistake. *)
EditFile ==
  /\ edits < EditMax /\ edits' = edits + 1
  /\ \/ file' = Broken
     \/ \E p \in Personas : file' = [file EXCEPT !.at = "whole", !.persona = p]
  /\ UNCHANGED <<bak, mind, backed>>
-----------------------------------------------------------------------------
PersonaInit ==
  /\ file \in {NoFile} \cup
       {[at |-> "whole", persona |-> p, events |-> <<>>] : p \in Personas}
  /\ bak = NoFile /\ mind = Gone /\ edits = 0 /\ backed = FALSE

PersonaNext ==
  LoadMind \/ TornCopy \/ SaveMind \/ StopMind \/ RecordEvent \/ EditFile
-----------------------------------------------------------------------------
(* Properties. *)

(* A character of which a backup was made does not turn into the default   *)
(* one: not by a file that its owner broke, not by a start or a save at    *)
(* that moment, not by a start after it (A4, H-06).                        *)
CharacterKept ==
  backed =>
    /\ mind.up => mind.persona # Default
    /\ file.at = "whole" => file.persona # Default
=============================================================================
