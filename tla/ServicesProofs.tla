---------------------------- MODULE ServicesProofs ----------------------------
(***************************************************************************)
(* What the services under an exchange promise, for any texts, models,     *)
(* clients, threads, limits and bounds.                                    *)
(***************************************************************************)
EXTENDS Services, FiniteSetTheorems, SequenceTheorems, WellFoundedInduction, TLAPS

(* The character's file (Personality).                                     *)

(* The file is one that can be read, or not, or is not there.              *)
FileKnown ==
  /\ file = [at |-> file.at, persona |-> file.persona, events |-> file.events]
  /\ file.at \in {"none", "broken", "whole"}

(* While there is a backup, it is of a written character, and nothing the  *)
(* program holds or the file says is the default one.                      *)
WrittenStays ==
  backed =>
    /\ bak.at = "whole" /\ bak.persona # Default
    /\ file.at # "none"
    /\ file.at = "whole" => file.persona # Default
    /\ mind.up => mind.persona # Default

LEMMA WrittenInit == PersonaInit => FileKnown /\ WrittenStays
BY DEF PersonaInit, NoFile, FileKnown, WrittenStays

(* What the owner writes with or without a mistake.                        *)
LEMMA Edited ==
  ASSUME FileKnown, EditFile
  PROVE  /\ FileKnown' /\ file'.at \in {"broken", "whole"}
         /\ file'.at = "whole" => file'.persona \in Personas
<1>1. CASE file' = Broken
  BY <1>1 DEF Broken, FileKnown
<1>2. ASSUME NEW p \in Personas, file' = [file EXCEPT !.at = "whole", !.persona = p]
      PROVE  file' = [at |-> "whole", persona |-> p, events |-> file.events]
  BY <1>2 DEF FileKnown
<1>3. ASSUME NEW p \in Personas,
             file' = [at |-> "whole", persona |-> p, events |-> file.events]
      PROVE  FileKnown' /\ file'.at = "whole" /\ file'.persona \in Personas
  BY <1>3 DEF FileKnown
<1>. QED BY <1>1, <1>2, <1>3 DEF EditFile

LEMMA FileKnownStep == FileKnown /\ [PersonaNext]_personaVars => FileKnown'
<1> SUFFICES ASSUME FileKnown, [PersonaNext]_personaVars PROVE FileKnown'
  OBVIOUS
<1>1. CASE UNCHANGED file
  BY <1>1 DEF FileKnown
<1>2. CASE SaveMind
  BY <1>2 DEF SaveMind, FileKnown
<1>3. CASE EditFile
  BY <1>3, Edited
<1>. QED BY <1>1, <1>2, <1>3 DEF PersonaNext, LoadMind, TornCopy, StopMind,
                                  RecordEvent, personaVars

(* A character that was read from a file is that of the file.              *)
LEMMA ReadAsWritten ==
  ASSUME NEW f, NEW m \in MindsOf(f)
  PROVE  m.persona = f.persona
BY DEF MindsOf

LEMMA WrittenStep == FileKnown /\ WrittenStays /\ [PersonaNext]_personaVars => WrittenStays'
<1> SUFFICES ASSUME FileKnown, WrittenStays, [PersonaNext]_personaVars PROVE WrittenStays'
  OBVIOUS
<1>1. CASE UNCHANGED personaVars
  BY <1>1 DEF personaVars, WrittenStays
<1>2. CASE LoadMind
  <2>1. CASE file.at = "whole"
    <3>1. mind'.persona = file.persona /\ UNCHANGED file
      BY <1>2, <2>1, ReadAsWritten DEF LoadMind
    <3>2. CASE bak' = file /\ backed' = (file.persona # Default)
      BY <2>1, <3>1, <3>2 DEF WrittenStays
    <3>3. CASE UNCHANGED <<bak, backed>>
      BY <2>1, <3>1, <3>3 DEF WrittenStays
    <3>. QED BY <1>2, <2>1, <3>2, <3>3 DEF LoadMind
  <2>2. CASE file.at = "broken" /\ bak.at = "whole"
    <3>1. mind'.persona = bak.persona /\ UNCHANGED <<file, bak, backed>>
      BY <1>2, <2>2, ReadAsWritten DEF LoadMind
    <3>. QED BY <3>1 DEF WrittenStays
  <2>3. CASE file.at # "whole" /\ ~(file.at = "broken" /\ bak.at = "whole")
    <3>1. ~backed
      BY <2>3 DEF FileKnown, WrittenStays
    <3>. QED BY <1>2, <2>3, <3>1 DEF LoadMind, WrittenStays
  <2>. QED BY <2>1, <2>2, <2>3
<1>3. CASE TornCopy
  BY <1>3 DEF TornCopy, WrittenStays
<1>4. CASE SaveMind
  BY <1>4 DEF SaveMind, WrittenStays
<1>5. CASE StopMind
  BY <1>5 DEF StopMind, Gone, WrittenStays
<1>6. CASE RecordEvent
  BY <1>6 DEF RecordEvent, WrittenStays
<1>7. CASE EditFile
  BY <1>7, Edited, PersonaAssumption DEF EditFile, PersonaAssumption, WrittenStays
<1>. QED BY <1>1, <1>2, <1>3, <1>4, <1>5, <1>6, <1>7 DEF PersonaNext

(* A step of any service is one of the character's file, or leaves it.     *)
LEMMA PersonaRests == [ServicesNext]_servicesVars => [PersonaNext]_personaVars
BY DEF ServicesNext, Asking, Embedding, Dispatching, Prompting, Remembering,
       Limiting, servicesVars

(***************************************************************************)
(* A character of which a backup was made does not turn into the default   *)
(* one, whatever its owner breaks and whenever the program starts, saves   *)
(* or dies (Personality.load and save in core/personality.py).             *)
(***************************************************************************)
THEOREM CharacterStays == ServicesSpec => []CharacterKept
<1>1. ServicesInit => FileKnown /\ WrittenStays
  BY WrittenInit DEF ServicesInit
<1>2. FileKnown /\ WrittenStays /\ [ServicesNext]_servicesVars => (FileKnown /\ WrittenStays)'
  BY FileKnownStep, WrittenStep, PersonaRests
<1>3. WrittenStays => CharacterKept
  BY DEF WrittenStays, CharacterKept
<1>. QED BY <1>1, <1>2, <1>3, PTL DEF ServicesSpec
-----------------------------------------------------------------------------
(* Numbers.                                                                *)
LEMMA BelowWellFounded ==
  IsWellFoundedOn({p \in Nat \X Nat : p[1] < p[2]}, Nat)
BY NatLessThanWellFounded DEF OpToRel

LEMMA Least ==
  ASSUME NEW S \in SUBSET Nat, S # {}
  PROVE  \E n \in S : \A m \in S : n <= m
<1>1. PICK n \in S : \A m \in S : <<m, n>> \notin {p \in Nat \X Nat : p[1] < p[2]}
  BY BelowWellFounded, WFMin
<1>2. ASSUME NEW m \in S PROVE n <= m
  <2>1. m \in Nat /\ n \in Nat
    OBVIOUS
  <2>2. ~(m < n)
    BY <1>1, <2>1
  <2>. QED BY <2>1, <2>2
<1>. QED BY <1>2

LEMMA MinIsLeast ==
  ASSUME NEW S \in SUBSET Nat, S # {}
  PROVE  Min(S) \in S /\ \A m \in S : Min(S) <= m
BY Least DEF Min
-----------------------------------------------------------------------------
(* The rate limit (RateLimit).                                             *)

(* What a client has an entry for is the end of what it was let in, and    *)
(* the rest is past.                                                       *)
Remembers(c, k) ==
  /\ Times(c) = SubSeq(letIn[c], k + 1, Len(letIn[c]))
  /\ \A i \in 1..k : letIn[c][i] + Window < clock

RateInv ==
  /\ clock \in Nat
  /\ letIn \in [Clients -> Seq(Nat)]
  /\ \A c \in Clients : \E k \in 0..Len(letIn[c]) : Remembers(c, k)
  /\ WindowKept

(* What leaves at the front is past, and what is left is an end as well.   *)
LEMMA EvictedPast ==
  ASSUME clock \in Nat, NEW w \in Seq(Nat)
  PROVE  /\ Evicted(w) \in 0..Len(w)
         /\ \A i \in 1..Evicted(w) : w[i] + Window < clock
<1> DEFINE S == {n \in 0..Len(w) : n < Len(w) => w[n + 1] + Window >= clock}
<1>1. Len(w) \in S
  OBVIOUS
<1>2. S \in SUBSET Nat /\ S # {}
  BY <1>1
<1>3. Evicted(w) \in S /\ \A m \in S : Evicted(w) <= m
  BY <1>2, MinIsLeast DEF Evicted
<1>4. ASSUME NEW i \in 1..Evicted(w) PROVE w[i] + Window < clock
  <2>1. i - 1 \in 0..Len(w) /\ i - 1 < Len(w) /\ i - 1 \notin S
    <3> DEFINE e == Evicted(w)
    <3>1. e \in 0..Len(w) /\ \A m \in S : e <= m
      BY <1>3
    <3> HIDE DEF e, S
    <3>2. Len(w) \in Nat /\ i \in 1..e
      BY DEF e
    <3>3. i - 1 < e /\ i - 1 \in 0..Len(w) /\ i - 1 < Len(w)
      BY <3>1, <3>2
    <3>4. i - 1 \notin S
      BY <3>1, <3>2, <3>3
    <3>. QED BY <3>3, <3>4 DEF S
  <2>2. w[(i - 1) + 1] + Window < clock
    <3>1. w[(i - 1) + 1] \in Nat
      BY <2>1
    <3>. QED BY <2>1, <3>1, RateAssumption DEF RateAssumption
  <2>. QED BY <2>2
<1>. QED BY <1>3, <1>4

LEMMA RecentIsEnd ==
  ASSUME RateInv, NEW c \in Clients
  PROVE  \E k \in 0..Len(letIn[c]) :
           /\ Recent(Times(c)) = SubSeq(letIn[c], k + 1, Len(letIn[c]))
           /\ \A i \in 1..k : letIn[c][i] + Window < clock
<1> DEFINE s == letIn[c]
<1>1. s \in Seq(Nat) /\ clock \in Nat
  BY DEF RateInv
<1>2. PICK k \in 0..Len(s) : Remembers(c, k)
  BY DEF RateInv
<1> DEFINE w == Times(c)
<1>3. w = SubSeq(s, k + 1, Len(s)) /\ \A i \in 1..k : s[i] + Window < clock
  BY <1>2 DEF Remembers
<1> DEFINE n == Evicted(w)
<1> HIDE DEF s, w, n
<1>4. /\ w \in Seq(Nat) /\ Len(w) = Len(s) - k
      /\ \A i \in 1..Len(w) : w[i] = s[k + i]
  BY <1>1, <1>3
<1>5. n \in 0..Len(w) /\ \A i \in 1..n : w[i] + Window < clock
  BY <1>1, <1>4, EvictedPast DEF n
<1>6. k + n \in 0..Len(s)
  BY <1>1, <1>4, <1>5
<1>7. ASSUME NEW i \in 1..(k + n) PROVE s[i] + Window < clock
  <2>1. CASE i <= k
    BY <1>3, <2>1
  <2>2. CASE i > k
    <3>1. i - k \in 1..n /\ i - k \in 1..Len(w) /\ k + (i - k) = i
      BY <1>5, <1>4, <1>1, <2>2
    <3>. QED BY <1>4, <1>5, <3>1
  <2>. QED BY <2>1, <2>2
<1>8. SubSeq(w, n + 1, Len(w)) = SubSeq(s, (k + n) + 1, Len(s))
  BY <1>1, <1>3, <1>4, <1>5
<1>. QED BY <1>6, <1>7, <1>8 DEF Recent, s, w, n

LEMMA RateInitInv == RateInit => RateInv
<1> SUFFICES ASSUME RateInit PROVE RateInv
  OBVIOUS
<1>1. clock \in Nat /\ letIn \in [Clients -> Seq(Nat)]
  BY DEF RateInit
<1>2. ASSUME NEW c \in Clients PROVE Len(letIn[c]) = 0 /\ Remembers(c, 0)
  BY <1>2 DEF RateInit, Remembers, Times
<1>3. \A c \in Clients : \E k \in 0..Len(letIn[c]) : Remembers(c, k)
  <2>1. \A c \in Clients : 0 \in 0..Len(letIn[c])
    BY <1>2
  <2>. QED BY <1>2, <2>1
<1>4. WindowKept
  BY <1>2, RateAssumption DEF WindowKept, RateAssumption
<1>. QED BY <1>1, <1>3, <1>4 DEF RateInv

(* Whose entry is not touched, and who was not let in, has the same end:   *)
(* time only makes more of it past.                                        *)
LEMMA OthersRemember ==
  ASSUME RateInv, NEW d \in Clients, Times(d)' = Times(d), letIn'[d] = letIn[d],
         clock' \in Nat, clock <= clock'
  PROVE  \E k \in 0..Len(letIn'[d]) : Remembers(d, k)'
<1>1. PICK k \in 0..Len(letIn[d]) : Remembers(d, k)
  BY DEF RateInv
<1>2. letIn[d] \in Seq(Nat) /\ clock \in Nat
  BY DEF RateInv
<1>3. ASSUME NEW i \in 1..k PROVE letIn[d][i] + Window < clock'
  <2>1. letIn[d][i] \in Nat /\ letIn[d][i] + Window < clock
    BY <1>1, <1>2 DEF Remembers
  <2>. QED BY <1>2, <2>1, RateAssumption DEF RateAssumption
<1>4. Remembers(d, k)'
  BY <1>1, <1>3 DEF Remembers
<1>. QED BY <1>4

LEMMA TimesWith ==
  ASSUME NEW c, NEW w, windows' = With(c, w)
  PROVE  Times(c)' = w /\ \A d : d # c => Times(d)' = Times(d)
BY DEF With, Times

(* What comes to the end of a sequence comes to that of its ends.          *)
LEMMA AppendToEnd ==
  ASSUME NEW s \in Seq(Nat), NEW k \in 0..Len(s), NEW x \in Nat
  PROVE  Append(SubSeq(s, k + 1, Len(s)), x) = SubSeq(Append(s, x), k + 1, Len(s) + 1)
<1> DEFINE a == Append(SubSeq(s, k + 1, Len(s)), x)
           b == SubSeq(Append(s, x), k + 1, Len(s) + 1)
<1>1. /\ Len(s) \in Nat /\ SubSeq(s, k + 1, Len(s)) \in Seq(Nat)
      /\ Len(SubSeq(s, k + 1, Len(s))) = Len(s) - k
      /\ \A i \in 1..(Len(s) - k) : SubSeq(s, k + 1, Len(s))[i] = s[k + i]
  OBVIOUS
<1>2. /\ Append(s, x) \in Seq(Nat) /\ Len(Append(s, x)) = Len(s) + 1
      /\ \A i \in 1..Len(s) : Append(s, x)[i] = s[i]
      /\ Append(s, x)[Len(s) + 1] = x
  OBVIOUS
<1>3. /\ a \in Seq(Nat) /\ Len(a) = (Len(s) - k) + 1
      /\ \A i \in 1..(Len(s) - k) : a[i] = s[k + i]
      /\ a[(Len(s) - k) + 1] = x
  BY <1>1
<1>4. /\ b \in Seq(Nat) /\ Len(b) = (Len(s) - k) + 1
      /\ \A i \in 1..((Len(s) - k) + 1) : b[i] = Append(s, x)[k + i]
  BY <1>1, <1>2
<1>5. ASSUME NEW i \in 1..((Len(s) - k) + 1) PROVE a[i] = b[i]
  <2>1. CASE i = (Len(s) - k) + 1
    BY <1>1, <1>2, <1>3, <1>4, <2>1
  <2>2. CASE i # (Len(s) - k) + 1
    <3>1. i \in 1..(Len(s) - k) /\ k + i \in 1..Len(s)
      BY <1>1, <2>2
    <3>. QED BY <1>2, <1>3, <1>4, <3>1
  <2>. QED BY <2>1, <2>2
<1> HIDE DEF a, b
<1>6. Len(a) = Len(b) /\ \A i \in 1..Len(a) : a[i] = b[i]
  BY <1>3, <1>4, <1>5
<1>7. a = b
  BY <1>3, <1>4, <1>6, SeqEqual
<1>. QED BY <1>7 DEF a, b

(* Who is let in was let in fewer than MaxRequests times since what is     *)
(* past, so the time MaxRequests before is past.                           *)
LEMMA LetInStep ==
  ASSUME RateInv, NEW c \in Clients, LetIn(c)
  PROVE  RateInv'
<1> DEFINE s == letIn[c]
<1>1. /\ s \in Seq(Nat) /\ clock \in Nat /\ clock' = clock
      /\ letIn \in [Clients -> Seq(Nat)]
      /\ letIn' = [letIn EXCEPT ![c] = Append(s, clock)]
  BY DEF RateInv, LetIn
<1>2. PICK k \in 0..Len(s) :
        /\ Recent(Times(c)) = SubSeq(s, k + 1, Len(s))
        /\ \A i \in 1..k : s[i] + Window < clock
  BY RecentIsEnd
<1>3. /\ Len(SubSeq(s, k + 1, Len(s))) < MaxRequests
      /\ windows' = With(c, Append(SubSeq(s, k + 1, Len(s)), clock))
  BY <1>2 DEF LetIn
<1>4. letIn'[c] = Append(s, clock) /\ \A d \in Clients : d # c => letIn'[d] = letIn[d]
  BY <1>1
<1> HIDE DEF s
<1>5. /\ Append(s, clock) \in Seq(Nat) /\ Len(Append(s, clock)) = Len(s) + 1
      /\ Len(s) \in Nat /\ k \in Nat
      /\ \A i \in 1..Len(s) : Append(s, clock)[i] = s[i] /\ s[i] \in Nat
      /\ Append(s, clock)[Len(s) + 1] = clock
  BY <1>1
<1>6. letIn' \in [Clients -> Seq(Nat)]
  BY <1>1, <1>5
<1>7. ASSUME NEW d \in Clients
      PROVE  \E j \in 0..Len(letIn'[d]) : Remembers(d, j)'
  <2>1. CASE d = c
    <3>1. Append(SubSeq(s, k + 1, Len(s)), clock) =
            SubSeq(Append(s, clock), k + 1, Len(s) + 1)
      BY <1>1, <1>2, AppendToEnd
    <3>2. Times(d)' = SubSeq(letIn'[d], k + 1, Len(letIn'[d]))
      BY <1>3, <1>4, <1>5, <2>1, <3>1, TimesWith
    <3>3. \A i \in 1..k : letIn'[d][i] + Window < clock'
      BY <1>1, <1>2, <1>4, <1>5, <2>1
    <3>4. k \in 0..Len(letIn'[d])
      BY <1>4, <1>5, <2>1
    <3>. QED BY <3>2, <3>3, <3>4 DEF Remembers
  <2>2. CASE d # c
    <3>1. Times(d)' = Times(d)
      BY <1>3, <2>2, TimesWith
    <3>2. letIn'[d] = letIn[d] /\ clock' \in Nat /\ clock <= clock'
      BY <1>1, <1>4, <2>2
    <3>. QED BY <3>1, <3>2, OthersRemember
  <2>. QED BY <2>1, <2>2
<1>8. WindowKept'
  <2> SUFFICES ASSUME NEW d \in Clients, NEW i \in 1..(Len(letIn'[d]) - MaxRequests)
               PROVE  letIn'[d][i + MaxRequests] - letIn'[d][i] > Window
    BY DEF WindowKept
  <2>0. MaxRequests \in Nat /\ MaxRequests > 0 /\ Window \in Nat
    BY RateAssumption DEF RateAssumption
  <2>1. CASE d # c
    BY <1>4, <2>1 DEF RateInv, WindowKept
  <2>2. CASE d = c /\ i + MaxRequests <= Len(s)
    <3>1. i \in 1..(Len(s) - MaxRequests) /\ i \in 1..Len(s) /\ i + MaxRequests \in 1..Len(s)
      BY <1>5, <2>0, <2>2
    <3>2. s[i + MaxRequests] - s[i] > Window
      BY <3>1 DEF RateInv, WindowKept, s
    <3>. QED BY <1>4, <1>5, <2>2, <3>1, <3>2
  <2>3. CASE d = c /\ i + MaxRequests > Len(s)
    <3>1. Len(s) - k < MaxRequests
      BY <1>1, <1>3, <1>5, <2>0
    <3>2. i + MaxRequests = Len(s) + 1 /\ i \in 1..k /\ i \in 1..Len(s)
      BY <1>4, <1>5, <2>0, <2>3, <3>1
    <3>3. s[i] \in Nat /\ s[i] + Window < clock
      BY <1>2, <1>5, <3>2
    <3>. QED BY <1>1, <1>4, <1>5, <2>0, <2>3, <3>2, <3>3
  <2>. QED BY <1>4, <1>5, <2>0, <2>1, <2>2, <2>3
<1>. QED BY <1>1, <1>6, <1>7, <1>8 DEF RateInv

LEMMA RateStep == RateInv /\ [RateNext]_rateVars => RateInv'
<1> SUFFICES ASSUME RateInv, [RateNext]_rateVars PROVE RateInv'
  OBVIOUS
<1>1. CASE UNCHANGED rateVars
  BY <1>1 DEF rateVars, RateInv, Remembers, Times, WindowKept
<1>2. CASE TickRate
  <2>1. clock' \in Nat /\ clock <= clock' /\ UNCHANGED <<windows, letIn>>
    BY <1>2 DEF TickRate, RateInv
  <2>2. \A d \in Clients : Times(d)' = Times(d)
    BY <2>1 DEF Times
  <2>. QED BY <2>1, <2>2, OthersRemember DEF RateInv, WindowKept
<1>3. ASSUME NEW c \in Clients, LetIn(c) PROVE RateInv'
  BY <1>3, LetInStep
<1>4. ASSUME NEW c \in Clients, TurnAway(c) PROVE RateInv'
  <2>1. clock' \in Nat /\ clock <= clock' /\ clock' = clock /\ letIn' = letIn
    BY <1>4 DEF TurnAway, RateInv
  <2>2. windows' = With(c, Recent(Times(c)))
    BY <1>4 DEF TurnAway
  <2>3. ASSUME NEW d \in Clients
        PROVE  \E k \in 0..Len(letIn'[d]) : Remembers(d, k)'
    <3>1. CASE d = c
      <4>1. Times(d)' = Recent(Times(d))
        BY <2>2, <3>1, TimesWith
      <4>2. PICK k \in 0..Len(letIn[d]) :
              /\ Recent(Times(d)) = SubSeq(letIn[d], k + 1, Len(letIn[d]))
              /\ \A i \in 1..k : letIn[d][i] + Window < clock
        BY RecentIsEnd
      <4>. QED BY <2>1, <4>1, <4>2 DEF Remembers
    <3>2. CASE d # c
      BY <2>1, <2>2, <3>2, OthersRemember, TimesWith
    <3>. QED BY <3>1, <3>2
  <2>. QED BY <2>1, <2>3 DEF RateInv, WindowKept
<1>. QED BY <1>1, <1>2, <1>3, <1>4 DEF RateNext

LEMMA RateRests == [ServicesNext]_servicesVars => [RateNext]_rateVars
BY DEF ServicesNext, Asking, Embedding, Dispatching, Prompting, Remembering,
       Limiting, servicesVars

(***************************************************************************)
(* Wherever a window is laid, no client was let in more than MaxRequests   *)
(* times in it, however its entry has been emptied and made again          *)
(* (is_allowed in web/rate_limit.py).                                      *)
(***************************************************************************)
THEOREM LimitHolds == ServicesSpec => []WindowKept
<1>1. ServicesInit => RateInv
  BY RateInitInv DEF ServicesInit
<1>2. RateInv /\ [ServicesNext]_servicesVars => RateInv'
  BY RateStep, RateRests
<1>3. RateInv => WindowKept
  BY DEF RateInv
<1>. QED BY <1>1, <1>2, <1>3, PTL DEF ServicesSpec
-----------------------------------------------------------------------------
(* The blocks of the prompt (PromptCache).                                 *)

Entries == {e \in [key : Blocks, value : Nat, by : Prompts, created : Nat] :
              e.created <= e.value}

Builds == [at : {"idle", "reading", "built"}, key : Blocks \cup {""},
           of : Prompts \cup {""}, by : Prompts \cup {""}, since : Nat,
           read : Nat, age : Int]

(* What is kept was read no earlier than it is said to be made, since who  *)
(* builds it took the time before.                                         *)
CacheInv ==
  /\ hour \in Nat /\ store \in Seq(Entries) /\ build \in [Builders -> Builds]
  /\ \A b \in Builders :
       /\ build[b].since <= hour
       /\ build[b].at # "idle" => build[b].key \in Blocks /\ build[b].of \in Prompts
       /\ build[b].at = "built" => build[b].since <= build[b].read

LEMMA IdleBuilds == Idle \in Builds /\ Idle.at = "idle" /\ Idle.since = 0
BY DEF Idle, Builds

LEMMA CacheInitInv == CacheInit => CacheInv
BY IdleBuilds DEF CacheInit, CacheInv

(* What a thread has when it was served, and when it begins to build.      *)
AsServed(r, k, p, y, n) == [r EXCEPT !.key = k, !.of = p, !.by = y, !.age = n]
AsBegun(r, k, p, n) ==
  [r EXCEPT !.at = "reading", !.of = p, !.key = k, !.since = n]

LEMMA ServedFields ==
  ASSUME NEW r \in Builds, NEW k \in Blocks, NEW p \in Prompts, NEW y \in Prompts,
         NEW n \in Int
  PROVE  /\ AsServed(r, k, p, y, n) \in Builds
         /\ AsServed(r, k, p, y, n).at = r.at
         /\ AsServed(r, k, p, y, n).since = r.since
         /\ AsServed(r, k, p, y, n).age = n
BY DEF AsServed, Builds

LEMMA BegunFields ==
  ASSUME NEW r \in Builds, NEW k \in Blocks, NEW p \in Prompts, NEW n \in Nat
  PROVE  /\ AsBegun(r, k, p, n) \in Builds
         /\ AsBegun(r, k, p, n).at = "reading"
         /\ AsBegun(r, k, p, n).since = n
         /\ AsBegun(r, k, p, n).key = k
         /\ AsBegun(r, k, p, n).of = p
BY DEF AsBegun, Builds

(* What a thread does to its own build keeps the others' as they are.      *)
LEMMA BuildStep ==
  ASSUME CacheInv, NEW b \in Builders, NEW x \in Builds,
         build' = [build EXCEPT ![b] = x], hour' = hour, store' \in Seq(Entries),
         x.since <= hour, x.at # "idle" => x.key \in Blocks /\ x.of \in Prompts,
         x.at = "built" => x.since <= x.read
  PROVE  CacheInv'
<1>1. build' \in [Builders -> Builds]
  BY DEF CacheInv
<1>2. \A d \in Builders : build'[d] = IF d = b THEN x ELSE build[d]
  BY DEF CacheInv
<1>. QED BY <1>1, <1>2 DEF CacheInv

LEMMA ServedStep ==
  ASSUME CacheInv, NEW b \in Builders, NEW p \in Prompts, NEW e \in Entries,
         Served(b, p, e), hour' = hour, store' \in Seq(Entries)
  PROVE  CacheInv' /\ build'[b].age = hour - e.value
<1> DEFINE x == AsServed(Idle, e.key, p, e.by, hour - e.value)
<1>1. e.key \in Blocks /\ e.by \in Prompts /\ e.value \in Nat /\ hour \in Nat
  BY DEF Entries, CacheInv
<1>2. hour - e.value \in Int
  BY <1>1
<1>3. x \in Builds /\ x.since = 0 /\ x.at = "idle" /\ x.age = hour - e.value
  BY <1>1, <1>2, IdleBuilds, ServedFields
<1>4. build' = [build EXCEPT ![b] = x]
  BY DEF Served, AsServed
<1> HIDE DEF x
<1>5. CacheInv'
  <2>1. x.since <= hour
    BY <1>1, <1>3
  <2>2. x.at # "idle" => x.key \in Blocks /\ x.of \in Prompts
    BY <1>3
  <2>3. x.at = "built" => x.since <= x.read
    BY <1>3
  <2>. QED BY <1>3, <1>4, <2>1, <2>2, <2>3, BuildStep
<1>6. build'[b] = x
  BY <1>4 DEF CacheInv
<1>. QED BY <1>3, <1>5, <1>6

LEMMA HitServes ==
  ASSUME CacheInv, NEW b \in Builders, NEW p \in Prompts, NEW k \in Blocks, Hit(b, p, k)
  PROVE  CacheInv' /\ (k \notin Static => build'[b].age < Ttl)
<1>1. PICK i \in Place(k) : Valid(store[i]) /\ Served(b, p, store[i])
  BY DEF Hit
<1>2. i \in DOMAIN store /\ store[i].key = k /\ store[i] \in Entries
  BY <1>1 DEF Place, CacheInv
<1>3. store' \in Seq(Entries) /\ hour' = hour
  BY DEF Hit, CacheInv
<1>4. CacheInv' /\ build'[b].age = hour - store[i].value
  BY <1>1, <1>2, <1>3, ServedStep
<1>5. ASSUME k \notin Static PROVE build'[b].age < Ttl
  <2>1. hour - store[i].created < Ttl
    BY <1>1, <1>2, <1>5 DEF Valid
  <2>2. /\ store[i].created \in Nat /\ store[i].value \in Nat
        /\ store[i].created <= store[i].value
        /\ hour \in Nat /\ Ttl \in Nat
    BY <1>2, CacheAssumption DEF Entries, CacheInv, CacheAssumption
  <2>. QED BY <1>4, <2>1, <2>2
<1>. QED BY <1>4, <1>5

LEMMA KeepStep ==
  ASSUME CacheInv, NEW b \in Builders, Keep(b)
  PROVE  CacheInv'
<1> DEFINE k == build[b].key
           e == NewEntry(b)
           s == IF Place(k) = {} THEN Append(store, e)
                ELSE [i \in DOMAIN store |-> IF i \in Place(k) THEN e ELSE store[i]]
<1>1. build[b] \in Builds /\ build[b].at = "built"
  BY DEF CacheInv, Keep
<1>2. e \in Entries /\ build[b].of \in Prompts
  BY <1>1 DEF NewEntry, Entries, Builds, CacheInv
<1>3. /\ store' = IF Len(s) > MaxBlocks THEN Tail(s) ELSE s
      /\ Served(b, build[b].of, e) /\ hour' = hour
  BY DEF Keep
<1>4. store \in Seq(Entries)
  BY DEF CacheInv
<1> HIDE DEF e
<1>5. s \in Seq(Entries)
  <2>1. Append(store, e) \in Seq(Entries)
    BY <1>2, <1>4
  <2>2. [i \in DOMAIN store |-> IF i \in Place(k) THEN e ELSE store[i]] \in Seq(Entries)
    <3>1. DOMAIN store = 1..Len(store) /\ Len(store) \in Nat
          /\ \A i \in 1..Len(store) : store[i] \in Entries
      BY <1>4
    <3>. QED BY <1>2, <3>1
  <2>. QED BY <2>1, <2>2
<1>6. ASSUME Len(s) > MaxBlocks PROVE s # <<>>
  BY <1>6, CacheAssumption DEF CacheAssumption
<1> HIDE DEF s
<1>7. store' \in Seq(Entries)
  BY <1>3, <1>5, <1>6
<1>. QED BY <1>2, <1>3, <1>7, ServedStep

LEMMA CacheStep == CacheInv /\ [CacheNext]_cacheVars => CacheInv'
<1> SUFFICES ASSUME CacheInv, [CacheNext]_cacheVars PROVE CacheInv'
  OBVIOUS
<1>1. CASE UNCHANGED cacheVars
  BY <1>1 DEF cacheVars, CacheInv
<1>2. CASE TickCache
  <2>1. hour' = hour + 1 /\ UNCHANGED <<store, build>> /\ hour \in Nat
    BY <1>2 DEF TickCache, CacheInv
  <2>2. \A b \in Builders : build[b].since \in Nat
    BY DEF CacheInv, Builds
  <2>. QED BY <2>1, <2>2 DEF CacheInv
<1>3. ASSUME NEW b \in Builders, ReadData(b) PROVE CacheInv'
  <2> DEFINE x == [build[b] EXCEPT !.at = "built", !.read = hour]
  <2>1. build[b] \in Builds /\ hour \in Nat /\ build[b].at = "reading"
    BY <1>3 DEF CacheInv, ReadData
  <2>2. /\ x \in Builds /\ x.since = build[b].since /\ x.key = build[b].key
        /\ x.of = build[b].of /\ x.read = hour
    BY <2>1 DEF Builds
  <2>3. build' = [build EXCEPT ![b] = x] /\ hour' = hour /\ store' = store
    BY <1>3 DEF ReadData, CacheInv
  <2>4. build[b].since <= hour /\ build[b].key \in Blocks /\ build[b].of \in Prompts
    BY <2>1 DEF CacheInv
  <2>5. store' \in Seq(Entries)
    BY <2>3 DEF CacheInv
  <2> HIDE DEF x
  <2>. QED BY <2>2, <2>3, <2>4, <2>5, BuildStep
<1>4. ASSUME NEW b \in Builders, Keep(b) PROVE CacheInv'
  BY <1>4, KeepStep
<1>5. ASSUME NEW b \in Builders, NEW p \in Prompts, NEW k \in Blocks, Hit(b, p, k)
      PROVE  CacheInv'
  BY <1>5, HitServes
<1>6. ASSUME NEW b \in Builders, NEW p \in Prompts, NEW k \in Blocks, Miss(b, p, k)
      PROVE  CacheInv'
  <2> DEFINE x == AsBegun(Idle, k, p, hour)
  <2>1. hour \in Nat /\ store' = store /\ store' \in Seq(Entries) /\ hour' = hour
    BY <1>6 DEF CacheInv, Miss
  <2>2. /\ x \in Builds /\ x.since = hour /\ x.key = k /\ x.of = p /\ x.at = "reading"
    BY <2>1, IdleBuilds, BegunFields
  <2>3. x.since <= hour /\ x.at # "built" /\ x.key \in Blocks /\ x.of \in Prompts
    BY <2>1, <2>2
  <2>4. build' = [build EXCEPT ![b] = x]
    BY <1>6 DEF Miss, AsBegun
  <2> HIDE DEF x
  <2>. QED BY <2>1, <2>2, <2>3, <2>4, BuildStep
<1>. QED BY <1>1, <1>2, <1>3, <1>4, <1>5, <1>6 DEF CacheNext

LEMMA CacheRests == [ServicesNext]_servicesVars => [CacheNext]_cacheVars
BY DEF ServicesNext, Asking, Embedding, Dispatching, Prompting, Remembering,
       Limiting, servicesVars

(***************************************************************************)
(* No prompt takes from the cache a block of a slow kind whose data was    *)
(* read Ttl or longer ago, whoever built it and however long that took     *)
(* (PromptCache.get_or_build in core/prompt_cache.py).                     *)
(***************************************************************************)
THEOREM BlocksAreFresh == ServicesSpec => NotTooOld
<1>1. ServicesInit => CacheInv
  BY CacheInitInv DEF ServicesInit
<1>2. CacheInv /\ [ServicesNext]_servicesVars => CacheInv'
  BY CacheStep, CacheRests
<1>3. CacheInv /\ [ServicesNext]_servicesVars
        => [\A b \in Builders, p \in Prompts : \A k \in Blocks \ Static :
              Hit(b, p, k) => build'[b].age < Ttl]_cacheVars
  BY HitServes
<1>. QED BY <1>1, <1>2, <1>3, PTL DEF ServicesSpec, NotTooOld
-----------------------------------------------------------------------------
(* Places.                                                                 *)

(* Every number up to the size of a set of places counts the places up to  *)
(* one of them: the first at which so many have been counted.              *)
LEMMA NthIn ==
  ASSUME NEW L \in Nat, NEW S \in SUBSET (1..L), NEW n \in 1..Cardinality(S)
  PROVE  Nth(S, n) \in S /\ Cardinality({j \in S : j <= Nth(S, n)}) = n
<1> DEFINE Upto(m) == {j \in S : j <= m}
           M == {m \in Nat : Cardinality(Upto(m)) >= n}
<1>0. \A j \in S : j \in Nat /\ 1 <= j /\ j <= L
  OBVIOUS
<1>1. IsFiniteSet(S)
  <2>1. IsFiniteSet(1..L)
    BY FS_Interval
  <2>. QED BY <2>1, FS_Subset
<1>2. \A m \in Nat : IsFiniteSet(Upto(m)) /\ Cardinality(Upto(m)) \in Nat
  <2>1. \A m \in Nat : IsFiniteSet(Upto(m))
    BY <1>1, FS_Subset
  <2>. QED BY <2>1, FS_CardinalityType
<1>3. Cardinality(S) \in Nat /\ n \in Nat /\ n > 0
  BY <1>1, FS_CardinalityType
<1>4. L \in M
  <2>1. Upto(L) = S
    BY <1>0
  <2> HIDE DEF Upto
  <2>. QED BY <1>3, <2>1
<1>5. PICK m \in M : \A k \in M : m <= k
  BY <1>4, Least
<1>6. m # 0
  <2>1. Upto(0) = {}
    <3>1. \A j \in S : ~(j <= 0)
      BY <1>0
    <3>. QED BY <3>1
  <2> HIDE DEF Upto
  <2>2. Cardinality(Upto(0)) = 0
    BY <2>1, FS_EmptySet
  <2>3. 0 \notin M
    BY <1>3, <2>2
  <2>. QED BY <2>3
<1>7. m - 1 \in Nat /\ Cardinality(Upto(m - 1)) < n
  <2>1. m \in Nat /\ m - 1 \in Nat /\ ~(m <= m - 1)
    BY <1>6
  <2>2. m - 1 \notin M
    BY <1>5, <2>1
  <2> HIDE DEF Upto
  <2>. QED BY <1>2, <1>3, <2>1, <2>2
<1>8. m \in S
  <2> SUFFICES ASSUME m \notin S PROVE FALSE
    OBVIOUS
  <2>1. Upto(m) = Upto(m - 1)
    <3>1. \A j \in S : j <= m <=> j <= m - 1
      BY <1>0, <1>7
    <3>. QED BY <3>1
  <2> HIDE DEF Upto
  <2>2. Cardinality(Upto(m)) >= n /\ Cardinality(Upto(m)) < n
    BY <1>7, <2>1
  <2>. QED BY <1>2, <1>3, <2>2
<1>9. Cardinality(Upto(m)) = n
  <2>1. Upto(m) = Upto(m - 1) \cup {m}
    <3>1. \A j \in S : j <= m <=> j <= m - 1 \/ j = m
      BY <1>0, <1>7
    <3>. QED BY <1>8, <3>1
  <2>2. m \notin Upto(m - 1)
    BY <1>7
  <2> HIDE DEF Upto
  <2>3. Cardinality(Upto(m)) = Cardinality(Upto(m - 1)) + 1
    BY <1>2, <1>7, <2>1, <2>2, FS_AddElement
  <2>. QED BY <1>2, <1>3, <1>7, <2>3
<1>. QED BY <1>8, <1>9 DEF Nth

(* Where every place is kept, the n-th is the place n.                     *)
LEMMA NthOfAll ==
  ASSUME NEW L \in Nat, NEW n \in 1..L
  PROVE  Cardinality(1..L) = L /\ Nth(1..L, n) = n
<1>1. Cardinality(1..L) = L
  BY FS_Interval
<1>2. Nth(1..L, n) \in 1..L /\ Cardinality({j \in 1..L : j <= Nth(1..L, n)}) = n
  BY <1>1, NthIn
<1> DEFINE m == Nth(1..L, n)
<1> HIDE DEF m
<1>3. m \in 1..L /\ Cardinality({j \in 1..L : j <= m}) = n
  BY <1>2 DEF m
<1>4. {j \in 1..L : j <= m} = 1..m
  BY <1>3
<1>5. Cardinality(1..m) = m
  BY <1>3, FS_Interval
<1>. QED BY <1>1, <1>3, <1>4, <1>5 DEF m
-----------------------------------------------------------------------------
(* The vectors (Embeddings).                                               *)

EmbedInv == model \in Dims /\ dim \in Dims /\ Fits

Batch == Seq(Texts \cup {Blank})

LEMMA BatchesKnown == Batches \subseteq Batch /\ <<SelfTest>> \in Batch
<1>1. SelfTest \in Texts \cup {Blank}
  BY EmbeddingAssumption DEF EmbeddingAssumption
<1>. QED BY <1>1, EmbeddingAssumption DEF EmbeddingAssumption, Batch

LEMMA FoundPlaces ==
  ASSUME NEW texts \in Batch, NEW d
  PROVE  /\ Len(texts) \in Nat
         /\ Found(texts, d) \subseteq 1..Len(texts)
         /\ Cardinality(Found(texts, d)) \in Nat
<1>1. Len(texts) \in Nat /\ DOMAIN texts = 1..Len(texts)
  BY DEF Batch
<1>2. Found(texts, d) \subseteq 1..Len(texts)
  BY <1>1 DEF Found
<1>3. IsFiniteSet(1..Len(texts))
  BY <1>1, FS_Interval
<1>4. IsFiniteSet(Found(texts, d))
  BY <1>2, <1>3, FS_Subset
<1>. QED BY <1>1, <1>2, <1>4, FS_CardinalityType

(* Every vector that is stacked is that of a place that has one ...        *)
LEMMA StackedAt ==
  ASSUME NEW texts \in Batch, NEW d, NEW sent,
         NEW n \in 1..Cardinality(Found(texts, d))
  PROVE  /\ Nth(Found(texts, d), n) \in Found(texts, d)
         /\ Stacked(texts, d, sent)[n] = Vector(texts[Nth(Found(texts, d), n)], d, sent)
<1> DEFINE S == Found(texts, d)
<1>1. S \in SUBSET (1..Len(texts)) /\ Len(texts) \in Nat
  BY FoundPlaces
<1>2. Nth(S, n) \in S
  BY <1>1, NthIn
<1>3. S \subseteq DOMAIN texts
  BY DEF Found
<1>. QED BY <1>2, <1>3 DEF Stacked, Picked

LEMMA StackedLen ==
  ASSUME NEW texts \in Batch, NEW d, NEW sent
  PROVE  /\ DOMAIN Stacked(texts, d, sent) = 1..Cardinality(Found(texts, d))
         /\ Len(Stacked(texts, d, sent)) = Cardinality(Found(texts, d))
<1>1. Cardinality(Found(texts, d)) \in Nat
  BY FoundPlaces
<1>. QED BY <1>1 DEF Stacked, Picked

(* ... and has the dimension of what the server sends.                     *)
LEMMA StackedDim ==
  ASSUME NEW texts \in Batch, NEW d, NEW sent, NEW n \in DOMAIN Stacked(texts, d, sent)
  PROVE  Stacked(texts, d, sent)[n].dim = d
<1>1. n \in 1..Cardinality(Found(texts, d))
  BY StackedLen
<1>2. PICK i \in Found(texts, d) : Stacked(texts, d, sent)[n] = Vector(texts[i], d, sent)
  BY <1>1, StackedAt
<1>3. Vector(texts[i], d, sent).dim = d
  BY DEF Vector, Found, CachedDim
<1>. QED BY <1>2, <1>3

(* Without a change of the model every place has one.                      *)
LEMMA StackedInPlace ==
  ASSUME dim \in Dims, NEW texts \in Batch, NEW sent
  PROVE  /\ Len(Stacked(texts, dim, sent)) = Len(texts)
         /\ \A n \in DOMAIN Stacked(texts, dim, sent) :
              Stacked(texts, dim, sent)[n].of \in {texts[n], Zero}
<1>1. CachedDim(dim) # 0
  BY EmbeddingAssumption DEF EmbeddingAssumption, CachedDim
<1>2. Found(texts, dim) = 1..Len(texts) /\ Len(texts) \in Nat
  BY <1>1 DEF Found, Batch
<1>3. Cardinality(Found(texts, dim)) = Len(texts)
  BY <1>2, FS_Interval
<1>4. ASSUME NEW n \in DOMAIN Stacked(texts, dim, sent)
      PROVE  Stacked(texts, dim, sent)[n].of \in {texts[n], Zero}
  <2>1. n \in 1..Len(texts) /\ n \in 1..Cardinality(Found(texts, dim))
    BY <1>3, StackedLen
  <2>2. Nth(Found(texts, dim), n) = n
    BY <1>2, <2>1, NthOfAll
  <2>3. Stacked(texts, dim, sent)[n] = Vector(texts[n], dim, sent)
    BY <2>1, <2>2, StackedAt
  <2>4. Vector(texts[n], dim, sent).of \in {texts[n], Zero}
    BY DEF Vector
  <2>. QED BY <2>3, <2>4
<1>. QED BY <1>3, <1>4, StackedLen

(* What was given is stacked from the batch, with the dimension that the   *)
(* engine has then; or there is nothing.                                   *)
LEMMA GivenFits ==
  ASSUME dim \in Dims, NEW texts \in Batch, NEW sent, dim' \in Dims,
         Give(texts, Stacked(texts, dim', sent)) \/ Give(texts, Raised)
  PROVE  Fits'
<1>1. CASE Give(texts, Raised)
  BY <1>1 DEF Give, Raised, Fits
<1>2. CASE Give(texts, Stacked(texts, dim', sent))
  <2>1. /\ reply'.got = Stacked(texts, dim', sent) /\ reply'.asked = texts
        /\ reply'.changed = (dim' # dim)
    BY <1>2 DEF Give
  <2>2. \A i, j \in DOMAIN reply'.got : reply'.got[i].dim = reply'.got[j].dim
    BY <2>1, StackedDim
  <2>3. ASSUME ~reply'.changed
        PROVE  /\ Len(reply'.got) = Len(reply'.asked)
               /\ \A i \in DOMAIN reply'.got : reply'.got[i].of \in {reply'.asked[i], Zero}
    <3>1. dim' = dim
      BY <2>1, <2>3
    <3>. QED BY <2>1, <3>1, StackedInPlace
  <2>. QED BY <2>2, <2>3 DEF Fits
<1>. QED BY <1>1, <1>2

LEMMA EncodeStep ==
  ASSUME EmbedInv, NEW texts \in Batch, Encode(texts), UNCHANGED model
  PROVE  EmbedInv'
<1>1. dim \in Dims /\ model \in Dims /\ model' \in Dims
  BY DEF EmbedInv
<1>2. dim' \in Dims /\ \E sent \in BOOLEAN :
        Give(texts, Stacked(texts, dim', sent)) \/ Give(texts, Raised)
  BY <1>1 DEF Encode
<1>. QED BY <1>1, <1>2, GivenFits DEF EmbedInv

LEMMA EmbedStep == EmbedInv /\ [EmbedNext]_embedVars => EmbedInv'
<1> SUFFICES ASSUME EmbedInv, [EmbedNext]_embedVars PROVE EmbedInv'
  OBVIOUS
<1>1. CASE UNCHANGED <<model, dim, reply>>
  BY <1>1 DEF EmbedInv, Fits
<1>2. CASE ServerStep
  <2>1. model' \in Dims /\ UNCHANGED <<dim, reply>>
    BY <1>2 DEF ServerStep, engineVars, EmbedInv
  <2>. QED BY <2>1 DEF EmbedInv, Fits
<1>3. CASE EncodeTexts
  BY <1>3, EncodeStep, BatchesKnown DEF EncodeTexts
<1>4. CASE SelfCheck
  <2>1. CASE Healthy /\ Encode(<<SelfTest>>)
    BY <1>4, <2>1, EncodeStep, BatchesKnown DEF SelfCheck
  <2>. QED BY <1>1, <1>4, <2>1 DEF SelfCheck
<1>. QED BY <1>1, <1>2, <1>3, <1>4
     DEF EmbedNext, HealthCheck, Forget, embedVars, engineVars

LEMMA EmbedRests == [ServicesNext]_servicesVars => [EmbedNext]_embedVars
BY DEF ServicesNext, Asking, Embedding, Dispatching, Prompting, Remembering,
       Limiting, servicesVars

(***************************************************************************)
(* The vectors of a batch can be stacked, whatever the cache holds when    *)
(* the server comes back with another model, and unless it has, each text  *)
(* has its own at its place (EmbeddingEngine.encode in                     *)
(* memory/embeddings.py).                                                  *)
(***************************************************************************)
THEOREM VectorsFit == ServicesSpec => []Fits
<1>1. ServicesInit => EmbedInv
  BY DEF ServicesInit, EmbedInit, EmbedInv, Fits, Raised
<1>2. EmbedInv /\ [ServicesNext]_servicesVars => EmbedInv'
  BY EmbedStep, EmbedRests
<1>3. EmbedInv => Fits
  BY DEF EmbedInv
<1>. QED BY <1>1, <1>2, <1>3, PTL DEF ServicesSpec
=============================================================================
