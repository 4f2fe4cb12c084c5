------------------------ MODULE RuntimeDriverProofs ------------------------
(***************************************************************************)
(* What RuntimeDriver promises, for any loops, agents, gaps and caps.      *)
(***************************************************************************)
EXTENDS RuntimeDriver, TLAPS

USE RuntimeDriverAssumption DEF RuntimeDriverAssumption

(* The properties speak of a file that was written, by the live agent.     *)
Trusted == torn = "no" /\ stale = "no"

(* Who is there: one loop at most, and it drives the live agent.           *)
OneLoop ==
  /\ \A d \in alive : agent # NoAgent /\ owner[d] = agent /\ place[d] # "off"
  /\ \A d, e \in alive : d = e
  /\ \A d \in Drivers : place[d] # "off" => owner[d] \in Agents

(* The file never claims more time since a message than has passed.        *)
FileNotAhead == Trusted => \A k \in Kinds : savedAges[k] <= said[k]

(* A loop that has engaged to speak was within its limit, and still is:    *)
(* nobody else speaks for its agent.                                       *)
Engaged == {"hinted", "topicless", "replying"}

ClearToSpeak ==
  \A d \in alive : place[d] \in Engaged => WithinLimits(owner[d], intent[d])

IInv == /\ TypeOK /\ OneLoop /\ StateOnDisk /\ BackoffJustified
        /\ FileNotAhead /\ ClearToSpeak

-----------------------------------------------------------------------------
LEMMA GapNat == \A k \in Kinds : Gap[k] \in Nat
BY DEF Gap, Kinds

LEMMA SilenceRange ==
  ASSUME NEW n \in Nat
  PROVE  Silence(n) \in 0..MaxBackoff
BY DEF Silence

LEMMA FreshRange ==
  ASSUME NEW f \in Ages, NEW k \in Kinds
  PROVE  Fresh(f, k) \in Ages
BY GapNat DEF Fresh, Ages

LEMMA OlderRange ==
  ASSUME NEW f \in Ages
  PROVE  Older(f) \in Ages
BY GapNat DEF Older, Ages

LEMMA NeverRange == Never \in Ages
BY GapNat DEF Never, Ages

LEMMA SaveRange ==
  ASSUME TypeOK, NEW f \in Ages, NEW n \in 0..MaxSilents, Save(f, n)
  PROVE  savedAges' \in Ages /\ savedSilents' \in 0..MaxSilents /\ torn' \in {"no", "yes"}
BY NeverRange DEF Save, TypeOK

(* Who runs: one loop at most, and every thread has an agent.              *)
LEMMA TypesAndLoops == Spec => [](TypeOK /\ OneLoop)
<1>1. Init => TypeOK /\ OneLoop
  BY NeverRange DEF Init, TypeOK, OneLoop, Kinds, Places
<1>2. TypeOK /\ OneLoop /\ [Next]_vars => TypeOK' /\ OneLoop'
  <2> SUFFICES ASSUME TypeOK, OneLoop, [Next]_vars PROVE TypeOK' /\ OneLoop'
    OBVIOUS
  <2>1. ASSUME NEW d \in Drivers, NoticeUser(d) PROVE TypeOK' /\ OneLoop'
    <3>1. owner[d] \in Agents
      BY <2>1 DEF NoticeUser, Ready, OneLoop
    <3>2. ages[owner[d]] \in Ages
      BY <3>1 DEF TypeOK
    <3>3. savedAges' \in Ages /\ savedSilents' \in 0..MaxSilents /\ torn' \in {"no", "yes"}
      BY <2>1, <3>2, SaveRange DEF NoticeUser
    <3>4. TypeOK'
      BY <2>1, <3>1, <3>3 DEF NoticeUser, Rests, TypeOK
    <3>5. OneLoop'
      BY <2>1 DEF NoticeUser, OneLoop
    <3>. QED BY <3>4, <3>5
  <2>2. ASSUME NEW d \in Drivers, CoolDown(d) \/ Decide(d) \/ SleepNews(d)
        PROVE  TypeOK' /\ OneLoop'
    <3>1. TypeOK'
      BY <2>2 DEF CoolDown, Decide, SleepNews, Ready, Rests, Goes, file, TypeOK, Places
    <3>2. OneLoop'
      BY <2>2 DEF CoolDown, Decide, SleepNews, Ready, Goes, OneLoop, TypeOK
    <3>. QED BY <3>1, <3>2
  <2>3. ASSUME NEW d \in Drivers, Decided(d) PROVE TypeOK' /\ OneLoop'
    <3>1. owner[d] \in Agents /\ ages[owner[d]] \in Ages /\ silents[owner[d]] \in 0..MaxSilents
      BY <2>3 DEF Decided, OneLoop, TypeOK
    <3>2. CASE Silent(d)
      <4> DEFINE n == IF silents[owner[d]] < MaxSilents THEN silents[owner[d]] + 1 ELSE MaxSilents
      <4>1. n \in 0..MaxSilents /\ Silence(n) \in 0..MaxBackoff
        <5>1. n \in 0..MaxSilents
          BY <3>1
        <5>. QED BY <5>1, SilenceRange
      <4>2. /\ silents' = [silents EXCEPT ![owner[d]] = n]
            /\ backoff' = [backoff EXCEPT ![d] = Silence(n)]
            /\ Save(ages[owner[d]], n)
        BY <3>2 DEF Silent
      <4> HIDE DEF n
      <4>3. savedAges' \in Ages /\ savedSilents' \in 0..MaxSilents /\ torn' \in {"no", "yes"}
        BY <3>1, <4>1, <4>2, SaveRange
      <4>4. TypeOK'
        BY <2>3, <3>1, <3>2, <4>1, <4>2, <4>3 DEF Decided, Silent, Goes, TypeOK, Places
      <4>5. OneLoop'
        BY <2>3, <3>2 DEF Decided, Silent, Goes, OneLoop, TypeOK
      <4>. QED BY <4>4, <4>5
    <3>3. ASSUME NEW k \in Kinds, Engage(d, k) \/ Blocked(d, k) PROVE TypeOK' /\ OneLoop'
      <4>1. savedAges' \in Ages /\ savedSilents' \in 0..MaxSilents /\ torn' \in {"no", "yes"}
        <5>1. CASE SaveAsIs(owner[d])
          BY <3>1, <5>1, SaveRange DEF SaveAsIs
        <5>2. CASE UNCHANGED file
          BY <5>2 DEF file, TypeOK
        <5>. QED BY <3>3, <5>1, <5>2 DEF Engage, Blocked
      <4>2. /\ place' = [place EXCEPT ![d] = place'[d]]
            /\ place'[d] \in {"hinted", "topicless", "tick"}
        BY <3>3 DEF Engage, Blocked, Goes, TypeOK
      <4>3. intent' \in [Drivers -> Kinds] /\ UNCHANGED <<ages, silents, backoff>>
        BY <3>3 DEF Engage, Blocked, TypeOK
      <4>4. TypeOK'
        BY <2>3, <4>1, <4>2, <4>3 DEF Decided, TypeOK, Places
      <4>5. OneLoop'
        BY <2>3, <4>2 DEF Decided, OneLoop, TypeOK
      <4>. QED BY <4>4, <4>5
    <3>. QED BY <2>3, <3>2, <3>3 DEF Decided
  <2>4. ASSUME NEW d \in Drivers, Begin(d) PROVE TypeOK' /\ OneLoop'
    <3>1. owner[d] \in Agents /\ ages[owner[d]] \in Ages /\ silents[owner[d]] \in 0..MaxSilents
      BY <2>4 DEF Begin, OneLoop, TypeOK
    <3>2. /\ savedAges' \in Ages /\ savedSilents' \in 0..MaxSilents
          /\ torn' \in {"no", "yes"} /\ stale' \in {"no", "yes"}
      <4>1. CASE SaveAsIs(owner[d])
        <5>1. savedAges' \in Ages /\ savedSilents' \in 0..MaxSilents /\ torn' \in {"no", "yes"}
          BY <3>1, <4>1, SaveRange DEF SaveAsIs
        <5>. QED BY <2>4, <5>1 DEF Begin, TypeOK
      <4>2. CASE UNCHANGED <<file, stale>>
        BY <4>2 DEF file, TypeOK
      <4>. QED BY <2>4, <4>1, <4>2 DEF Begin
    <3>3. TypeOK'
      BY <2>4, <3>2 DEF Begin, Goes, TypeOK, Places
    <3>4. OneLoop'
      BY <2>4, <3>1 DEF Begin, Goes, OneLoop, TypeOK
    <3>. QED BY <3>3, <3>4
  <2>5. ASSUME NEW d \in Drivers, Speak(d) PROVE TypeOK' /\ OneLoop'
    <3>1. owner[d] \in Agents /\ ages[owner[d]] \in Ages /\ intent[d] \in Kinds
      BY <2>5 DEF Speak, OneLoop, TypeOK
    <3>2. Fresh(ages[owner[d]], intent[d]) \in Ages /\ Fresh(said, intent[d]) \in Ages
      BY <3>1, FreshRange DEF TypeOK
    <3>3. savedAges' \in Ages /\ savedSilents' \in 0..MaxSilents /\ torn' \in {"no", "yes"}
      BY <2>5, <3>2, SaveRange DEF Speak
    <3>4. TypeOK'
      BY <2>5, <3>1, <3>2, <3>3 DEF Speak, Goes, TypeOK, Places
    <3>5. OneLoop'
      BY <2>5 DEF Speak, Goes, OneLoop, TypeOK
    <3>. QED BY <3>4, <3>5
  <2>6. ASSUME NEW d \in Drivers, TickEnds(d) \/ ThreadEnds(d) PROVE TypeOK' /\ OneLoop'
    <3>1. TypeOK'
      BY <2>6 DEF TickEnds, ThreadEnds, Goes, file, TypeOK, Places
    <3>2. OneLoop'
      BY <2>6 DEF TickEnds, ThreadEnds, Goes, OneLoop, TypeOK, Threads
    <3>. QED BY <3>1, <3>2
  <2>7. ASSUME NEW d \in Drivers, StartDriver(d) PROVE TypeOK' /\ OneLoop'
    <3>1. TypeOK'
      BY <2>7 DEF StartDriver, Cancelled, file, TypeOK, Places, Threads
    <3>2. OneLoop'
      BY <2>7 DEF StartDriver, Cancelled, OneLoop, TypeOK, Threads
    <3>. QED BY <3>1, <3>2
  <2>8. ASSUME NEW a \in Agents, Load(a) PROVE TypeOK' /\ OneLoop'
    <3>1. TypeOK'
      BY <2>8 DEF Load, file, loops, TypeOK
    <3>2. OneLoop'
      BY <2>8 DEF Load, loops, OneLoop
    <3>. QED BY <3>1, <3>2
  <2>9. CASE UserSpeaks \/ UNCHANGED vars
    BY <2>9 DEF UserSpeaks, file, loops, vars, TypeOK, OneLoop
  <2>10. CASE Remove \/ Crash
    <3>1. TypeOK'
      BY <2>10 DEF Remove, Crash, Cancelled, file, TypeOK, Places, Threads
    <3>2. OneLoop'
      BY <2>10 DEF Remove, Crash, Cancelled, OneLoop, TypeOK, Threads
    <3>. QED BY <3>1, <3>2
  <2>11. CASE Wait
    <3>1. /\ ages' \in [Agents -> Ages] /\ savedAges' \in Ages /\ said' \in Ages
      BY <2>11, OlderRange DEF Wait, TypeOK
    <3>2. backoff' \in [Drivers -> 0..MaxBackoff] /\ idle' \in 0..IdleFloor
      BY <2>11 DEF Wait, TypeOK
    <3>3. TypeOK'
      BY <2>11, <3>1, <3>2 DEF Wait, TypeOK
    <3>4. OneLoop'
      BY <2>11 DEF Wait, OneLoop
    <3>. QED BY <3>3, <3>4
  <2>. QED
    BY <2>1, <2>2, <2>3, <2>4, <2>5, <2>6, <2>7, <2>8, <2>9, <2>10, <2>11
    DEF Next, Tick, Call
<1>. QED BY <1>1, <1>2, PTL DEF Spec

(* The type invariant: of everything a loop, a thread or an agent keeps,   *)
(* over restarts, and of what the state file holds.                        *)
THEOREM DriverTypes == Spec => []TypeOK
BY TypesAndLoops, PTL

-----------------------------------------------------------------------------
(* A save that has not failed left in the file what it was given.          *)
LEMMA SaveHolds ==
  ASSUME NEW f, NEW n, Save(f, n), torn' = "no"
  PROVE  torn = "no" /\ savedAges' = f /\ savedSilents' = n
BY DEF Save

(* The steps that neither save, nor change what an agent holds, nor let    *)
(* time pass, nor bring a loop to a place where it is about to speak.      *)
Calm(d) == CoolDown(d) \/ Decide(d) \/ SleepNews(d) \/ TickEnds(d) \/ ThreadEnds(d)

LEMMA CalmStep ==
  ASSUME TypeOK, NEW d \in Drivers, Calm(d)
  PROVE  /\ UNCHANGED <<agent, ages, silents, savedAges, savedSilents, torn, stale,
                        said, alive, owner, intent, backoff>>
         /\ \A e \in Drivers : place'[e] \in Engaged => place'[e] = place[e]
<1>1. UNCHANGED <<agent, ages, silents, savedAges, savedSilents, torn, stale,
                  said, alive, owner, intent, backoff>>
  BY DEF Calm, CoolDown, Decide, SleepNews, TickEnds, ThreadEnds, file
<1>2. \A e \in Drivers : place'[e] \in Engaged => place'[e] = place[e]
  BY DEF Calm, CoolDown, Decide, SleepNews, TickEnds, ThreadEnds, Goes, Engaged, TypeOK
<1>. QED BY <1>1, <1>2

(* A driver holds back only for silences that were counted.                *)
LEMMA BackoffStep ==
  ASSUME TypeOK, OneLoop, BackoffJustified, [Next]_vars
  PROVE  BackoffJustified'
<1>1. ASSUME NEW n \in 0..MaxSilents PROVE Silence(n) \in 0..MaxBackoff
  BY SilenceRange
<1>2. \A d \in alive : owner[d] \in Agents /\ silents[owner[d]] \in 0..MaxSilents
  BY DEF TypeOK, OneLoop
<1>3. ASSUME NEW d \in Drivers, Calm(d) \/ Begin(d) PROVE BackoffJustified'
  <2>1. UNCHANGED <<alive, owner, silents, backoff>>
    BY <1>3, CalmStep DEF Begin
  <2>. QED BY <2>1 DEF BackoffJustified
<1>4. ASSUME NEW d \in Drivers, NoticeUser(d) \/ Speak(d) PROVE BackoffJustified'
  <2>1. /\ d \in alive /\ alive' = alive /\ owner' = owner
        /\ backoff' = [backoff EXCEPT ![d] = 0]
        /\ silents' = [silents EXCEPT ![owner[d]] = 0]
    BY <1>4 DEF NoticeUser, Ready, Speak
  <2>2. \A e \in alive' : e = d
    BY <2>1 DEF OneLoop
  <2>3. backoff'[d] = 0 /\ silents'[owner'[d]] = 0
    BY <2>1, <1>2 DEF TypeOK
  <2>. QED BY <2>2, <2>3 DEF BackoffJustified, Silence
<1>5. ASSUME NEW d \in Drivers, Decided(d) PROVE BackoffJustified'
  <2>1. d \in alive /\ alive' = alive /\ owner' = owner /\ \A e \in alive : e = d
    BY <1>5 DEF Decided, OneLoop
  <2>2. CASE Silent(d)
    <3> DEFINE n == IF silents[owner[d]] < MaxSilents THEN silents[owner[d]] + 1 ELSE MaxSilents
    <3>1. /\ silents' = [silents EXCEPT ![owner[d]] = n]
          /\ backoff' = [backoff EXCEPT ![d] = Silence(n)]
      BY <2>2 DEF Silent
    <3>2. n \in 0..MaxSilents
      BY <1>2, <2>1
    <3> HIDE DEF n
    <3>3. backoff'[d] = Silence(n) /\ silents'[owner'[d]] = n
      BY <1>2, <2>1, <3>1 DEF TypeOK
    <3>4. Silence(n) \in 0..MaxBackoff
      BY <3>2, <1>1
    <3>5. backoff'[d] <= Silence(silents'[owner'[d]])
      BY <3>3, <3>4
    <3>. QED BY <2>1, <3>5 DEF BackoffJustified, Silence
  <2>3. ASSUME NEW k \in Kinds, Engage(d, k) \/ Blocked(d, k) PROVE BackoffJustified'
    BY <2>1, <2>3 DEF Engage, Blocked, BackoffJustified
  <2>. QED BY <1>5, <2>2, <2>3 DEF Decided
<1>6. ASSUME NEW d \in Drivers, StartDriver(d) PROVE BackoffJustified'
  <2>1. /\ alive' = {d} /\ backoff'[d] = 0 /\ owner'[d] = agent /\ agent \in Agents
        /\ silents' = silents
    BY <1>6 DEF StartDriver, TypeOK
  <2>2. Silence(silents'[owner'[d]]) \in 0..MaxBackoff
    BY <2>1, <1>1 DEF TypeOK
  <2>. QED BY <2>1, <2>2 DEF BackoffJustified, Silence
<1>7. ASSUME NEW a \in Agents, Load(a) PROVE BackoffJustified'
  BY <1>7 DEF Load, loops, OneLoop, BackoffJustified
<1>8. CASE UserSpeaks \/ UNCHANGED vars
  BY <1>8 DEF UserSpeaks, vars, loops, BackoffJustified
<1>9. CASE Remove \/ Crash
  BY <1>9 DEF Remove, Crash, BackoffJustified
<1>10. CASE Wait
  <2>1. UNCHANGED <<alive, owner, silents>>
    BY <1>10 DEF Wait
  <2>2. ASSUME NEW d \in alive PROVE backoff'[d] <= Silence(silents[owner[d]])
    <3>1. backoff[d] \in 0..MaxBackoff /\ Silence(silents[owner[d]]) \in 0..MaxBackoff
      BY <1>1, <1>2 DEF TypeOK
    <3>2. backoff'[d] <= backoff[d] /\ backoff'[d] \in Int
      BY <1>10, <3>1 DEF Wait, TypeOK
    <3>. QED BY <3>1, <3>2 DEF BackoffJustified
  <2>. QED BY <2>1, <2>2 DEF BackoffJustified
<1>. QED
  BY <1>3, <1>4, <1>5, <1>6, <1>7, <1>8, <1>9, <1>10 DEF Next, Tick, Call, Calm

(* A loop of the live agent has the turn's clock to itself: what it was    *)
(* allowed when it engaged, it is still allowed when it speaks.            *)
LEMMA ClearStep ==
  ASSUME TypeOK, OneLoop, ClearToSpeak, [Next]_vars
  PROVE  ClearToSpeak'
<1> USE DEF WithinLimits
<1>1. ASSUME NEW d \in Drivers, Calm(d) PROVE ClearToSpeak'
  BY <1>1, CalmStep DEF ClearToSpeak, TypeOK
<1>2. ASSUME NEW d \in Drivers, NoticeUser(d) PROVE ClearToSpeak'
  BY <1>2 DEF NoticeUser, ClearToSpeak
<1>3. ASSUME NEW d \in Drivers, Begin(d) PROVE ClearToSpeak'
  BY <1>3 DEF Begin, Goes, ClearToSpeak, Engaged, TypeOK
<1>4. ASSUME NEW d \in Drivers, Speak(d) PROVE ClearToSpeak'
  <2>1. \A e \in alive' : place'[e] = "spoke"
    BY <1>4 DEF Speak, Goes, OneLoop, TypeOK
  <2>. QED BY <2>1 DEF ClearToSpeak, Engaged
<1>5. ASSUME NEW d \in Drivers, Decided(d) PROVE ClearToSpeak'
  <2>1. /\ \A e \in alive' : e = d
        /\ UNCHANGED owner
    BY <1>5 DEF Decided, OneLoop
  <2>2. CASE Silent(d)
    BY <1>5, <2>1, <2>2 DEF Silent, Goes, ClearToSpeak, Engaged, TypeOK
  <2>3. ASSUME NEW k \in Kinds, Engage(d, k) PROVE ClearToSpeak'
    <3>1. intent'[d] = k /\ ages' = ages /\ ages[owner[d]][k] = Gap[k]
      BY <2>3 DEF Engage, TypeOK
    <3>. QED BY <2>1, <3>1 DEF ClearToSpeak
  <2>4. ASSUME NEW k \in Kinds, Blocked(d, k) PROVE ClearToSpeak'
    BY <1>5, <2>1, <2>4 DEF Blocked, Goes, ClearToSpeak, Engaged, TypeOK
  <2>. QED BY <1>5, <2>2, <2>3, <2>4 DEF Decided
<1>6. ASSUME NEW d \in Drivers, StartDriver(d) PROVE ClearToSpeak'
  BY <1>6 DEF StartDriver, Cancelled, ClearToSpeak, Engaged, TypeOK
<1>7. ASSUME NEW a \in Agents, Load(a) PROVE ClearToSpeak'
  BY <1>7 DEF Load, loops, OneLoop, ClearToSpeak
<1>8. CASE UserSpeaks \/ UNCHANGED vars
  BY <1>8 DEF UserSpeaks, vars, loops, ClearToSpeak
<1>9. CASE Remove \/ Crash
  BY <1>9 DEF Remove, Crash, ClearToSpeak
<1>10. CASE Wait
  <2>1. ASSUME NEW d \in alive, place[d] \in Engaged
        PROVE  ages'[owner[d]][intent[d]] = Gap[intent[d]]
    <3>1. owner[d] \in Agents /\ intent[d] \in Kinds /\ d \in Drivers
      BY DEF OneLoop, TypeOK
    <3>2. ages[owner[d]][intent[d]] = Gap[intent[d]]
      BY <2>1 DEF ClearToSpeak
    <3>3. ages'[owner[d]] = Older(ages[owner[d]])
      BY <1>10, <3>1 DEF Wait
    <3>. QED BY <3>1, <3>2, <3>3, GapNat DEF Older
  <2>. QED BY <1>10, <2>1 DEF Wait, ClearToSpeak
<1>. QED
  BY <1>1, <1>2, <1>3, <1>4, <1>5, <1>6, <1>7, <1>8, <1>9, <1>10
  DEF Next, Tick, Call, Calm

(* A save by the live agent, of what it then holds, keeps the file true.   *)
LEMMA SavedByLive ==
  ASSUME TypeOK, agent' = agent, NEW f, NEW n, Save(f, n), UNCHANGED stale,
         ages'[agent] = f, silents'[agent] = n,
         Trusted => \A k \in Kinds : f[k] <= said'[k]
  PROVE  StateOnDisk' /\ FileNotAhead'
<1>1. StateOnDisk'
  BY SaveHolds DEF StateOnDisk
<1>2. FileNotAhead'
  BY SaveHolds DEF FileNotAhead, Trusted
<1>. QED BY <1>1, <1>2

(* The file is the live agent's, and never ahead of what was said.         *)
LEMMA FileStep ==
  ASSUME TypeOK, OneLoop, StateOnDisk, FileNotAhead, [Next]_vars
  PROVE  StateOnDisk' /\ FileNotAhead'
<1>1. ASSUME NEW d \in alive
      PROVE  /\ d \in Drivers /\ owner[d] = agent /\ agent \in Agents /\ agent # NoAgent
             /\ Trusted => \A k \in Kinds : ages[agent][k] <= said[k]
  <2>1. d \in Drivers /\ owner[d] = agent /\ agent \in Agents /\ agent # NoAgent
    BY DEF OneLoop, TypeOK
  <2>2. Trusted => \A k \in Kinds : ages[agent][k] <= said[k]
    BY <2>1 DEF StateOnDisk, FileNotAhead, Trusted
  <2>. QED BY <2>1, <2>2
<1>2. ASSUME UNCHANGED <<agent, ages, silents, savedAges, savedSilents, torn, stale, said>>
      PROVE  StateOnDisk' /\ FileNotAhead'
  BY <1>2 DEF StateOnDisk, FileNotAhead, Trusted
<1>3. ASSUME NEW d \in alive, SaveAsIs(owner[d]),
             UNCHANGED <<agent, ages, silents, stale, said>>
      PROVE  StateOnDisk' /\ FileNotAhead'
  BY <1>1, <1>3, SavedByLive DEF SaveAsIs
<1>4. ASSUME NEW d \in Drivers, Calm(d) PROVE StateOnDisk' /\ FileNotAhead'
  BY <1>2, <1>4, CalmStep
<1>5. ASSUME NEW d \in Drivers, NoticeUser(d) PROVE StateOnDisk' /\ FileNotAhead'
  <2>1. /\ d \in alive /\ agent' = agent /\ ages' = ages /\ said' = said /\ stale' = stale
        /\ Save(ages[owner[d]], 0) /\ silents' = [silents EXCEPT ![owner[d]] = 0]
    BY <1>5 DEF NoticeUser, Ready
  <2>2. owner[d] = agent /\ silents'[agent] = 0
    BY <1>1, <2>1 DEF TypeOK
  <2>. QED BY <1>1, <2>1, <2>2, SavedByLive
<1>6. ASSUME NEW d \in Drivers, Decided(d) PROVE StateOnDisk' /\ FileNotAhead'
  <2>1. d \in alive /\ UNCHANGED <<agent, stale, said>>
    BY <1>6 DEF Decided
  <2>2. CASE Silent(d)
    <3> DEFINE n == IF silents[owner[d]] < MaxSilents THEN silents[owner[d]] + 1 ELSE MaxSilents
    <3>1. /\ silents' = [silents EXCEPT ![owner[d]] = n]
          /\ Save(ages[owner[d]], n) /\ ages' = ages
      BY <2>2 DEF Silent
    <3> HIDE DEF n
    <3>2. owner[d] = agent /\ silents'[agent] = n
      BY <1>1, <2>1, <3>1 DEF TypeOK
    <3>. QED BY <1>1, <2>1, <3>1, <3>2, SavedByLive
  <2>3. ASSUME NEW k \in Kinds, Engage(d, k) \/ Blocked(d, k)
        PROVE  StateOnDisk' /\ FileNotAhead'
    <3>1. /\ ages' = ages /\ silents' = silents
          /\ (SaveAsIs(owner[d]) \/ UNCHANGED file)
      BY <2>3 DEF Engage, Blocked
    <3>. QED BY <1>2, <1>3, <2>1, <3>1 DEF file
  <2>. QED BY <1>6, <2>2, <2>3 DEF Decided
<1>7. ASSUME NEW d \in Drivers, Begin(d) PROVE StateOnDisk' /\ FileNotAhead'
  <2>1. UNCHANGED <<agent, ages, silents, said>>
    BY <1>7 DEF Begin
  <2>2. CASE UNCHANGED <<file, stale>>
    BY <1>2, <2>1, <2>2 DEF file
  <2>3. CASE owner[d] = agent /\ stale' = stale /\ SaveAsIs(owner[d])
    <3>1. agent \in Agents \/ agent = NoAgent
      BY DEF TypeOK
    <3>2. Trusted /\ agent # NoAgent => \A k \in Kinds : ages[agent][k] <= said[k]
      BY DEF StateOnDisk, FileNotAhead, Trusted
    <3>3. agent # NoAgent
      BY <1>7, <2>3 DEF Begin, OneLoop
    <3>. QED BY <2>1, <2>3, <3>2, <3>3, SavedByLive DEF SaveAsIs
  <2>4. CASE stale' = "yes"
    BY <2>4 DEF StateOnDisk, FileNotAhead, Trusted
  <2>. QED BY <1>7, <2>2, <2>3, <2>4 DEF Begin
<1>8. ASSUME NEW d \in Drivers, Speak(d) PROVE StateOnDisk' /\ FileNotAhead'
  <2>1. /\ d \in alive /\ agent' = agent /\ stale' = stale
        /\ Save(Fresh(ages[owner[d]], intent[d]), 0)
        /\ ages' = [ages EXCEPT ![owner[d]] = Fresh(@, intent[d])]
        /\ silents' = [silents EXCEPT ![owner[d]] = 0]
        /\ said' = Fresh(said, intent[d])
    BY <1>8 DEF Speak
  <2>2. /\ owner[d] = agent /\ silents'[agent] = 0
        /\ ages'[agent] = Fresh(ages[owner[d]], intent[d])
    BY <1>1, <2>1 DEF TypeOK
  <2>3. Trusted => \A k \in Kinds : Fresh(ages[owner[d]], intent[d])[k] <= said'[k]
    <3>1. ages[agent] \in Ages /\ said \in Ages
      BY <1>1, <2>1 DEF TypeOK
    <3>. QED BY <1>1, <2>1, <2>2, <3>1 DEF Fresh, Ages
  <2>. QED BY <2>1, <2>2, <2>3, SavedByLive
<1>9. ASSUME NEW d \in Drivers, StartDriver(d) PROVE StateOnDisk' /\ FileNotAhead'
  BY <1>2, <1>9 DEF StartDriver, file
<1>10. ASSUME NEW a \in Agents, Load(a) PROVE StateOnDisk' /\ FileNotAhead'
  BY <1>10 DEF Load, file, StateOnDisk, FileNotAhead, Trusted, TypeOK
<1>11. CASE UserSpeaks \/ UNCHANGED vars
  BY <1>2, <1>11 DEF UserSpeaks, vars, file
<1>12. CASE Remove \/ Crash
  BY <1>12 DEF Remove, Crash, file, StateOnDisk, FileNotAhead, Trusted
<1>13. CASE Wait
  <2>1. /\ UNCHANGED <<agent, silents, savedSilents, torn, stale>>
        /\ savedAges' = Older(savedAges) /\ said' = Older(said)
        /\ agent \in Agents => ages'[agent] = Older(ages[agent])
    BY <1>13 DEF Wait
  <2>2. StateOnDisk'
    BY <2>1 DEF StateOnDisk, TypeOK
  <2>3. FileNotAhead'
    BY <2>1, GapNat DEF FileNotAhead, Trusted, TypeOK, Ages, Older
  <2>. QED BY <2>2, <2>3
<1>. QED
  BY <1>4, <1>5, <1>6, <1>7, <1>8, <1>9, <1>10, <1>11, <1>12, <1>13
  DEF Next, Tick, Call, Calm

-----------------------------------------------------------------------------
(* All of it together, in every reachable state.                           *)
LEMMA Invariant == Spec => []IInv
<1>1. Init => StateOnDisk /\ BackoffJustified /\ FileNotAhead /\ ClearToSpeak
  BY GapNat DEF Init, StateOnDisk, BackoffJustified, FileNotAhead, ClearToSpeak, Never, Kinds
<1>2. TypeOK /\ OneLoop /\ (StateOnDisk /\ BackoffJustified /\ FileNotAhead /\ ClearToSpeak)
        /\ [Next]_vars
      => (StateOnDisk /\ BackoffJustified /\ FileNotAhead /\ ClearToSpeak)'
  BY BackoffStep, ClearStep, FileStep
<1>. QED BY <1>1, <1>2, TypesAndLoops, PTL DEF Spec, IInv

(* A driver's backoff, in memory, and the count of silences, in the file,  *)
(* agree, whoever resets either: the backoff is never more than the count  *)
(* accounts for.                                                           *)
THEOREM BackoffAccounted == Spec => []BackoffJustified
BY Invariant, PTL DEF IInv

(* What a restart reads back is what the live agent held, unless a write   *)
(* failed or a dropped agent's thread came later.                          *)
THEOREM LimitsOnDisk == Spec => []StateOnDisk
BY Invariant, PTL DEF IInv

(* The rate limit, over any sequence of drivers, sessions and processes.   *)
THEOREM SeldomSpeaks == Spec => RateLimited
<1> DEFINE Within == \A d \in Drivers : Spoke(d) /\ torn = "no" /\ stale = "no" =>
                       said[intent[d]] = Gap[intent[d]]
<1>1. IInv /\ [Next]_vars => [Within]_vars
  <2> SUFFICES ASSUME IInv, [Next]_vars, NEW d \in Drivers, Spoke(d), torn = "no", stale = "no"
               PROVE  said[intent[d]] = Gap[intent[d]]
    OBVIOUS
  <2>1. d \in alive
    <3> USE DEF Spoke, IInv, TypeOK
    <3>1. ASSUME NEW e \in Drivers, Calm(e) PROVE d \in alive
      BY <3>1 DEF Calm, CoolDown, Decide, SleepNews, TickEnds, ThreadEnds, Goes
    <3>2. ASSUME NEW e \in Drivers, NoticeUser(e) \/ Begin(e) PROVE d \in alive
      BY <3>2 DEF NoticeUser, Begin, Goes
    <3>3. ASSUME NEW e \in Drivers, Decided(e) PROVE d \in alive
      BY <3>3 DEF Decided, Silent, Engage, Blocked, Goes
    <3>4. ASSUME NEW e \in Drivers, Speak(e) PROVE d \in alive
      BY <3>4 DEF Speak, Goes
    <3>5. ASSUME NEW e \in Drivers, StartDriver(e) PROVE d \in alive
      BY <3>5 DEF StartDriver, Cancelled
    <3>6. CASE UserSpeaks \/ UNCHANGED vars \/ Wait \/ \E a \in Agents : Load(a)
      BY <3>6 DEF UserSpeaks, vars, loops, Wait, Load
    <3>7. CASE Remove \/ Crash
      BY <3>7 DEF Remove, Crash, Cancelled
    <3>. QED BY <3>1, <3>2, <3>3, <3>4, <3>5, <3>6, <3>7 DEF Next, Tick, Call, Calm
  <2>2. intent[d] \in Kinds /\ owner[d] = agent /\ agent # NoAgent
    BY <2>1 DEF IInv, TypeOK, OneLoop
  <2>3. ages[agent][intent[d]] = Gap[intent[d]]
    BY <2>1, <2>2 DEF IInv, ClearToSpeak, Spoke, Engaged, WithinLimits
  <2>4. savedAges[intent[d]] <= said[intent[d]] /\ savedAges = ages[agent]
    BY <2>2 DEF IInv, Trusted, FileNotAhead, StateOnDisk
  <2>5. said[intent[d]] <= Gap[intent[d]] /\ said[intent[d]] \in Nat
    BY <2>2 DEF IInv, TypeOK, Ages
  <2>. QED BY <2>2, <2>3, <2>4, <2>5, GapNat
<1>. QED BY <1>1, Invariant, PTL DEF Spec, RateLimited
=============================================================================
