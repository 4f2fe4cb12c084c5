-------------------------- MODULE SleepCycleProofs --------------------------
(***************************************************************************)
(* What SleepCycle promises, for every transition cooldown that the        *)
(* afternoon leaves room for.                                              *)
(***************************************************************************)
EXTENDS SleepCycle, TLAPS

USE CooldownAssumption DEF CooldownAssumption

LEMMA Midnight ==
  ASSUME NEW t \in 0 .. Day - 1
  PROVE  (t + 1) % Day = IF t = Day - 1 THEN 0 ELSE t + 1
BY DEF Day

(* The type invariant of the module: a driver's bookkeeping lives and dies *)
(* with it, and an agent that is not loaded is in no state.                *)
THEOREM SleepTypes == Spec => []TypeOK
<1>1. Init => TypeOK
  BY DEF Init, TypeOK, Loaded, Driven, Day, At
<1>2. TypeOK /\ [Next]_vars => TypeOK'
  <2> SUFFICES ASSUME TypeOK, [Next]_vars PROVE TypeOK'
    OBVIOUS
  <2>1. CASE Check
    <3>1. CASE FallAsleep
      BY <2>1, <3>1 DEF TypeOK, Check, FallAsleep, Turn, Loaded, Driven
    <3>2. CASE Wake
      BY <2>1, <3>2 DEF TypeOK, Check, Wake, Turn, Loaded, Driven
    <3>3. CASE StayAsItIs
      BY <2>1, <3>3 DEF TypeOK, Check, StayAsItIs, Loaded, Driven
    <3>. QED BY <2>1, <3>1, <3>2, <3>3 DEF Check
  <2>2. CASE WakeDream \/ SleepDream
    <3>1. dreams' \in 0..3
      BY <2>2 DEF TypeOK, WakeDream, SleepDream, Dream
    <3>2. at' \in {"tick", "tell"} /\ life' = life /\ life \in Driven
      BY <2>2 DEF TypeOK, WakeDream, SleepDream, Dream
    <3>3. wait' \in 0 .. Cooldown + 1
      BY <2>2 DEF TypeOK, WakeDream, SleepDream
    <3>4. UNCHANGED <<clock, life, mind, file, tears, guard, asks, slept>>
      BY <2>2 DEF WakeDream, SleepDream, Dream
    <3>. QED BY <3>1, <3>2, <3>3, <3>4 DEF TypeOK, Loaded, Driven
  <2>3. CASE Tell \/ Keep
    BY <2>3 DEF TypeOK, Tell, Keep, GoOn, Loaded, Driven
  <2>4. CASE Load \/ StartDriver
    <3>1. life' \in Loaded /\ mind' \in {"awake", "asleep"} /\ guard' \in 0..2
      BY <2>4 DEF TypeOK, Load, StartDriver, Loaded
    <3>2. at = "tick" /\ wait = 0 /\ asks = 0
      BY <2>4 DEF TypeOK, Load, StartDriver, Loaded, Driven
    <3>3. UNCHANGED <<clock, file, tears, at, wait, asks, dreams, slept>>
      BY <2>4 DEF Load, StartDriver
    <3>4. life' # "none"
      BY <3>1 DEF Loaded
    <3>. QED BY <3>1, <3>2, <3>3, <3>4 DEF TypeOK
  <2>5. CASE StopDriver \/ Unload
    <3>1. /\ life' \in {"none"} \cup Loaded
          /\ mind' \in {"awake", "asleep"} /\ (life' = "none" => mind' = "awake")
      BY <2>5 DEF TypeOK, StopDriver, Unload, Loaded
    <3>2. at' = "tick" /\ wait' = 0 /\ asks' = 0
      BY <2>5 DEF StopDriver, Unload, NoDriver
    <3>3. UNCHANGED <<clock, file, tears, guard, dreams, slept>>
      BY <2>5 DEF StopDriver, Unload
    <3>. QED BY <3>1, <3>2, <3>3 DEF TypeOK
  <2>6. CASE Pass
    <3>1. clock' \in 0 .. Day - 1
      BY <2>6, Midnight DEF TypeOK, Pass, Day
    <3>2. wait' \in 0 .. Cooldown + 1 /\ guard' \in 0..2 /\ asks' = 0
      BY <2>6 DEF TypeOK, Pass
    <3>3. slept' \subseteq {"nap", "night"}
      BY <2>6 DEF TypeOK, Pass
    <3>4. life' \in {"none"} \cup Loaded /\ (life' \in Driven <=> life \in Driven)
          /\ (life' = "none" <=> life = "none")
      BY <2>6 DEF TypeOK, Pass, Loaded, Driven
    <3>5. UNCHANGED <<mind, file, tears, at, dreams>>
      BY <2>6 DEF Pass
    <3>6. wait = 0 => wait' = 0
      BY <2>6 DEF Pass
    <3>. QED BY <3>1, <3>2, <3>3, <3>4, <3>5, <3>6 DEF TypeOK
  <2>7. CASE UNCHANGED vars
    BY <2>7 DEF TypeOK, vars
  <2>. QED BY <2>1, <2>2, <2>3, <2>4, <2>5, <2>6, <2>7 DEF Next
<1>. QED BY <1>1, <1>2, PTL DEF Spec
-----------------------------------------------------------------------------
(* Nobody is woken in the rest hours: the windows in which the code wakes, *)
(* and its fail-safes, lie outside them.                                   *)
THEOREM RestIsKept == Spec => RestKept
<1>1. TypeOK /\ [Next]_vars => [WokenUp => clock \notin Rest]_vars
  <2> SUFFICES ASSUME TypeOK, Next, WokenUp PROVE clock \notin Rest
    OBVIOUS
  <2>1. Wake
    BY DEF WokenUp, Next, Check, FallAsleep, StayAsItIs, WakeDream, SleepDream, Dream,
           Tell, Keep, GoOn, Load, StartDriver, StopDriver, Unload, Pass, Turn
  <2>2. MayWake \/ MustWake
    BY <2>1 DEF Wake
  <2>. QED
    BY <2>2 DEF TypeOK, MayWake, MustWake, NapWake, MorningWake, ForcedWake,
                NightPeriod, NapPeriod, Rest, Day, At
<1>. QED BY <1>1, SleepTypes, PTL DEF Spec, RestKept
-----------------------------------------------------------------------------
(* What AwakeByDay rests on. A slot t that lies k slots after one in which *)
(* a character may have fallen asleep: *)
SleptBefore(t, k) ==
  \/ t - k \in At(12) .. At(13) - 1
  \/ t - k \in At(23) .. Day + At(1) - 1
  \/ t - k + Day \in At(23) .. Day + At(1) - 1

(* The hours in which a driver that asks wakes the character. *)
Failsafe == (At(10) .. At(12) - 1) \cup (At(16) .. At(23) - 1)

(* The guard and the driver's cooldown hold a sleeper back only shortly    *)
(* after it fell asleep, and a driver that asked in the hours of the       *)
(* fail-safes has woken it.                                                *)
DayInv ==
  /\ mind = "asleep" /\ guard < 2 => SleptBefore(clock, guard)
  /\ mind = "asleep" /\ wait > 0 => SleptBefore(clock, Cooldown + 1 - wait)
  /\ at = "waking" => mind = "awake"
  /\ asks = 1 /\ clock \in Failsafe => mind = "awake"
  /\ AwakeByDay

LEMMA DayInvStep == TypeOK /\ DayInv /\ [Next]_vars => DayInv'
<1> SUFFICES ASSUME TypeOK, DayInv, [Next]_vars PROVE DayInv'
  OBVIOUS
<1> USE DEF DayInv, AwakeByDay
<1>1. CASE Check
  <2>1. CASE FallAsleep
    <3>1. clock \in NapWindow \cup NightWindow
      BY <2>1 DEF FallAsleep, MayFallAsleep
    <3>2. SleptBefore(clock, 0)
      BY <3>1 DEF TypeOK, SleptBefore, NapWindow, NightWindow, Day, At
    <3>3. clock \notin Failsafe \cup Daytime
      BY <3>1 DEF TypeOK, Failsafe, Daytime, NapWindow, NightWindow, Day, At
    <3>4. /\ mind' = "asleep" /\ guard' = 0 /\ wait' = Cooldown + 1
          /\ clock' = clock /\ at' = "tell"
      BY <1>1, <2>1 DEF Check, FallAsleep, Turn
    <3>5. SleptBefore(clock, Cooldown + 1 - (Cooldown + 1))
      BY <3>2
    <3>. QED BY <3>2, <3>3, <3>4, <3>5
  <2>2. CASE Wake
    BY <1>1, <2>2 DEF Check, Wake, Turn
  <2>3. CASE StayAsItIs
    <3>1. mind = "asleep" => clock \notin Failsafe
      <4> SUFFICES ASSUME mind = "asleep", clock \in Failsafe PROVE FALSE
        OBVIOUS
      <4>1. MustWake
        BY DEF TypeOK, MustWake, Failsafe, ForcedWake, NightPeriod, NapPeriod, Day, At
      <4>2. guard < 2
        BY <2>3, <4>1 DEF StayAsItIs
      <4>. QED
        BY <4>2 DEF TypeOK, SleptBefore, Failsafe, Day, At
    <3>. QED BY <1>1, <2>3, <3>1 DEF Check, StayAsItIs, TypeOK
  <2>. QED BY <1>1, <2>1, <2>2, <2>3 DEF Check
<1>2. CASE WakeDream \/ SleepDream
  BY <1>2 DEF WakeDream, SleepDream, Dream
<1>3. CASE Tell \/ Keep
  BY <1>3 DEF Tell, Keep, GoOn
<1>4. CASE Load \/ StartDriver \/ StopDriver \/ Unload
  BY <1>4 DEF TypeOK, Load, StartDriver, StopDriver, Unload, NoDriver, Loaded, Driven
<1>5. CASE Pass
  <2>1. clock' = IF clock = Day - 1 THEN 0 ELSE clock + 1
    BY <1>5, Midnight DEF Pass, TypeOK
  <2>2. /\ mind' = mind /\ at' = at /\ asks' = 0
        /\ guard' = IF guard = 0 THEN 1 ELSE 2
        /\ wait' = IF wait = 0 THEN 0 ELSE wait - 1
        /\ life' = "settled" => life \in Driven
    BY <1>5 DEF Pass, Driven
  <2>3. mind' = "asleep" /\ guard' < 2 => SleptBefore(clock', guard')
    BY <2>1, <2>2 DEF TypeOK, SleptBefore, Day, At
  <2>4. mind' = "asleep" /\ wait' > 0 => SleptBefore(clock', Cooldown + 1 - wait')
    BY <2>1, <2>2 DEF TypeOK, SleptBefore, Day, At
  <2>5. life' = "settled" /\ clock' \in Daytime => mind' = "awake"
    <3> SUFFICES ASSUME life' = "settled", clock' \in Daytime, mind = "asleep"
                 PROVE  FALSE
      BY <2>2 DEF TypeOK
    <3>1. clock \in Failsafe
      BY <2>1 DEF TypeOK, Daytime, Failsafe, Day, At
    <3>2. wait = 0
      BY <3>1 DEF TypeOK, SleptBefore, Failsafe, Day, At
    <3>3. asks = 1
      BY <1>5, <2>2, <3>2 DEF Pass
    <3>. QED BY <3>1, <3>3
  <2>. QED BY <2>2, <2>3, <2>4, <2>5
<1>6. CASE UNCHANGED vars
  BY <1>6 DEF vars
<1>. QED BY <1>1, <1>2, <1>3, <1>4, <1>5, <1>6 DEF Next

(* A character with a driver is awake by day, whatever the restarts and    *)
(* the file: the cooldown that follows a transition ends in time.          *)
THEOREM AwakeInDaytime == Spec => []AwakeByDay
<1>1. Init => DayInv
  BY DEF Init, DayInv, AwakeByDay
<1>. QED BY <1>1, DayInvStep, SleepTypes, PTL DEF Spec, DayInv
-----------------------------------------------------------------------------
(* What OneSleepPerWindow rests on: until the windows in which it may wake *)
(* begin, a character that fell asleep is asleep, in memory or on disk.    *)
NapNow   == clock \in At(12) .. At(13)
NightNow == clock \in (At(23) .. Day - 1) \cup (0 .. At(7) - 1)

WindowInv ==
  tears = 0 =>
    /\ life # "none" => file = mind
    /\ NapNow /\ "nap" \in slept => file = "asleep"
    /\ NightNow /\ "night" \in slept => file = "asleep"

LEMMA WindowInvStep == TypeOK /\ WindowInv /\ [Next]_vars => WindowInv'
<1> SUFFICES ASSUME TypeOK, WindowInv, [Next]_vars PROVE WindowInv'
  OBVIOUS
<1> USE DEF WindowInv, NapNow, NightNow
<1>1. CASE Check
  <2>1. CASE FallAsleep
    BY <1>1, <2>1 DEF Check, FallAsleep, Turn, TypeOK
  <2>2. CASE Wake
    <3>1. ~NapNow /\ ~NightNow
      BY <2>2 DEF Wake, MayWake, MustWake, TypeOK, NapWake, MorningWake, ForcedWake,
                  NightPeriod, NapPeriod, Day, At
    <3>. QED BY <1>1, <2>2, <3>1 DEF Check, Wake, Turn, TypeOK
  <2>3. CASE StayAsItIs
    BY <1>1, <2>3 DEF Check, StayAsItIs
  <2>. QED BY <1>1, <2>1, <2>2, <2>3 DEF Check
<1>2. CASE WakeDream \/ SleepDream
  BY <1>2 DEF WakeDream, SleepDream, Dream
<1>3. CASE Tell \/ Keep
  BY <1>3 DEF Tell, Keep, GoOn
<1>4. CASE Load \/ StartDriver \/ StopDriver \/ Unload
  BY <1>4 DEF Load, StartDriver, StopDriver, Unload, NoDriver, Loaded, Driven
<1>5. CASE Pass
  <2>1. clock' = IF clock = Day - 1 THEN 0 ELSE clock + 1
    BY <1>5, Midnight DEF Pass, TypeOK
  <2>2. /\ UNCHANGED <<mind, file, tears>>
        /\ slept' = slept \ {Begins}
        /\ life' # "none" => life # "none"
    BY <1>5 DEF Pass
  <2>3. NapNow' /\ "nap" \in slept' => NapNow /\ "nap" \in slept
    BY <2>1, <2>2 DEF TypeOK, Begins, Day, At
  <2>4. NightNow' /\ "night" \in slept' => NightNow /\ "night" \in slept
    BY <2>1, <2>2 DEF TypeOK, Begins, Day, At
  <2>. QED BY <2>2, <2>3, <2>4
<1>6. CASE UNCHANGED vars
  BY <1>6 DEF vars
<1>. QED BY <1>1, <1>2, <1>3, <1>4, <1>5, <1>6 DEF Next

(* One nap, one night: as long as the saves work, no window sees the       *)
(* character fall asleep twice, over any restarts.                         *)
THEOREM SleepsOnce == Spec => OneSleepPerWindow
<1>1. Init => WindowInv
  BY DEF Init, WindowInv
<1>2. TypeOK /\ WindowInv /\ [Next]_vars =>
        [FellAsleep /\ tears = 0 =>
           IF clock \in NapWindow THEN "nap" \notin slept ELSE "night" \notin slept]_vars
  <2> SUFFICES ASSUME TypeOK, WindowInv, Next, FellAsleep, tears = 0
               PROVE  IF clock \in NapWindow THEN "nap" \notin slept
                      ELSE "night" \notin slept
    OBVIOUS
  <2>1. FallAsleep
    BY DEF FellAsleep, Next, Check, Wake, StayAsItIs, WakeDream, SleepDream, Dream,
           Tell, Keep, GoOn, Load, StartDriver, StopDriver, Unload, Pass, Turn
  <2>2. clock \in NapWindow \cup NightWindow
    BY <2>1 DEF FallAsleep, MayFallAsleep
  <2>3. file = "awake"
    BY DEF WindowInv, FellAsleep
  <2>. QED
    BY <2>2, <2>3 DEF TypeOK, WindowInv, NapNow, NightNow, NapWindow, NightWindow, Day, At
<1>. QED BY <1>1, <1>2, WindowInvStep, SleepTypes, PTL DEF Spec, OneSleepPerWindow
-----------------------------------------------------------------------------
(* What DreamsBounded rests on: a character asleep has had the dream of    *)
(* falling asleep at most, and not even that until the loop comes to it.   *)
DreamInv ==
  tears = 0 =>
    /\ life # "none" => file = mind
    /\ dreams <= 2
    /\ file = "asleep" => dreams <= 1
    /\ file = "asleep" /\ at # "tick" => dreams = 0
    /\ at = "waking" => dreams <= 1 /\ mind = "awake"
    /\ at = "dreaming" => mind = "asleep"

LEMMA DreamInvStep == TypeOK /\ DreamInv /\ [Next]_vars => DreamInv'
<1> SUFFICES ASSUME TypeOK, DreamInv, [Next]_vars PROVE DreamInv'
  OBVIOUS
<1> USE DEF DreamInv
<1>1. CASE Check
  <2>1. CASE FallAsleep
    BY <1>1, <2>1 DEF Check, FallAsleep, Turn, TypeOK
  <2>2. CASE Wake
    BY <1>1, <2>2 DEF Check, Wake, MayWake, MustWake, Turn, TypeOK, Driven
  <2>3. CASE StayAsItIs
    BY <1>1, <2>3 DEF Check, StayAsItIs
  <2>. QED BY <1>1, <2>1, <2>2, <2>3 DEF Check
<1>2. CASE WakeDream
  BY <1>2 DEF WakeDream, Dream, TypeOK, Driven
<1>3. CASE SleepDream
  BY <1>3 DEF SleepDream, Dream, TypeOK, Driven
<1>4. CASE Tell
  BY <1>4 DEF Tell, GoOn, TypeOK
<1>5. CASE Keep
  BY <1>5 DEF Keep, GoOn, TypeOK
<1>6. CASE Load \/ StartDriver \/ StopDriver \/ Unload
  BY <1>6 DEF Load, StartDriver, StopDriver, Unload, NoDriver, Loaded, Driven, TypeOK
<1>7. CASE Pass
  BY <1>7 DEF Pass
<1>8. CASE UNCHANGED vars
  BY <1>8 DEF vars
<1>. QED BY <1>1, <1>2, <1>3, <1>4, <1>5, <1>6, <1>7, <1>8 DEF Next

(* Two dreams a sleep at most, while the saves work. *)
THEOREM TwoDreams == Spec => []DreamsBounded
<1>1. Init => DreamInv
  BY DEF Init, DreamInv
<1>2. TypeOK /\ DreamInv => DreamsBounded
  BY DEF TypeOK, DreamInv, DreamsBounded
<1>. QED BY <1>1, <1>2, DreamInvStep, SleepTypes, PTL DEF Spec
=============================================================================
