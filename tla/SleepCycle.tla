----------------------------- MODULE SleepCycle -----------------------------
(***************************************************************************)
(* The sleep of a character: SleepManager, which decides by the wall clock *)
(* and keeps a one-bit file, and the part of the runtime driver's loop     *)
(* that asks it, passes its messages on and has it dream.                  *)
(*                                                                         *)
(* Code: SleepManager (core/sleep_manager.py), RuntimeDriver.run           *)
(* (core/runtime_driver.py).                                               *)
(*                                                                         *)
(* Time is a day of ten-minute slots, the length of the manager's guard    *)
(* between two transitions; every window of the code begins at a slot.     *)
(***************************************************************************)
EXTENDS Integers

CONSTANT
  Cooldown       \* SLEEP_TRANSITION_TICKS of TICK_ASLEEP seconds, in slots

(* What the afternoon leaves room for; the code has 6. *)
ASSUME CooldownAssumption == Cooldown \in 1..18

VARIABLES
  clock,      \* the slot of the day
  life,       \* of the agent: not loaded, loaded, driven by a driver, or
              \* driven by one that has seen the end of a slot
  mind,       \* _sleeping of the agent
  file,       \* what its state file says
  tears,      \* saves that failed, 1 for any
  guard,      \* slots since _last_transition_time: 0, 1, or 2 for at least 2
  at,         \* where the driver's loop stands
  wait,       \* slots until sleep_cooldown has surely run out
  asks,       \* of the driver to the manager during this slot, 1 for any
  dreams,     \* dreams since the character last fell asleep, 3 for more than 2
  slept       \* the windows it fell asleep in since they last began

vars == <<clock, life, mind, file, tears, guard, at, wait, asks, dreams, slept>>

Day   == 144
At(h) == 6 * h

(* A nap that may end while it may still begin. *)
EarlyWakeFault == At(12) .. At(16) - 1

(* 13.16 is 13:10. *)
NapWindow   == At(12) .. At(13) - 1
NapWake     == At(13) + 1 .. At(16) - 1
NapPeriod   == At(12) .. At(16) - 1
NightWindow == (At(23) .. Day - 1) \cup (0 .. At(1) - 1)
MorningWake == At(7) .. At(10) - 1
ForcedWake  == At(10) .. At(11) - 1
NightPeriod == (At(23) .. Day - 1) \cup (0 .. At(11) - 1)

Loaded   == {"idle", "driven", "settled"}
Driven   == {"driven", "settled"}

TypeOK ==
  /\ clock \in 0 .. Day - 1
  /\ life \in {"none"} \cup Loaded
  /\ mind \in {"awake", "asleep"} /\ file \in {"awake", "asleep"}
  /\ tears \in 0..1 /\ guard \in 0..2 /\ asks \in 0..1 /\ dreams \in 0..3
  /\ at \in {"tick", "waking", "tell", "keep", "dreaming"}
  /\ wait \in 0 .. Cooldown + 1
  /\ slept \subseteq {"nap", "night"}
  /\ life \notin Driven => at = "tick" /\ wait = 0 /\ asks = 0
  /\ life = "none" => mind = "awake"
-----------------------------------------------------------------------------
(* Faults: mistakes that the runs must catch, each before the definition   *)
(* it stands in for; no specification uses them.                           *)
NoFailSafeFault == mind = "asleep" /\ clock \in ForcedWake
NightIsDayFault == mind = "asleep" /\ (clock \in ForcedWake \/ clock >= At(16))

MayFallAsleep == mind = "awake" /\ clock \in NapWindow \cup NightWindow
MayWake       == mind = "asleep" /\ clock \in NapWake \cup MorningWake
MustWake      ==
  mind = "asleep" /\ (clock \in ForcedWake \/ clock \notin NightPeriod \cup NapPeriod)

(* A transition, saved in the same critical section. A save that fails     *)
(* leaves the old file or, truncated, one that reads as awake.             *)
Turn(m) ==
  /\ mind' = m
  /\ guard' = 0
  /\ \/ file' = m /\ tears' = tears
     \/ file' \in {file, "awake"} /\ tears' = 1

(* get_sleep_state, once the guard of ten minutes is over. Chance, weighed *)
(* by the emotion, decides within the windows.                             *)
FallAsleep ==
  /\ guard > 0 /\ MayFallAsleep
  /\ Turn("asleep")
  /\ at' = "tell" /\ wait' = Cooldown + 1
  /\ dreams' = 0
  /\ slept' = slept \cup {IF clock \in NapWindow THEN "nap" ELSE "night"}

(* The dream is made within get_sleep_state, after the transition. *)
Wake ==
  /\ guard > 0 /\ (MayWake \/ MustWake)
  /\ Turn("awake")
  /\ at' = "waking"
  /\ UNCHANGED <<wait, dreams, slept>>

(* A dream on every tick asleep. *)
StayAsItIs ==
  /\ guard < 2 \/ ~MustWake
  /\ UNCHANGED <<mind, file, tears, guard, at, wait, dreams, slept>>

(* sleep_cooldown counts ticks: an hour of them asleep, ten minutes or     *)
(* more awake.                                                             *)
Due == wait <= IF mind = "asleep" THEN 1 ELSE Cooldown

Check ==
  /\ life \in Driven /\ at = "tick" /\ Due
  /\ FallAsleep \/ Wake \/ StayAsItIs
  /\ asks' = 1
  /\ UNCHANGED <<clock, life>>

(* generate_dream: nothing is kept of a dream that fails. *)
Dream(from, to) ==
  /\ at = from /\ at' = to
  /\ dreams' \in {dreams, IF dreams < 3 THEN dreams + 1 ELSE 3}
  /\ UNCHANGED <<clock, life, mind, file, tears, guard, asks, slept>>

WakeDream == Dream("waking", "tell") /\ wait' = Cooldown + 1

(* The message goes to the frontend, then to the transcript, and whoever   *)
(* has fallen asleep dreams. An exception ends the tick.                   *)
GoOn(from, to) ==
  /\ at = from /\ at' \in {to, "tick"}
  /\ UNCHANGED <<clock, life, mind, file, tears, guard, wait, asks, dreams, slept>>

Tell == GoOn("tell", "keep")
Keep == GoOn("keep", IF mind = "asleep" THEN "dreaming" ELSE "tick")

SleepDream == Dream("dreaming", "tick") /\ UNCHANGED wait
-----------------------------------------------------------------------------
(* The agent is built and reads the file. *)
Load ==
  /\ life = "none" /\ life' = "idle"
  /\ mind' = file
  /\ guard' = 2
  /\ UNCHANGED <<clock, file, tears, at, wait, asks, dreams, slept>>

StartDriver ==
  /\ life = "idle" /\ life' = "driven"
  /\ UNCHANGED <<clock, mind, file, tears, guard, at, wait, asks, dreams, slept>>

(* The driver ends with its socket, the agent with its session, and both   *)
(* with the process.                                                       *)
NoDriver == at' = "tick" /\ wait' = 0 /\ asks' = 0

StopDriver ==
  /\ life \in Driven /\ life' = "idle"
  /\ NoDriver
  /\ UNCHANGED <<clock, mind, file, tears, guard, dreams, slept>>

(* The driver task outlives the session. *)
Unload ==
  /\ life \in Loaded /\ life' = "none"
  /\ mind' = "awake"
  /\ NoDriver
  /\ UNCHANGED <<clock, file, tears, guard, dreams, slept>>

(* The clock. A driver ticks every thirty seconds while the character is   *)
(* asleep: no slot ends before it has asked, once its cooldown is over.    *)
Begins == IF clock' = At(12) THEN "nap" ELSE IF clock' = At(23) THEN "night" ELSE "none"

Pass ==
  /\ life \in Driven /\ mind = "asleep" /\ wait = 0 => asks = 1
  /\ clock' = (clock + 1) % Day
  /\ life' = IF life = "driven" THEN "settled" ELSE life
  /\ guard' = IF guard = 0 THEN 1 ELSE 2
  /\ wait' = IF wait = 0 THEN 0 ELSE wait - 1
  /\ asks' = 0
  /\ slept' = slept \ {Begins}
  /\ UNCHANGED <<mind, file, tears, at, dreams>>

Init ==
  /\ clock = At(12)
  /\ life = "none" /\ mind = "awake" /\ file = "awake"
  /\ tears = 0 /\ guard = 2
  /\ at = "tick" /\ wait = 0 /\ asks = 0
  /\ dreams = 0 /\ slept = {}

Next ==
  \/ Check \/ WakeDream \/ Tell \/ Keep \/ SleepDream
  \/ Load \/ StartDriver \/ StopDriver \/ Unload
  \/ Pass

Spec == Init /\ [][Next]_vars
-----------------------------------------------------------------------------
(* However the drivers, the agents and the process came and went, and      *)
(* whatever a failed save left in the file: ten minutes after ten o'clock, *)
(* and ten minutes after the end of the afternoon, a character with a      *)
(* driver is awake and stays awake until its next window (SL-011, SL-012). *)
Daytime == (At(10) + 1 .. At(12) - 1) \cup (At(16) + 1 .. At(23) - 1)

AwakeByDay == life = "settled" /\ clock \in Daytime => mind = "awake"

(* Nobody is woken between eleven and seven, nor before the nap is over,   *)
(* not even by the fail-safes.                                             *)
WokenUp == life # "none" /\ life' # "none" /\ mind = "asleep" /\ mind' = "awake"
Rest == (At(23) .. Day - 1) \cup (0 .. At(7) - 1) \cup (At(12) .. At(13))

RestKept == [][WokenUp => clock \notin Rest]_vars

(* One nap and one night a day, over any restarts, while the saves work:   *)
(* no window sees the character fall asleep twice.                         *)
FellAsleep == life # "none" /\ mind = "awake" /\ mind' = "asleep"

OneSleepPerWindow ==
  [][FellAsleep /\ tears = 0 =>
       IF clock \in NapWindow THEN "nap" \notin slept ELSE "night" \notin slept]_vars

(* A sleep has at most two dreams, one after falling asleep and one on     *)
(* waking up, over any restarts while the saves work.                      *)
DreamsBounded == tears = 1 \/ dreams <= 2
=============================================================================
