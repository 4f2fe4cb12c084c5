---------------------------- MODULE RuntimeDriver ----------------------------
(***************************************************************************)
(* The proactive half of the runtime driver's loop: when a character that  *)
(* nobody talks to decides to speak, and what keeps it from speaking too   *)
(* often. The rate limits, the silent backoff and the topics are saved to  *)
(* a file per role; the cooldowns belong to the driver.                    *)
(*                                                                         *)
(* Code: RuntimeDriver.run (core/runtime_driver.py), ProactivityManager    *)
(* (core/proactivity.py), the proactive turns (core/message_handler.py).   *)
(*                                                                         *)
(* Times are ages: the steps of Wait since an event, up to the limit that  *)
(* they are compared with.                                                 *)
(***************************************************************************)
EXTENDS Integers

CONSTANTS
  Drivers,       \* driver loops, a loop that has ended may stand for a new one
  Agents,        \* agent objects of one role, reused in the same way
  NoAgent,
  IdleFloor,     \* IDLE_FLOOR_SECONDS
  ChatGap,       \* seconds between two chats, check_rate_limit
  ExploreGap,    \* seconds between two explorations
  MaxBackoff,    \* cap of silent_cooldown_seconds; its unit is the first step
  MaxSilents,    \* bound on _consecutive_silents
  MaxTicks       \* PROACTIVE_COOLDOWN_TICKS and SLEEP_MSG_COOLDOWN_TICKS

ASSUME RuntimeDriverAssumption ==
  /\ NoAgent \notin Agents
  /\ IdleFloor \in Nat /\ ChatGap \in Nat /\ ExploreGap \in Nat
  /\ MaxBackoff \in Nat /\ MaxSilents \in Nat /\ MaxTicks \in Nat

VARIABLES
  agent,         \* the role's live agent
  ages,          \* per agent and kind, age of _last_chat_time, _last_explore_time
  silents,       \* per agent, _consecutive_silents
  savedAges,     \* the same in the state file
  savedSilents,
  torn,          \* a save of that file has failed
  stale,         \* a thread of a dropped agent has saved over it
  idle,          \* idle_seconds
  place,         \* where each loop stands
  alive,         \* the loops that are not cancelled
  owner,         \* the agent that each loop drives
  intent,        \* what each loop's decision came to
  backoff,       \* per loop, time left until _next_decision_after
  ticks,         \* per loop, cooldown
  said           \* per kind, time since a message of it was last sent

file  == <<savedAges, savedSilents, torn>>
loops == <<place, alive, owner, intent, backoff, ticks>>
vars  == <<agent, ages, silents, file, stale, idle, loops, said>>

Kinds == {"chat", "explore"}
Gap   == [k \in Kinds |-> IF k = "chat" THEN ChatGap ELSE ExploreGap]
Ages  == {f \in [Kinds -> Nat] : \A k \in Kinds : f[k] <= Gap[k]}

(* Places of a loop: not running, between ticks, awaiting the decision,    *)
(* awaiting the turn lock with a topic given or not, awaiting the reply,   *)
(* having spoken. *)
Places == {"off", "tick", "deciding", "hinted", "topicless", "replying", "spoke"}
Threads == {"deciding", "hinted", "topicless", "replying"}

TypeOK ==
  /\ agent \in Agents \cup {NoAgent}
  /\ ages \in [Agents -> Ages] /\ savedAges \in Ages /\ said \in Ages
  /\ silents \in [Agents -> 0..MaxSilents] /\ savedSilents \in 0..MaxSilents
  /\ torn \in {"no", "yes"} /\ stale \in {"no", "yes"}
  /\ idle \in 0..IdleFloor
  /\ place \in [Drivers -> Places]
  /\ alive \subseteq Drivers
  /\ owner \in [Drivers -> Agents \cup {NoAgent}]
  /\ intent \in [Drivers -> Kinds]
  /\ backoff \in [Drivers -> 0..MaxBackoff]
  /\ ticks \in [Drivers -> 0..MaxTicks]
-----------------------------------------------------------------------------
(* silent_cooldown_seconds: doubled with every silence, up to the cap. *)
Silence(n) ==
  IF n = 0 THEN 0
  ELSE IF 2 ^ (n - 1) \in 0..MaxBackoff THEN 2 ^ (n - 1) ELSE MaxBackoff

Never == [k \in Kinds |-> Gap[k]]
Fresh(f, k) == [f EXCEPT ![k] = 0]

(* _save_state writes what an agent holds, times f and silences n. A write *)
(* that fails leaves the old file, or one that is read as none.            *)
Save(f, n) ==
  \/ savedAges' = f /\ savedSilents' = n /\ torn' = torn
  \/ torn' = "yes" /\ UNCHANGED <<savedAges, savedSilents>>
  \/ torn' = "yes" /\ savedAges' = Never /\ savedSilents' = 0

SaveAsIs(a) == Save(ages[a], silents[a])

(* A tick, outside sleep: idle_seconds is below the floor ... *)
Ready(d) == d \in alive /\ place[d] = "tick"
Goes(d, p) == place' = [place EXCEPT ![d] = p]
Rests(d) == ticks' = [ticks EXCEPT ![d] = IF @ = 0 THEN 0 ELSE @ - 1]

(* The count is reset, the driver's own cooldown is not. *)
HalfResetFault(d) ==
  /\ Ready(d) /\ idle < IdleFloor
  /\ Rests(d)
  /\ silents' = [silents EXCEPT ![owner[d]] = 0]
  /\ Save(ages[owner[d]], 0)
  /\ UNCHANGED <<agent, ages, stale, idle, place, alive, owner, intent, backoff, said>>

NoticeUser(d) ==
  /\ Ready(d) /\ idle < IdleFloor
  /\ Rests(d)
  /\ backoff' = [backoff EXCEPT ![d] = 0]
  /\ silents' = [silents EXCEPT ![owner[d]] = 0]
  /\ Save(ages[owner[d]], 0)
  /\ UNCHANGED <<agent, ages, stale, idle, place, alive, owner, intent, said>>

(* ... or the loop is in its cooldown ... *)
CoolDown(d) ==
  /\ Ready(d) /\ idle = IdleFloor /\ ticks[d] > 0
  /\ Rests(d)
  /\ UNCHANGED <<agent, ages, silents, file, stale, idle, place, alive, owner, intent,
                 backoff, said>>

(* ... or the score, by chance, asks for a decision in the executor. *)
Decide(d) ==
  /\ Ready(d) /\ idle = IdleFloor /\ ticks[d] = 0 /\ backoff[d] = 0
  /\ Goes(d, "deciding")
  /\ UNCHANGED <<agent, ages, silents, file, stale, idle, alive, owner, intent,
                 backoff, ticks, said>>

(* A sleep or wake message, which SleepCycle makes. *)
SleepNews(d) ==
  /\ Ready(d)
  /\ idle' = 0
  /\ ticks' = [ticks EXCEPT ![d] = MaxTicks]
  /\ UNCHANGED <<agent, ages, silents, file, stale, place, alive, owner, intent,
                 backoff, said>>

(* The decision. A topic is recorded, and with it all that is saved.       *)
Silent(d) ==
  LET n == IF silents[owner[d]] < MaxSilents THEN silents[owner[d]] + 1 ELSE MaxSilents
  IN /\ silents' = [silents EXCEPT ![owner[d]] = n]
     /\ backoff' = [backoff EXCEPT ![d] = Silence(n)]
     /\ Save(ages[owner[d]], n)
     /\ Goes(d, "tick")
     /\ UNCHANGED <<ages, intent>>

WithinLimits(a, k) == ages[a][k] = Gap[k]

Engage(d, k) ==
  /\ WithinLimits(owner[d], k)
  /\ intent' = [intent EXCEPT ![d] = k]
  /\ \/ SaveAsIs(owner[d]) /\ Goes(d, "hinted")
     \/ UNCHANGED file /\ Goes(d, "topicless")
  /\ UNCHANGED <<ages, silents, backoff>>

Blocked(d, k) ==
  /\ ~WithinLimits(owner[d], k)
  /\ SaveAsIs(owner[d]) \/ UNCHANGED file
  /\ Goes(d, "tick")
  /\ UNCHANGED <<ages, silents, intent, backoff>>

Decided(d) ==
  /\ place[d] = "deciding" /\ d \in alive
  /\ Silent(d) \/ \E k \in Kinds : Engage(d, k) \/ Blocked(d, k)
  /\ UNCHANGED <<agent, stale, idle, alive, owner, ticks, said>>

(* The thread has the turn lock; without a topic it picks one, which saves *)
(* the state of its agent, live or not.                                    *)
Begin(d) ==
  /\ \/ place[d] = "hinted" /\ UNCHANGED <<file, stale>>
     \/ /\ place[d] = "topicless" /\ SaveAsIs(owner[d])
        /\ stale' = IF owner[d] = agent THEN stale ELSE "yes"
  /\ Goes(d, "replying")
  /\ UNCHANGED <<agent, ages, silents, idle, alive, owner, intent, backoff, ticks, said>>

(* The message is recorded before it is sent, in one go. *)
Speak(d) ==
  /\ place[d] = "replying" /\ d \in alive
  /\ Goes(d, "spoke")
  /\ idle' = 0
  /\ ages' = [ages EXCEPT ![owner[d]] = Fresh(@, intent[d])]
  /\ silents' = [silents EXCEPT ![owner[d]] = 0]
  /\ Save(Fresh(ages[owner[d]], intent[d]), 0)
  /\ backoff' = [backoff EXCEPT ![d] = 0]
  /\ ticks' = [ticks EXCEPT ![d] = MaxTicks]
  /\ said' = Fresh(said, intent[d])
  /\ UNCHANGED <<agent, stale, alive, owner, intent>>

(* Nothing to share, or the tick ends; a call may fail at any of its       *)
(* places. The thread of a cancelled loop runs on to its end.              *)
TickEnds(d) ==
  /\ d \in alive /\ place[d] \in Threads \cup {"spoke"}
  /\ Goes(d, "tick")
  /\ UNCHANGED <<agent, ages, silents, file, stale, idle, alive, owner, intent,
                 backoff, ticks, said>>

ThreadEnds(d) ==
  /\ d \notin alive /\ place[d] \in Threads
  /\ Goes(d, "off")
  /\ UNCHANGED <<agent, ages, silents, file, stale, idle, alive, owner, intent,
                 backoff, ticks, said>>
-----------------------------------------------------------------------------
(* A message of the user: update_last_activity. *)
UserSpeaks ==
  /\ agent # NoAgent
  /\ idle' = 0
  /\ UNCHANGED <<agent, ages, silents, file, stale, loops, said>>

(* A new agent reads the file. *)
Load(a) ==
  /\ agent = NoAgent
  /\ \A d \in Drivers : place[d] # "off" => owner[d] # a
  /\ agent' = a
  /\ ages' = [ages EXCEPT ![a] = savedAges]
  /\ silents' = [silents EXCEPT ![a] = savedSilents]
  /\ idle' = 0
  /\ UNCHANGED <<file, stale, loops, said>>

(* A cancelled loop ends; the thread it waits for does not. *)
Cancelled(ds) ==
  [d \in Drivers |-> IF d \in ds /\ place[d] \notin Threads THEN "off" ELSE place[d]]

(* The replaced loop goes on. *)
TwoLoopsFault(d) ==
  /\ agent # NoAgent /\ place[d] = "off"
  /\ place' = [place EXCEPT ![d] = "tick"]
  /\ alive' = alive \cup {d}
  /\ owner' = [owner EXCEPT ![d] = agent]
  /\ backoff' = [backoff EXCEPT ![d] = 0]
  /\ ticks' = [ticks EXCEPT ![d] = 0]
  /\ UNCHANGED <<agent, ages, silents, file, stale, idle, intent, said>>

(* A client connects: a new driver takes the place of the old one. *)
StartDriver(d) ==
  /\ agent # NoAgent /\ place[d] = "off"
  /\ place' = [Cancelled(alive) EXCEPT ![d] = "tick"]
  /\ alive' = {d}
  /\ owner' = [owner EXCEPT ![d] = agent]
  /\ backoff' = [backoff EXCEPT ![d] = 0]
  /\ ticks' = [ticks EXCEPT ![d] = 0]
  /\ UNCHANGED <<agent, ages, silents, file, stale, idle, intent, said>>

(* The session is removed; the process ends. *)
Remove ==
  /\ agent # NoAgent /\ agent' = NoAgent
  /\ place' = Cancelled(alive) /\ alive' = {}
  /\ UNCHANGED <<ages, silents, file, stale, idle, owner, intent, backoff, ticks, said>>

Crash ==
  /\ agent # NoAgent /\ agent' = NoAgent
  /\ place' = [d \in Drivers |-> "off"] /\ alive' = {}
  /\ UNCHANGED <<ages, silents, file, stale, idle, owner, intent, backoff, ticks, said>>

Older(f) == [k \in Kinds |-> IF f[k] < Gap[k] THEN f[k] + 1 ELSE f[k]]

Wait ==
  /\ ages' = [a \in Agents |-> Older(ages[a])]
  /\ savedAges' = Older(savedAges) /\ said' = Older(said)
  /\ idle' = IF idle < IdleFloor THEN idle + 1 ELSE idle
  /\ backoff' = [d \in Drivers |-> IF backoff[d] = 0 THEN 0 ELSE backoff[d] - 1]
  /\ UNCHANGED <<agent, silents, savedSilents, torn, stale, place, alive, owner,
                 intent, ticks>>

Init ==
  /\ agent = NoAgent
  /\ ages = [a \in Agents |-> Never] /\ savedAges = Never /\ said = Never
  /\ silents = [a \in Agents |-> 0] /\ savedSilents = 0
  /\ torn = "no" /\ stale = "no"
  /\ idle = 0
  /\ place = [d \in Drivers |-> "off"]
  /\ alive = {}
  /\ owner = [d \in Drivers |-> NoAgent]
  /\ intent = [d \in Drivers |-> "chat"]
  /\ backoff = [d \in Drivers |-> 0] /\ ticks = [d \in Drivers |-> 0]

Tick(d) == NoticeUser(d) \/ CoolDown(d) \/ Decide(d) \/ SleepNews(d)
Call(d) == Decided(d) \/ Begin(d) \/ Speak(d) \/ TickEnds(d) \/ ThreadEnds(d)

Next ==
  \/ \E d \in Drivers : Tick(d) \/ Call(d) \/ StartDriver(d)
  \/ \E a \in Agents : Load(a)
  \/ UserSpeaks \/ Remove \/ Crash \/ Wait

Spec == Init /\ [][Next]_vars
-----------------------------------------------------------------------------
(* README: at most two chats and one exploration an hour. Half an hour     *)
(* between two chats, an hour between two explorations, whatever drivers,  *)
(* sessions and processes they come from, as long as the state file was    *)
(* written and no thread of a dropped agent wrote over it.                 *)
Spoke(d) == place[d] = "replying" /\ place'[d] = "spoke"

RateLimited ==
  [][\A d \in Drivers : Spoke(d) /\ torn = "no" /\ stale = "no" =>
       said[intent[d]] = Gap[intent[d]]]_vars

(* What the file holds is what the live agent holds: a restart at any      *)
(* point loses no limit and no silence.                                    *)
StateOnDisk ==
  agent # NoAgent /\ torn = "no" /\ stale = "no" =>
    savedAges = ages[agent] /\ savedSilents = silents[agent]

(* A driver holds back no longer than the silences counted so far account  *)
(* for: what resets the count, or the time, resets both.                   *)
BackoffJustified ==
  \A d \in alive : backoff[d] <= Silence(silents[owner[d]])
==============================================================================
