---------------------------- MODULE PromptCache ----------------------------
(***************************************************************************)
(* The blocks of the prompt that are kept between requests. The prompts of *)
(* the user's message and of the driver are built in different threads,    *)
(* and a block is built outside the lock: two threads may build the same   *)
(* one, from what they read at different moments, and both put it away.    *)
(* In one exchange a thread builds two prompts, that of the inner drive    *)
(* and that of the reply, each with builders of its own.                   *)
(*                                                                         *)
(* Code: PromptCache.get_or_build (core/prompt_cache.py), _cache           *)
(* (prompts/system.py). A block is the moment at which its builder read    *)
(* the data and whose builder it was. A key stands for a session, a        *)
(* version of the character's file and a component; both prompts name the  *)
(* same file, as they do in the terminal (main.py, _personality_file).     *)
(* The counters are left out, and so are invalidate and clear, which only  *)
(* tests call.                                                             *)
(***************************************************************************)
EXTENDS Naturals, Sequences, SequencesExt

CONSTANTS
  Builders,     \* threads
  Prompts,      \* whose prompt a block is for: that of Agent 1, of Agent 3
  Blocks,       \* keys: session, version of the personality file, component
  Static,       \* those without a time to live
  Ttl,
  MaxBlocks,    \* MAX_ENTRIES
  HourMax       \* bound on the clock

ASSUME CacheAssumption ==
  Static \subseteq Blocks /\ Ttl \in Nat \ {0} /\ MaxBlocks \in Nat \ {0}

VARIABLES
  store,    \* _store: entries, the oldest key first
  hour,     \* time.monotonic()
  build     \* what each thread is doing, and what it was given last

cacheVars == <<store, hour, build>>

Idle == [at |-> "idle", key |-> "", of |-> "", by |-> "", since |-> 0,
         read |-> 0, age |-> 0]
-----------------------------------------------------------------------------
Place(k)  == {i \in DOMAIN store : store[i].key = k}
Valid(e)  == e.key \in Static \/ hour - e.created < Ttl
Served(b, p, e) ==
  build' = [build EXCEPT ![b] = [Idle EXCEPT !.key = e.key, !.of = p,
                                             !.by = e.by, !.age = hour - e.value]]

Hit(b, p, k) ==
  /\ build[b].at = "idle"
  /\ \E i \in Place(k) : Valid(store[i]) /\ Served(b, p, store[i])
  /\ UNCHANGED <<store, hour>>

Miss(b, p, k) ==
  /\ build[b].at = "idle"
  /\ \A i \in Place(k) : ~Valid(store[i])
  /\ build' = [build EXCEPT ![b] = [Idle EXCEPT !.at = "reading", !.of = p,
                                                !.key = k, !.since = hour]]
  /\ UNCHANGED <<store, hour>>

(* builder(), in which time passes before and after it reads. *)
ReadData(b) ==
  /\ build[b].at = "reading"
  /\ build' = [build EXCEPT ![b].at = "built", ![b].read = hour]
  /\ UNCHANGED <<store, hour>>

StampLateFault(b) ==
  [key |-> build[b].key, value |-> build[b].read, by |-> build[b].of,
   created |-> hour]
NewEntry(b) ==
  [key |-> build[b].key, value |-> build[b].read, by |-> build[b].of,
   created |-> build[b].since]

(* An entry of the same key is written over in its place; what is past the *)
(* limit goes from the front. *)
Keep(b) ==
  /\ build[b].at = "built"
  /\ LET k == build[b].key
         s == IF Place(k) = {} THEN Append(store, NewEntry(b))
              ELSE [i \in DOMAIN store |-> IF i \in Place(k) THEN NewEntry(b)
                                           ELSE store[i]] IN
     store' = IF Len(s) > MaxBlocks THEN Tail(s) ELSE s
  /\ Served(b, build[b].of, NewEntry(b))
  /\ UNCHANGED hour

TickCache ==
  /\ hour < HourMax /\ hour' = hour + 1
  /\ UNCHANGED <<store, build>>
-----------------------------------------------------------------------------
CacheInit ==
  store = <<>> /\ hour = 0 /\ build = [b \in Builders |-> Idle]

CacheNext ==
  \/ TickCache
  \/ \E b \in Builders : \/ ReadData(b) \/ Keep(b)
                         \/ \E p \in Prompts, k \in Blocks : Hit(b, p, k) \/ Miss(b, p, k)

CacheSpec == CacheInit /\ [][CacheNext]_cacheVars
-----------------------------------------------------------------------------
(* Properties. *)

(* A prompt that takes a block of a slow kind from the cache never takes   *)
(* one whose data was read longer ago than the block may live, however     *)
(* long the building took and whoever built it too: a later Keep may put   *)
(* away an older reading (get_or_build).                                   *)
NotTooOld ==
  [][\A b \in Builders, p \in Prompts : \A k \in Blocks \ Static :
       Hit(b, p, k) => build'[b].age < Ttl]_cacheVars

(* A prompt's block of a component is what that prompt's own builder makes *)
(* of it: the reply's identity block carries the speaking style and the    *)
(* backstory, the inner drive's does not (doc/prompt-reference.md, the     *)
(* block of the character's core in Agent 3's prompt).                     *)
OwnBlock == \A b \in Builders : build[b].by # "" => build[b].by = build[b].of
=============================================================================
