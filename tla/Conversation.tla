---------------------------- MODULE Conversation ----------------------------
(***************************************************************************)
(* The conversation of one role: the turns its agents write to the         *)
(* database and to short-term memory while user messages and the agent's   *)
(* own proactive and sleep messages compete for it.                        *)
(*                                                                         *)
(* A role has one agent at a time, but on the Web the agent object can be  *)
(* removed and built again while threads still work for the old one. Each  *)
(* agent has its own _turn_lock, turn_count, buffer and sleep flag; they   *)
(* share the rows.                                                         *)
(*                                                                         *)
(* Code: Agent (core/agent.py), MessageHandler (core/message_handler.py),  *)
(* ConversationEngine, the writing half of RuntimeDriver.run,              *)
(* ConversationBuffer, and the hosts that call them.                       *)
(*                                                                         *)
(* Every turn carries history fields the program does not store: the       *)
(* exchange that wrote it and the agent that did.                          *)
(***************************************************************************)
EXTENDS Naturals, Sequences

CONSTANTS
  Users,         \* threads that each carry one user message at a time
  Drivers,       \* runtime drivers a host may have started for the agent
  NoOne,         \* nobody holds a _turn_lock, no driver runs
  Locked,        \* TRUE: Web, through Agent.process_message, which locks;
                 \* FALSE: CLI and TUI, through ConversationEngine
  MemLen,        \* ConversationBuffer.maxlen
  Restored,      \* turns a host reads back into short-term memory at start
  MaxLoops,      \* max_loops of _handle_agent3_intent
  MaxExchanges,  \* bound on exchanges started
  MaxAgents      \* bound on agents built for the role

ASSUME ConversationAssumption ==
  /\ Users \cap Drivers = {}
  /\ Users # {} /\ Drivers # {}
  /\ NoOne \notin Users \cup Drivers
  /\ Locked \in BOOLEAN
  /\ MaxLoops \in Nat
  /\ MemLen \in Nat /\ MemLen > MaxLoops + 1
  /\ Restored \in Nat
  /\ MaxExchanges \in Nat /\ MaxAgents \in Nat \ {0}

VARIABLES
  db,         \* conversation_turns of this session, in insertion order
  agent,      \* the agent the host hands out: the last one built
  mem,        \* short_term of each agent, oldest turn first
  turnCount,  \* turn_count of each agent
  owner,      \* the thread in the _turn_lock of each agent, an RLock
  sleeping,   \* SleepManager._sleeping of each agent
  active,     \* the driver whose loop runs; the others were cancelled
  on,         \* the agent each thread works for
  pc,         \* where each thread is
  cur,        \* the exchange each thread is carrying, 0 for none
  loops,      \* loop_count of _handle_agent3_intent in each thread
  nextEx,     \* the next exchange
  felt,       \* per exchange, emotional shifts computed from its user turn
  cut,        \* exchanges ended by an exception, an abort or a crash
  born,       \* the rows there were when each agent was built
  unnumbered  \* agents that could not read the number to go on from

log  == <<db, mem, turnCount>>          \* what a turn is written to
host == <<agent, born, unnumbered>>     \* what only a new agent changes
vars == <<log, host, owner, sleeping, active, on, pc, cur, loops, nextEx,
          felt, cut>>

Actors   == Users \cup Drivers
AgentIds == 1..MaxAgents
Roles  == {"user", "assistant"}
Turn   == [id : Nat, no : Nat, role : Roles, ex : Nat, agent : Nat]
Places == {"idle", "waiting", "entered", "dozing", "heardAsleep", "murmur",
           "murmured", "hearing", "thinking", "replied", "feeling",
           "deciding", "chosen", "announcing", "leaving"}

TypeOK ==
  /\ db \in Seq(Turn)
  /\ agent \in AgentIds
  /\ mem \in [AgentIds -> Seq(Turn)]
  /\ \A k \in AgentIds : Len(mem[k]) <= MemLen
  /\ turnCount \in [AgentIds -> Nat]
  /\ owner \in [AgentIds -> Actors \cup {NoOne}]
  /\ sleeping \in [AgentIds -> BOOLEAN]
  /\ active \in Drivers \cup {NoOne}
  /\ on \in [Actors -> AgentIds]
  /\ pc \in [Actors -> Places]
  /\ cur \in [Actors -> Nat]
  /\ loops \in [Actors -> 0..MaxLoops]
  /\ nextEx \in Nat \ {0}
  /\ felt \in [0..MaxExchanges -> Nat]
  /\ cut \subseteq Nat
  /\ born \in [AgentIds -> Nat]
  /\ unnumbered \subseteq AgentIds
-----------------------------------------------------------------------------
(* Operators named ...Fault are the mistakes the runs must catch, each one  *)
(* before the definition it stands in for; no specification uses them.     *)

(* The lock of the agent that a thread works for. *)
Holder(a) == owner[on[a]]
Free(a)   == Holder(a) = NoOne

(* _turn_lock is reentrant: its holder enters it again at add_turn and     *)
(* increment_turn_count.                                                   *)
MayEnter(a) == Holder(a) \in {NoOne, a}

Take(a) == owner' = [owner EXCEPT ![on[a]] = a]

Release(a) ==
  owner' = [owner EXCEPT ![on[a]] = IF @ = a THEN NoOne ELSE @]

(* deque(maxlen): a full buffer drops its oldest turn. *)
Remember(m, entry) ==
  IF Len(m) < MemLen THEN Append(m, entry) ELSE Append(Tail(m), entry)

(* The last n turns, as a fresh buffer.                                    *)
Reloaded(rows, n) ==
  LET kept == IF n < MemLen THEN n ELSE MemLen
      from == IF Len(rows) > kept THEN Len(rows) - kept ELSE 0
  IN [i \in 1..(Len(rows) - from) |-> rows[i + from]]

(* Only the user's turns are asked for their numbers. *)
UserNumberFault(rows) ==
  LET asked == {i \in 1..Len(rows) : rows[i].role = "user"}
  IN IF asked = {} THEN 0
     ELSE rows[CHOOSE i \in asked :
                 \A j \in asked : rows[j].no <= rows[i].no].no

(* get_max_turn_number: COALESCE(MAX(turn_number), 0). *)
MaxNumber(rows) ==
  IF rows = << >> THEN 0
  ELSE LET top == CHOOSE i \in 1..Len(rows) :
                    \A j \in 1..Len(rows) : rows[j].no <= rows[i].no
       IN rows[top].no

OldestUserFault(m) ==
  LET said == {i \in 1..Len(m) : m[i].role = "user"}
  IN IF said = {} THEN 0
     ELSE m[CHOOSE i \in said : \A j \in said : i <= j].ex

(* The exchange whose user turn is the latest in the buffer, 0 if none.    *)
LastUserEx(m) ==
  LET said == {i \in 1..Len(m) : m[i].role = "user"}
  IN IF said = {} THEN 0
     ELSE m[CHOOSE i \in said : \A j \in said : j <= i].ex

NewTurn(a, role) ==
  [id |-> Len(db) + 1, no |-> turnCount[on[a]], role |-> role,
   ex |-> cur[a], agent |-> on[a]]

Remembered(a, entry) == [mem EXCEPT ![on[a]] = Remember(@, entry)]

Counted(a) == [turnCount EXCEPT ![on[a]] = @ + 1]

Goto(a, place) == pc' = [pc EXCEPT ![a] = place]

(* The buffer before the row, and not undone when the insert fails. *)
BufferFirstFault(a, role, then) ==
  /\ MayEnter(a)
  /\ mem' = Remembered(a, NewTurn(a, role))
  /\ \/ /\ db' = Append(db, NewTurn(a, role))
        /\ Goto(a, then)
        /\ UNCHANGED cut
     \/ /\ Goto(a, "leaving")
        /\ cut' = cut \cup {cur[a]}
        /\ UNCHANGED db
  /\ UNCHANGED <<host, turnCount, owner, sleeping, active, on, cur, loops,
                 nextEx, felt>>

(* Agent.add_turn: the row is written before the buffer. An insert that    *)
(* raises leaves the buffer alone; one that ran into run_async's timeout   *)
(* may have committed its row all the same.                                *)
AddTurn(a, role, then) ==
  /\ MayEnter(a)
  /\ \/ /\ db' = Append(db, NewTurn(a, role))
        /\ mem' = Remembered(a, NewTurn(a, role))
        /\ Goto(a, then)
        /\ UNCHANGED cut
     \/ /\ db' \in {db, Append(db, NewTurn(a, role))}
        /\ Goto(a, "leaving")
        /\ cut' = cut \cup {cur[a]}
        /\ UNCHANGED mem
  /\ UNCHANGED <<host, turnCount, owner, sleeping, active, on, cur, loops,
                 nextEx, felt>>

StartExchange(a) ==
  /\ nextEx <= MaxExchanges
  /\ cur' = [cur EXCEPT ![a] = nextEx]
  /\ nextEx' = nextEx + 1
-----------------------------------------------------------------------------
(* A user message arrives: its handler looks the agent up before it hands  *)
(* the message to a thread, which may find another agent in its place.     *)
Arrive(u) ==
  /\ u \in Users /\ pc[u] = "idle"
  /\ StartExchange(u)
  /\ on' = [on EXCEPT ![u] = agent]
  /\ Goto(u, "waiting")
  /\ UNCHANGED <<log, host, owner, sleeping, active, loops, felt, cut>>

EnterUnlockedFault(u) ==
  /\ pc[u] = "waiting"
  /\ Goto(u, "entered")
  /\ UNCHANGED <<log, host, owner, sleeping, active, on, cur, loops, nextEx,
                 felt, cut>>

(* On the Web the message goes through process_message and keeps the lock  *)
(* until it leaves; the CLI calls the handler directly.                    *)
Enter(u) ==
  /\ pc[u] = "waiting"
  /\ IF Locked THEN Free(u) /\ Take(u) ELSE UNCHANGED owner
  /\ Goto(u, "entered")
  /\ UNCHANGED <<log, host, sleeping, active, on, cur, loops, nextEx, felt,
                 cut>>

(* if a.is_sleeping: read once, outside any lock of the sleep manager. *)
CheckSleeping(u) ==
  /\ pc[u] = "entered"
  /\ Goto(u, IF sleeping[on[u]] THEN "dozing" ELSE "hearing")
  /\ UNCHANGED <<log, host, owner, sleeping, active, on, cur, loops, nextEx,
                 felt, cut>>

HearAsleep(u) == pc[u] = "dozing"  /\ AddTurn(u, "user", "heardAsleep")
Murmur(u)     == pc[u] = "murmur"  /\ AddTurn(u, "assistant", "murmured")
Hear(u)       == pc[u] = "hearing" /\ AddTurn(u, "user", "thinking")

(* The end of _react_loop: a reply of the model, or one of the fallback    *)
(* texts, is written under the current number.                             *)
Reply(a) ==
  /\ pc[a] = "thinking"
  /\ AddTurn(a, "assistant", "replied")

(* The lock is released on the way out, not in the way of a with-block. *)
LeakFault(a) ==
  /\ pc[a] = "thinking"
  /\ Goto(a, "idle")
  /\ cut' = cut \cup {cur[a]}
  /\ cur' = [cur EXCEPT ![a] = 0]
  /\ loops' = [loops EXCEPT ![a] = 0]
  /\ UNCHANGED <<log, host, owner, sleeping, active, on, nextEx, felt>>

(* The exchange ends with no reply: StreamAborted (Esc in the TUI), or an  *)
(* exception that left the handler.                                        *)
GiveUp(a) ==
  /\ pc[a] = "thinking"
  /\ Goto(a, "leaving")
  /\ cut' = cut \cup {cur[a]}
  /\ UNCHANGED <<log, host, owner, sleeping, active, on, cur, loops, nextEx,
                 felt>>

(* increment_turn_count after each written turn: between the two turns of  *)
(* a sleeping exchange, and behind every assistant turn.                   *)
AfterCount(a) ==
  CASE pc[a] = "heardAsleep" -> "murmur"
    [] pc[a] = "murmured"    -> "leaving"
    [] pc[a] = "replied"     -> IF a \in Users THEN "feeling" ELSE "leaving"

Count(a) ==
  /\ pc[a] \in {"heardAsleep", "murmured", "replied"}
  /\ MayEnter(a)
  /\ turnCount' = Counted(a)
  /\ Goto(a, AfterCount(a))
  /\ UNCHANGED <<db, mem, host, owner, sleeping, active, on, cur, loops,
                 nextEx, felt, cut>>

(* _process_emotion, on replies to a user (proactive replies skip it): the *)
(* shift is computed from the latest user turn in the buffer. After it the *)
(* exchange is over, or the reply was an intent that Agent 1 approved and  *)
(* Agent 3 speaks once more.                                               *)
Feel(u) ==
  /\ pc[u] = "feeling"
  /\ felt' = [felt EXCEPT ![LastUserEx(mem[on[u]])] = @ + 1]
  /\ \/ Goto(u, "leaving") /\ UNCHANGED loops
     \/ /\ loops[u] < MaxLoops
        /\ loops' = [loops EXCEPT ![u] = @ + 1]
        /\ Goto(u, "thinking")
  /\ UNCHANGED <<log, host, owner, sleeping, active, on, cur, nextEx, cut>>

(* The handler returns or raises; the with-block releases the lock. *)
Leave(a) ==
  /\ pc[a] = "leaving"
  /\ Release(a)
  /\ cur' = [cur EXCEPT ![a] = 0]
  /\ loops' = [loops EXCEPT ![a] = 0]
  /\ Goto(a, "idle")
  /\ UNCHANGED <<log, host, sleeping, active, on, nextEx, felt, cut>>

(* The /forget command of the CLI: short_term.clear(). *)
Forget ==
  /\ ~Locked
  /\ mem' = [mem EXCEPT ![agent] = << >>]
  /\ UNCHANGED <<db, turnCount, host, owner, sleeping, active, on, pc, cur,
                 loops, nextEx, felt, cut>>
-----------------------------------------------------------------------------
(* get_sleep_state flips the flag and hands the driver a message. When it  *)
(* may flip is the subject of SleepCycle.                                  *)
FlipSleep(d) ==
  /\ d = active /\ pc[d] = "idle"
  /\ StartExchange(d)
  /\ sleeping' = [sleeping EXCEPT ![on[d]] = ~@]
  /\ Goto(d, "announcing")
  /\ UNCHANGED <<log, host, owner, active, on, loops, felt, cut>>

(* The turn of an announcement, without its count. *)
UncountedFault(d) ==
  /\ pc[d] = "announcing" /\ Free(d)
  /\ db' = Append(db, NewTurn(d, "assistant"))
  /\ mem' = Remembered(d, NewTurn(d, "assistant"))
  /\ cur' = [cur EXCEPT ![d] = 0]
  /\ Goto(d, "idle")
  /\ UNCHANGED <<turnCount, host, owner, sleeping, active, on, loops, nextEx,
                 felt, cut>>

(* persist_proactive_message -> append_turn_atomic: the turn and its count *)
(* under one hold of the lock. *)
Announce(d) ==
  /\ pc[d] = "announcing" /\ Free(d)
  /\ db' = Append(db, NewTurn(d, "assistant"))
  /\ mem' = Remembered(d, NewTurn(d, "assistant"))
  /\ turnCount' = Counted(d)
  /\ cur' = [cur EXCEPT ![d] = 0]
  /\ Goto(d, "idle")
  /\ UNCHANGED <<host, owner, sleeping, active, on, loops, nextEx, felt, cut>>

(* The insert fails as in AddTurn; or the frontend raised, or the driver   *)
(* was cancelled, before the message was persisted.                        *)
LoseAnnouncement(d) ==
  /\ pc[d] = "announcing"
  /\ \/ UNCHANGED db
     \/ Free(d) /\ db' = Append(db, NewTurn(d, "assistant"))
  /\ cut' = cut \cup {cur[d]}
  /\ cur' = [cur EXCEPT ![d] = 0]
  /\ Goto(d, "idle")
  /\ UNCHANGED <<mem, turnCount, host, owner, sleeping, active, on, loops,
                 nextEx, felt>>

(* decide_proactive_action: the LLM call runs under the lock. *)
Decide(d) ==
  /\ d = active /\ pc[d] = "idle" /\ ~sleeping[on[d]]
  /\ Free(d) /\ Take(d)
  /\ Goto(d, "deciding")
  /\ UNCHANGED <<log, host, sleeping, active, on, cur, loops, nextEx, felt,
                 cut>>

(* Silent, rate limited, or a chat or explore turn. The thread of a        *)
(* cancelled driver finishes the call; nobody takes its result.            *)
Decided(d) ==
  /\ pc[d] = "deciding"
  /\ Release(d)
  /\ \/ Goto(d, "idle")
     \/ d = active /\ Goto(d, "chosen")
  /\ UNCHANGED <<log, host, sleeping, active, on, cur, loops, nextEx, felt,
                 cut>>

SpeakUnlockedFault(d) ==
  /\ pc[d] = "chosen"
  /\ StartExchange(d)
  /\ Goto(d, "thinking")
  /\ UNCHANGED <<log, host, owner, sleeping, active, on, loops, felt, cut>>

(* process_proactive and process_explore. *)
Speak(d) ==
  /\ pc[d] = "chosen" /\ Free(d)
  /\ StartExchange(d)
  /\ Take(d)
  /\ Goto(d, "thinking")
  /\ UNCHANGED <<log, host, sleeping, active, on, loops, felt, cut>>

(* A cancelled driver stops at its next await; a call it handed to the     *)
(* executor runs on.                                                       *)
CancelDriver ==
  pc' = [a \in Actors |->
           IF a = active /\ pc[a] = "chosen" THEN "idle" ELSE pc[a]]

(* The host starts the driver of its agent. On the Web a new connection    *)
(* does (register_proactive) and cancels the driver before.                *)
StartDriver(d) ==
  /\ d \in Drivers \ {active} /\ pc[d] = "idle"
  /\ Locked \/ active = NoOne
  /\ active' = d
  /\ on' = [on EXCEPT ![d] = agent]
  /\ CancelDriver
  /\ UNCHANGED <<log, host, owner, sleeping, cur, loops, nextEx, felt, cut>>
-----------------------------------------------------------------------------
(* A new agent goes on from the largest number on disk, or from 0 when     *)
(* reading it failed, which the hosts only log; asleep or not as the file  *)
(* says, whose writing may have failed.                                    *)
NewAgent(k) ==
  /\ k \in AgentIds /\ k = agent + 1
  /\ agent' = k
  /\ born' = [born EXCEPT ![k] = Len(db)]
  /\ \/ /\ turnCount' = [turnCount EXCEPT ![k] = MaxNumber(db)]
        /\ UNCHANGED unnumbered
     \/ /\ turnCount' = [turnCount EXCEPT ![k] = 0]
        /\ unnumbered' = unnumbered \cup {k}
  /\ \E asleep \in BOOLEAN : sleeping' = [sleeping EXCEPT ![k] = asleep]

(* The session of the role was removed or evicted, and the role is asked   *)
(* for again in the same process. Threads that work for the old agent go   *)
(* on, and so does its driver if it was started after the eviction.        *)
Rebuild ==
  /\ Locked
  /\ NewAgent(agent + 1)
  /\ mem' = [mem EXCEPT ![agent + 1] = Reloaded(db, Restored)]
  /\ \/ active' = NoOne /\ CancelDriver
     \/ UNCHANGED <<active, pc>>
  /\ UNCHANGED <<db, owner, on, cur, loops, nextEx, felt, cut>>

(* The process ends, in order or not, and starts again: threads, locks and *)
(* buffers are gone. On the Web the buffer comes back from the database.   *)
Restart ==
  /\ NewAgent(agent + 1)
  /\ mem' = [k \in AgentIds |->
               IF k = agent + 1 THEN Reloaded(db, Restored) ELSE << >>]
  /\ owner' = [k \in AgentIds |-> NoOne]
  /\ active' = NoOne
  /\ cut' = cut \cup {cur[a] : a \in {b \in Actors : cur[b] # 0}}
  /\ pc' = [a \in Actors |-> "idle"]
  /\ cur' = [a \in Actors |-> 0]
  /\ loops' = [a \in Actors |-> 0]
  /\ on' = [a \in Actors |-> agent + 1]
  /\ UNCHANGED <<db, nextEx, felt>>

Init ==
  /\ db = << >>
  /\ agent = 1
  /\ mem = [k \in AgentIds |-> << >>]
  /\ turnCount = [k \in AgentIds |-> 0]
  /\ owner = [k \in AgentIds |-> NoOne]
  /\ sleeping = [k \in AgentIds |-> FALSE]
  /\ active = NoOne
  /\ on = [a \in Actors |-> 1]
  /\ pc = [a \in Actors |-> "idle"]
  /\ cur = [a \in Actors |-> 0]
  /\ loops = [a \in Actors |-> 0]
  /\ nextEx = 1
  /\ felt = [e \in 0..MaxExchanges |-> 0]
  /\ cut = {}
  /\ born = [k \in AgentIds |-> 0]
  /\ unnumbered = {}

(* What a thread does once it has begun something. *)
Carry(a) ==
  \/ CheckSleeping(a) \/ HearAsleep(a) \/ Murmur(a) \/ Hear(a)
  \/ Reply(a) \/ GiveUp(a) \/ Count(a) \/ Feel(a) \/ Leave(a)
  \/ Announce(a) \/ LoseAnnouncement(a) \/ Decided(a) \/ Speak(a)

Next ==
  \/ \E u \in Users : Arrive(u) \/ Enter(u)
  \/ \E a \in Actors : Carry(a)
  \/ \E d \in Drivers : FlipSleep(d) \/ Decide(d) \/ StartDriver(d)
  \/ Forget
  \/ Rebuild
  \/ Restart

Spec == Init /\ [][Next]_vars

(* Calls to the model and to the database end, by their timeouts, so a     *)
(* thread goes on with what it began. Nothing makes a user write, a driver *)
(* speak up, or a thread get a contended lock.                             *)
FairSpec == Spec /\ \A a \in Actors : WF_vars(Carry(a))
-----------------------------------------------------------------------------
(* The promise this conversation keeps on the Web host: seen through the   *)
(* exchanges of the locks' holders, its log is a Transcript.               *)
Log == INSTANCE Transcript WITH
         Turn <- Turn, Agents <- AgentIds, rows <- db, count <- turnCount,
         speaking <- [k \in AgentIds |->
                        IF owner[k] = NoOne THEN 0 ELSE cur[owner[k]]]

(* Every agent writes whole exchanges one at a time (the comment of the    *)
(* three entry points: "the whole exchange is mutually exclusive").        *)
ImplementsTranscript == Log!Spec

(* Of the turns one agent stores, none of another exchange, user's or      *)
(* proactive, stands between the turns of one exchange. Between them there *)
(* can only be turns of another agent, when the role's was rebuilt while a *)
(* thread still worked for it.                                             *)
ExchangesContiguous == Log!Contiguous(db)

(* The turns agent k can go on from: its own, and those it found, unless   *)
(* it could not read their number.                                         *)
Known(k, i) ==
  db[i].agent = k \/ (i <= born[k] /\ k \notin unnumbered)

(* Turn numbers never decrease from a turn to one of an agent that knows   *)
(* it, over any interleaving, failed insert, rebuilt agent and restart,    *)
(* and the counter of an agent is never behind the turns it knows.         *)
NumbersAscend ==
  /\ \A i, j \in 1..Len(db) :
       i < j /\ Known(db[j].agent, i) => db[i].no <= db[j].no
  /\ \A k \in 1..agent : \A i \in 1..Len(db) :
       Known(k, i) => db[i].no <= turnCount[k]

(* Two replies of one agent share a number only when the exchange of the   *)
(* earlier one was cut short.                                              *)
ReplyNumbersUnique ==
  \A i, j \in 1..Len(db) :
    /\ i < j
    /\ db[i].role = "assistant" /\ db[j].role = "assistant"
    /\ db[i].agent = db[j].agent
    /\ db[i].no = db[j].no
    => db[i].ex \in cut

(* No agent's buffer ever holds a turn that is not on disk, whatever       *)
(* insert fails (add_turn writes the row first), nor holds one twice, nor  *)
(* in another order.                                                       *)
MemOnDisk ==
  \A k \in AgentIds :
    /\ \A i \in 1..Len(mem[k]) :
         mem[k][i].id \in 1..Len(db) /\ db[mem[k][i].id] = mem[k][i]
    /\ \A i, j \in 1..Len(mem[k]) : i < j => mem[k][i].id < mem[k][j].id

(* An emotional shift attributed to an exchange is computed by the thread  *)
(* that carries the exchange: the latest user turn it reads in the buffer  *)
(* is its own, even while other messages wait or the driver speaks.        *)
FeelsOwnTurn ==
  [][\A e \in 0..MaxExchanges :
       felt'[e] # felt[e] => \E u \in Users : pc[u] = "feeling" /\ cur[u] = e]_vars

(* Whoever takes a _turn_lock gives it back: nothing a holder does waits   *)
(* for anyone else, its own add_turn included.                             *)
LockReleased == \A a \in Actors : owner[on[a]] = a ~> owner[on[a]] # a
-----------------------------------------------------------------------------
(* The strengthening that the proofs carry along. *)

(* Agents come one after another; a thread works for one there is, and     *)
(* rows are numbered as they are written.                                  *)
AgentsKnown ==
  /\ \A a \in Actors : on[a] <= agent
  /\ \A k \in AgentIds : born[k] <= Len(db)
  /\ \A i \in 1..Len(db) : db[i].id = i /\ db[i].agent \in 1..agent

(* Some row has the largest number. *)
HasTop ==
  db = << >> \/ \E i \in 1..Len(db) : \A j \in 1..Len(db) : db[j].no <= db[i].no

(* Where a thread is between taking a _turn_lock and giving it back; a     *)
(* user thread only if its host locks.                                     *)
Inside == Places \ {"idle", "waiting", "chosen", "announcing"}

InLock(a) == pc[a] \in Inside /\ (Locked \/ a \in Drivers)

HolderOwns ==
  /\ \A a \in Actors : InLock(a) <=> Holder(a) = a
  /\ \A k \in AgentIds : owner[k] # NoOne => on[owner[k]] = k

(* Exchanges are numbered in the order they start; the one a thread        *)
(* carries is its own, its turns are of the thread's agent, and nothing    *)
(* written belongs to a later one.                                         *)
ExchangesOwned ==
  /\ \A a \in Actors :
       /\ cur[a] < nextEx
       /\ pc[a] \in {"idle", "chosen", "deciding"} <=> cur[a] = 0
       /\ \A i \in 1..Len(db) : cur[a] = db[i].ex => db[i].agent = on[a]
  /\ \A a, b \in Actors : cur[a] = cur[b] /\ cur[a] # 0 => a = b
  /\ \A i \in 1..Len(db) : db[i].ex # 0 /\ db[i].ex < nextEx

Unwritten(e) == \A i \in 1..Len(db) : db[i].ex # e

(* Row i is the latest of agent k. *)
IsLast(k, i) ==
  /\ db[i].agent = k
  /\ \A j \in 1..Len(db) : j > i => db[j].agent # k

(* An exchange that has begun to write wrote the last row of its agent,    *)
(* and its thread holds the lock.                                          *)
OpenExchangeLast ==
  \A a \in Actors : cur[a] # 0 /\ ~Unwritten(cur[a]) =>
    /\ Holder(a) = a
    /\ \E i \in 1..Len(db) : IsLast(on[a], i) /\ db[i].ex = cur[a]

(* The threads about to count have just written under the current number.  *)
CountFollowsTurn ==
  \A a \in Actors : pc[a] \in {"heardAsleep", "murmured", "replied"} =>
    \E i \in 1..Len(db) :
      IsLast(on[a], i) /\ db[i].ex = cur[a] /\ db[i].no = turnCount[on[a]]

(* Two invariants: of the numbers, on every host; of the exchanges, on the *)
(* Web host.                                                               *)
IInvNumbers   == TypeOK /\ AgentsKnown /\ HasTop /\ NumbersAscend
IInvExchanges == /\ TypeOK /\ HolderOwns /\ ExchangesOwned /\ OpenExchangeLast
                 /\ CountFollowsTurn /\ ExchangesContiguous
=============================================================================
