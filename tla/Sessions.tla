------------------------------ MODULE Sessions ------------------------------
(***************************************************************************)
(* The registry of the Web host: which agent object serves a role, which   *)
(* socket receives its proactive messages, which driver task runs for it,  *)
(* and the delayed removal that follows a disconnect.                      *)
(*                                                                         *)
(* Code: SessionManager and WebAgent (web/session.py), websocket_endpoint, *)
(* chat_api and _WsProactiveFrontend (web/server.py).                      *)
(*                                                                         *)
(* The event loop runs one handler at a time between two awaits: an action *)
(* is such a stretch.  A call of an agent runs in an executor thread.      *)
(***************************************************************************)
EXTENDS Naturals, Sequences, FiniteSets

CONSTANTS
  Roles,         \* role ids, which are the session ids
  Sockets,       \* WebSocket connections, each opened once
  Requests,      \* clients of POST /api/chat
  None,          \* no socket, no role
  MaxSessions,   \* max_sessions of cleanup_old
  Ttl,           \* ttl_seconds of cleanup_old, in the steps of GrowOld
  CleanupEvery,  \* every so many creations get_or_create calls cleanup_old
  MaxAgents,     \* bound on WebAgent objects created
  MaxTimers,     \* bound on delayed removals scheduled
  MaxMessages    \* bound on messages sent

ASSUME SessionsAssumption ==
  /\ Sockets \cap Requests = {}
  /\ None \notin Sockets \cup Requests \cup Roles
  /\ MaxSessions \in Nat /\ Ttl \in Nat \ {0} /\ CleanupEvery \in Nat \ {0}
  /\ MaxAgents \in Nat \ {0}
  /\ MaxTimers \in Nat /\ MaxMessages \in Nat

VARIABLES
  session,   \* _sessions: the agent of each role, 0 for none
  agents,    \* agent objects created: role, the messages that moved its emotion,
             \* time since its last activity
  file,      \* per role, the messages whose emotion its personality file holds
  activeWs,  \* _active_ws
  driver,    \* _proactive_tasks: the socket whose init created the task
  tasks,     \* driver tasks by that socket: the agent driven, alive, calling
  pending,   \* _pending_remove: a timer per role, 0 for none
  timers,    \* delayed removals scheduled: role, agent, state
  overtaken, \* roles whose agent was dropped while a call ran on it
  unsaved,   \* roles whose agent was dropped and whose last save failed
  stillborn, \* agents evicted by the very call that created them
  queue,     \* the clients that hold (first) or await session_lock of a role
  client,    \* per client: place, session_id, the agent it got, its message
  sent,      \* messages sent so far
  done,      \* per role, messages whose process_message has returned
  latest,    \* per role, the socket that sent the last init frame
  stopped    \* the lifespan has ended

vars == <<session, agents, file, activeWs, driver, tasks, pending, timers,
          overtaken, unsaved, stillborn, queue, client, sent, done, latest,
          stopped>>

registry == <<session, agents, file, activeWs, driver, tasks, pending, timers,
              overtaken, unsaved, stillborn>>

Clients  == Sockets \cup Requests
AgentIds == 1..Len(agents)
Places   == {"new", "open", "looking", "waiting", "running", "closed"}
Live(s)  == client[s].place \in {"open", "waiting", "running"}

TypeOK ==
  /\ session \in [Roles -> 0..MaxAgents]
  /\ \A a \in AgentIds :
       agents[a] \in [role : Roles, mood : SUBSET (1..MaxMessages), age : 0..Ttl]
  /\ Len(agents) <= MaxAgents
  /\ file \in [Roles -> SUBSET (1..MaxMessages)]
  /\ activeWs \in [Roles -> Sockets \cup {None}]
  /\ driver \in [Roles -> Sockets \cup {None}]
  /\ tasks \in [Sockets -> [agent : 0..MaxAgents, alive : BOOLEAN, calling : BOOLEAN]]
  /\ pending \in [Roles -> 0..MaxTimers]
  /\ \A t \in 1..Len(timers) :
       timers[t] \in [role : Roles, agent : 0..MaxAgents,
                      state : {"set", "cancelled", "done"}]
  /\ Len(timers) <= MaxTimers
  /\ queue \in [Roles -> Seq(Clients)]
  /\ client \in [Clients -> [place : Places, role : Roles \cup {None},
                             agent : 0..MaxAgents, msg : 0..MaxMessages]]
  /\ sent \in 0..MaxMessages
  /\ done \in [Roles -> SUBSET (1..MaxMessages)]
  /\ overtaken \subseteq Roles /\ unsaved \subseteq Roles
  /\ stillborn \subseteq 1..MaxAgents
  /\ latest \in [Roles -> Sockets \cup {None}]
  /\ stopped \in BOOLEAN
-----------------------------------------------------------------------------
(* Helpers read the registry as a record, so that one step can call several*)
(* of the manager's methods in turn: here and below, R is the registry     *)
(* before a call and the result is the registry after it.                  *)
Registry == [session |-> session, agents |-> agents, file |-> file,
             activeWs |-> activeWs, driver |-> driver, tasks |-> tasks,
             pending |-> pending, timers |-> timers, overtaken |-> overtaken,
             unsaved |-> unsaved, stillborn |-> stillborn]

Becomes(R) ==
  /\ session' = R.session /\ agents' = R.agents /\ file' = R.file
  /\ activeWs' = R.activeWs /\ driver' = R.driver /\ tasks' = R.tasks
  /\ pending' = R.pending /\ timers' = R.timers
  /\ overtaken' = R.overtaken /\ unsaved' = R.unsaved /\ stillborn' = R.stillborn

(* task.cancel() on a timer: it leaves the table now and unwinds later. *)
CancelPending(R, r) ==
  IF R.pending[r] = 0 THEN R
  ELSE [R EXCEPT !.pending[r] = 0, !.timers[R.pending[r]].state = "cancelled"]

(* Faults: mistakes that the runs must catch, each before the definition   *)
(* it stands in for; no specification uses them.                           *)
StillRunningFault(R, r) == [R EXCEPT !.driver[r] = None]

(* A cancelled driver stops at its next await; the call it gave to the     *)
(* executor runs to its end.                                               *)
CancelTask(R, r) ==
  IF R.driver[r] = None THEN R
  ELSE [R EXCEPT !.tasks[R.driver[r]].alive = FALSE, !.driver[r] = None]

(* The clients whose message agent a answers, or will when the lock is     *)
(* theirs.                                                                 *)
Users(a) == {c \in Clients : client[c].agent = a}

UnsavedFault(R, rs, lost) == R.file

(* WebAgent.close saves the personality one last time; a save that fails   *)
(* (the roles in lost) is logged, and the session closed all the same.     *)
ClosedFiles(R, rs, lost) ==
  [r \in Roles |-> IF r \in rs \ lost /\ R.session[r] # 0
                   THEN R.agents[R.session[r]].mood ELSE R.file[r]]

(* What remove, cleanup_old and shutdown do to the roles they drop: close  *)
(* the agent, cancel the driver and forget the socket.                     *)
Drop(R, rs, lost) ==
  [R EXCEPT
     !.file = ClosedFiles(R, rs, lost),
     !.session  = [r \in Roles |-> IF r \in rs THEN 0 ELSE @[r]],
     !.activeWs = [r \in Roles |-> IF r \in rs THEN None ELSE @[r]],
     !.driver   = [r \in Roles |-> IF r \in rs THEN None ELSE @[r]],
     !.tasks    = [s \in Sockets |->
        IF \E r \in rs : R.driver[r] = s THEN [@[s] EXCEPT !.alive = FALSE] ELSE @[s]],
     !.overtaken = @ \cup {r \in rs : R.session[r] # 0 /\ Users(R.session[r]) # {}},
     !.unsaved   = @ \cup {r \in rs \cap lost : R.session[r] # 0}]

(* cleanup_old: roles idle beyond the limit go, then the oldest sessions   *)
(* above the maximum; never one with a socket registered.                  *)
Idle(R) == {r \in Roles : /\ R.session[r] # 0 /\ R.activeWs[r] = None
                          /\ R.agents[R.session[r]].age = Ttl}

Surplus(R, kept) ==
  LET loose == {r \in kept : R.activeWs[r] = None}
      older(r) == {q \in loose : R.session[q] < R.session[r]}
  IN {r \in loose : Cardinality(older(r)) + MaxSessions < Cardinality(kept)}

Evicted(R) == Idle(R) \cup Surplus(R, {r \in Roles : R.session[r] # 0} \ Idle(R))

(* get_or_create: a live agent is reused and its removal called off; a new *)
(* one loads the personality file. At every CleanupEvery-th creation       *)
(* cleanup_old runs before the agent is returned, and may take the new     *)
(* session with it: no socket is registered for it yet.                    *)
GetOrCreate(R, r, lost) ==
  LET a == Len(R.agents) + 1
      N == [R EXCEPT
              !.agents = Append(@, [role |-> r, mood |-> R.file[r], age |-> 0]),
              !.session[r] = a]
  IN IF R.session[r] # 0 THEN CancelPending(R, r)
     ELSE IF a % CleanupEvery # 0 THEN N
     ELSE [Drop(N, Evicted(N), lost) EXCEPT
             !.stillborn = IF r \in Evicted(N) THEN @ \cup {a} ELSE @]

(* The agent it returns, in the registry or not.                           *)
Got(R, r) == IF R.session[r] # 0 THEN R.session[r] ELSE Len(R.agents) + 1

Remove(R, r, lost) == Drop(CancelPending(R, r), {r}, lost)

RegisterProactive(R, r, s) ==
  [CancelTask(CancelPending(R, r), r) EXCEPT !.driver[r] = s, !.activeWs[r] = s]

ScheduleRemove(R, r) ==
  LET C == CancelPending(R, r)
  IN [C EXCEPT
        !.timers = Append(@, [role |-> r, agent |-> C.session[r], state |-> "set"]),
        !.pending[r] = Len(C.timers) + 1]

Room(r) == session[r] = 0 => Len(agents) < MaxAgents
-----------------------------------------------------------------------------
(* websocket_endpoint accepts a connection. *)
Connect(s) ==
  /\ ~stopped /\ client[s].place = "new"
  /\ client' = [client EXCEPT ![s].place = "open"]
  /\ UNCHANGED <<registry, queue, sent, done, latest, stopped>>

(* The init frame, one per connection (app.js): the session, a driver for  *)
(* it and the registration, in one stretch of the event loop.              *)
InitFrame(s, r) ==
  /\ ~stopped /\ client[s].place = "open" /\ client[s].role = None
  /\ Room(r)
  /\ \E lost \in SUBSET Roles :
       LET T == [GetOrCreate(Registry, r, lost) EXCEPT !.tasks[s] =
                   [agent |-> Got(Registry, r), alive |-> TRUE, calling |-> FALSE]]
       IN Becomes(RegisterProactive(T, r, s))
  /\ client' = [client EXCEPT ![s].role = r]
  /\ latest' = [latest EXCEPT ![r] = s]
  /\ UNCHANGED <<queue, sent, done, stopped>>

(* A session lock per agent object instead of one per role. *)
LockPerAgentFault(c, r) ==
  /\ ~stopped /\ sent < MaxMessages /\ Room(r)
  /\ \/ c \in Sockets /\ client[c].place = "open" /\ client[c].role = r
     \/ c \in Requests /\ client[c].place = "new"
  /\ LET a == Got(Registry, r)
     IN /\ \E lost \in SUBSET Roles :
             LET R == GetOrCreate(Registry, r, lost)
             IN Becomes([R EXCEPT !.agents[a].age = 0,
                                  !.overtaken = IF R.session[r] = a THEN @ ELSE @ \cup {r}])
        /\ client' = [client EXCEPT ![c] =
             [place |-> IF Users(a) = {} THEN "running" ELSE "waiting",
              role |-> r, agent |-> a, msg |-> sent + 1]]
  /\ queue' = [queue EXCEPT ![r] = Append(@, c)]
  /\ sent' = sent + 1
  /\ UNCHANGED <<done, latest, stopped>>

(* A message frame, or a POST: the agent is looked up first, then the      *)
(* session lock is awaited. asyncio.Lock serves its waiters in order. A    *)
(* frame counts as activity on arrival, a POST when its call begins. An    *)
(* agent that its own creation evicted is called all the same.             *)
SendMessage(c, r) ==
  /\ ~stopped /\ sent < MaxMessages /\ Room(r)
  /\ \/ c \in Sockets /\ client[c].place = "open" /\ client[c].role = r
     \/ c \in Requests /\ client[c].place = "new"
  /\ LET a == Got(Registry, r)
         touched == c \in Sockets \/ queue[r] = << >>
     IN /\ \E lost \in SUBSET Roles :
             LET R == GetOrCreate(Registry, r, lost)
             IN Becomes([R EXCEPT !.agents[a].age = IF touched THEN 0 ELSE @,
                                  !.overtaken = IF R.session[r] = a THEN @ ELSE @ \cup {r}])
        /\ client' = [client EXCEPT ![c] =
             [place |-> IF queue[r] = << >> THEN "running" ELSE "waiting",
              role |-> r, agent |-> a, msg |-> sent + 1]]
  /\ queue' = [queue EXCEPT ![r] = Append(@, c)]
  /\ sent' = sent + 1
  /\ UNCHANGED <<done, latest, stopped>>

(* GET /api/status and /api/chat/history: a role without a session is      *)
(* looked for in the database, and one that has a past gets its agent.     *)
Look(q, r) ==
  /\ ~stopped /\ client[q].place = "new" /\ session[r] = 0
  /\ client' = [client EXCEPT ![q].place = "looking", ![q].role = r]
  /\ UNCHANGED <<registry, queue, sent, done, latest, stopped>>

Found(q) ==
  /\ client[q].place = "looking" /\ Room(client[q].role)
  /\ \E lost \in SUBSET Roles : Becomes(GetOrCreate(Registry, client[q].role, lost))
  /\ client' = [client EXCEPT ![q].place = "closed"]
  /\ UNCHANGED <<queue, sent, done, latest, stopped>>

NotFound(q) ==
  /\ client[q].place = "looking"
  /\ client' = [client EXCEPT ![q].place = "closed"]
  /\ UNCHANGED <<registry, queue, sent, done, latest, stopped>>

NextInLine(r) == IF Len(queue[r]) > 1 THEN {queue[r][2]} ELSE {}

(* process_message returns in its thread: the emotion has moved, and the   *)
(* personality is saved, unless a save was tried in the last 30 seconds or *)
(* this one fails; neither holds the reply up. The handler goes on, and    *)
(* the session lock passes to its next waiter.                             *)
Answer(c) ==
  /\ client[c].place = "running"
  /\ LET r == client[c].role
         a == client[c].agent
         mood == agents[a].mood \cup {client[c].msg}
         next == NextInLine(r)
         busy == {a} \cup {client[d].agent : d \in next}
     IN /\ agents' = [b \in AgentIds |->
             [agents[b] EXCEPT !.mood = IF b = a THEN mood ELSE @,
                               !.age = IF b \in busy THEN 0 ELSE @]]
        /\ file' \in {[file EXCEPT ![r] = mood], file}
        /\ done' = [done EXCEPT ![r] = @ \cup {client[c].msg}]
        /\ queue' = [queue EXCEPT ![r] = Tail(@)]
        /\ client' = [d \in Clients |->
             IF d = c
             THEN [client[c] EXCEPT
                     !.place = IF c \in Sockets THEN "open" ELSE "closed",
                     !.agent = 0, !.msg = 0]
             ELSE IF d \in next THEN [client[d] EXCEPT !.place = "running"]
                  ELSE client[d]]
  /\ UNCHANGED <<session, activeWs, driver, tasks, pending, timers, overtaken,
                 unsaved, stillborn, sent, latest, stopped>>

(* Any socket that closes takes the session along. *)
AnyTabFault(s) ==
  /\ ~stopped /\ s \in Sockets /\ client[s].place = "open" /\ client[s].role # None
  /\ Len(timers) < MaxTimers
  /\ client' = [client EXCEPT ![s].place = "closed"]
  /\ Becomes(ScheduleRemove([Registry EXCEPT !.activeWs[client[s].role] = None],
                            client[s].role))
  /\ UNCHANGED <<queue, sent, done, latest, stopped>>

(* The handler's finally: only the socket that receives the proactive      *)
(* messages takes its session along, a minute later.                       *)
Disconnect(s) ==
  /\ ~stopped /\ s \in Sockets /\ client[s].place = "open"
  /\ client' = [client EXCEPT ![s].place = "closed"]
  /\ LET r == client[s].role
     IN IF r # None /\ activeWs[r] = s
        THEN /\ Len(timers) < MaxTimers
             /\ Becomes(ScheduleRemove([Registry EXCEPT !.activeWs[r] = None], r))
        ELSE UNCHANGED registry
  /\ UNCHANGED <<queue, sent, done, latest, stopped>>
-----------------------------------------------------------------------------
(* The minute is over. The timer removes the agent it was set for unless a *)
(* socket is registered; its finally clears the table entry of the role,   *)
(* whichever timer stands there.                                           *)
Expire(t) ==
  /\ ~stopped /\ timers[t].state = "set"
  /\ LET r == timers[t].role
         R == [Registry EXCEPT !.timers[t].state = "done", !.pending[r] = 0]
     IN IF activeWs[r] = None /\ session[r] = timers[t].agent
        THEN \E lost \in SUBSET {r} : Becomes(Remove(R, r, lost))
        ELSE Becomes(R)
  /\ UNCHANGED <<queue, client, sent, done, latest, stopped>>

(* A cancelled timer runs its finally a turn of the event loop later. *)
Unwind(t) ==
  /\ timers[t].state = "cancelled"
  /\ Becomes([Registry EXCEPT !.timers[t].state = "done",
                              !.pending[timers[t].role] = 0])
  /\ UNCHANGED <<queue, client, sent, done, latest, stopped>>

(* Time passes without activity; nothing a client waits for takes as long. *)
GrowOld(r) ==
  /\ session[r] # 0 /\ agents[session[r]].age < Ttl
  /\ Users(session[r]) = {}
  /\ agents' = [agents EXCEPT ![session[r]].age = @ + 1]
  /\ UNCHANGED <<session, file, activeWs, driver, tasks, pending, timers, overtaken,
                 unsaved, stillborn, queue, client, sent, done, latest, stopped>>

(* cleanup_old, every five minutes.                                        *)
CleanupOld ==
  /\ ~stopped /\ Evicted(Registry) # {}
  /\ \E lost \in SUBSET Evicted(Registry) :
       Becomes(Drop(Registry, Evicted(Registry), lost))
  /\ UNCHANGED <<queue, client, sent, done, latest, stopped>>

(* The end of the lifespan: the server has let its handlers finish. *)
Shutdown ==
  /\ ~stopped
  /\ \A c \in Clients : client[c].place \in {"new", "closed"}
  /\ stopped' = TRUE
  /\ LET R == [Registry EXCEPT
                 !.pending = [r \in Roles |-> 0],
                 !.timers = [t \in 1..Len(timers) |->
                   IF \E r \in Roles : pending[r] = t
                   THEN [timers[t] EXCEPT !.state = "cancelled"] ELSE timers[t]]]
     IN \E lost \in SUBSET Roles : Becomes(Drop(R, Roles, lost))
  /\ UNCHANGED <<queue, client, sent, done, latest>>
-----------------------------------------------------------------------------
(* The driver hands a decision or a proactive turn to the executor ... *)
DriverCall(s) ==
  /\ tasks[s].alive /\ ~tasks[s].calling
  /\ tasks' = [tasks EXCEPT ![s].calling = TRUE]
  /\ UNCHANGED <<session, agents, file, activeWs, driver, pending, timers, overtaken,
                 unsaved, stillborn, queue, client, sent, done, latest, stopped>>

(* ... and stays silent, or has been cancelled meanwhile ... *)
DriverSilent(s) ==
  /\ tasks[s].calling
  /\ tasks' = [tasks EXCEPT ![s].calling = FALSE]
  /\ UNCHANGED <<session, agents, file, activeWs, driver, pending, timers, overtaken,
                 unsaved, stillborn, queue, client, sent, done, latest, stopped>>

(* ... or speaks: engine.touch, then on_proactive, which looks the session *)
(* up with get_or_create, an act of reuse.                                 *)
DriverSpeak(s) ==
  /\ tasks[s].calling /\ tasks[s].alive
  /\ LET a == tasks[s].agent
         R == [Registry EXCEPT !.tasks[s].calling = FALSE, !.agents[a].age = 0]
     IN /\ Room(agents[a].role)
        /\ \E lost \in SUBSET Roles : Becomes(GetOrCreate(R, agents[a].role, lost))
  /\ UNCHANGED <<queue, client, sent, done, latest, stopped>>

Init ==
  /\ session = [r \in Roles |-> 0]
  /\ agents = << >>
  /\ file = [r \in Roles |-> {}]
  /\ activeWs = [r \in Roles |-> None]
  /\ driver = [r \in Roles |-> None]
  /\ tasks = [s \in Sockets |-> [agent |-> 0, alive |-> FALSE, calling |-> FALSE]]
  /\ pending = [r \in Roles |-> 0]
  /\ timers = << >>
  /\ queue = [r \in Roles |-> << >>]
  /\ client = [c \in Clients |-> [place |-> "new", role |-> None, agent |-> 0, msg |-> 0]]
  /\ sent = 0
  /\ done = [r \in Roles |-> {}]
  /\ overtaken = {} /\ unsaved = {} /\ stillborn = {}
  /\ latest = [r \in Roles |-> None]
  /\ stopped = FALSE

Fire(t) == t <= Len(timers) /\ (Expire(t) \/ Unwind(t))

Driving(s) == DriverCall(s) \/ DriverSilent(s) \/ DriverSpeak(s)

Next ==
  \/ \E s \in Sockets : Connect(s) \/ Disconnect(s) \/ Driving(s)
  \/ \E s \in Sockets, r \in Roles : InitFrame(s, r)
  \/ \E c \in Clients, r \in Roles : SendMessage(c, r)
  \/ \E q \in Requests, r \in Roles : Look(q, r)
  \/ \E q \in Requests : Found(q) \/ NotFound(q)
  \/ \E c \in Clients : Answer(c)
  \/ \E t \in 1..MaxTimers : Fire(t)
  \/ \E r \in Roles : GrowOld(r)
  \/ CleanupOld
  \/ Shutdown

Spec == Init /\ [][Next]_vars

(* The event loop runs what is ready, the timers and the periodic cleanup  *)
(* among it, however often a touch resets an age in between; calls end by  *)
(* their timeouts; hours pass.                                             *)
FairSpec ==
  /\ Spec
  /\ \A c \in Clients : WF_vars(Answer(c))
  /\ \A t \in 1..MaxTimers : WF_vars(Fire(t))
  /\ \A r \in Roles : WF_vars(GrowOld(r))
  /\ SF_vars(CleanupOld)
-----------------------------------------------------------------------------
(* The tab that came last to a role is served as long as it is open: it is *)
(* the socket registered, a driver runs for the role, and it drives the    *)
(* agent in service. No removal, eviction, or other tab that closes takes  *)
(* any of it away; only an agent that the init frame's own get_or_create   *)
(* evicted, before the socket was registered, is driven out of service.    *)
LatestServed ==
  \A r \in Roles : latest[r] # None /\ Live(latest[r]) =>
    /\ activeWs[r] = latest[r]
    /\ driver[r] # None /\ tasks[driver[r]].alive
    /\ \/ tasks[driver[r]].agent = session[r]
       \/ tasks[driver[r]].agent \in stillborn

(* A role never has two drivers (both would speak), and a driver lives no  *)
(* longer than the session it was started for, if that outlived the call   *)
(* that created it.                                                        *)
OneDriver ==
  \A s \in Sockets : tasks[s].alive =>
    LET a == tasks[s].agent
    IN /\ driver[agents[a].role] = s
       /\ session[agents[a].role] = a \/ a \in stillborn

(* The session lock outlives the session: two messages to one role never   *)
(* run at once, even when the agent was removed and rebuilt in between.    *)
MessagesSerial ==
  \A c, d \in Clients :
    /\ client[c].place = "running" /\ client[d].place = "running"
    /\ client[c].role = client[d].role
    => c = d

(* No emotional shift is lost over disconnects, removals, evictions and    *)
(* the shutdown, whatever saves are skipped or fail on the way, as long as *)
(* no agent of the role was dropped in the middle of a call or with a last *)
(* save that failed: it is in the live agent, or else in the file.         *)
MoodKept ==
  \A r \in Roles \ (overtaken \cup unsaved) :
    done[r] \subseteq IF session[r] # 0 THEN agents[session[r]].mood ELSE file[r]

(* "after the timeout it is really removed": the session that a closed     *)
(* socket leaves behind goes, or somebody connects.                        *)
AbandonedRemoved ==
  \A r \in Roles :
    (session[r] # 0 /\ pending[r] # 0) ~> (session[r] = 0 \/ activeWs[r] # None)
=============================================================================
