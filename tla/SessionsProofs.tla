---------------------------- MODULE SessionsProofs ----------------------------
(***************************************************************************)
(* What Sessions promises, for any roles, clients, limits and bounds.      *)
(***************************************************************************)
EXTENDS Sessions, TLAPS

USE SessionsAssumption DEF SessionsAssumption

AgentRec == [role : Roles, mood : SUBSET (1..MaxMessages), age : 0..Ttl]
TaskRec  == [agent : 0..MaxAgents, alive : BOOLEAN, calling : BOOLEAN]
ClientRec == [place : Places, role : Roles \cup {None}, agent : 0..MaxAgents,
              msg : 0..MaxMessages]
TimerRec == [role : Roles, agent : 0..MaxAgents, state : {"set", "cancelled", "done"}]

(* Registries, as the helpers take and return them.                        *)
Registries ==
  [session : [Roles -> 0..MaxAgents], agents : Seq(AgentRec),
   file : [Roles -> SUBSET (1..MaxMessages)],
   activeWs : [Roles -> Sockets \cup {None}], driver : [Roles -> Sockets \cup {None}],
   tasks : [Sockets -> TaskRec], pending : [Roles -> 0..MaxTimers],
   timers : Seq(TimerRec), overtaken : SUBSET Roles, unsaved : SUBSET Roles,
   stillborn : SUBSET (1..MaxAgents)]

(* Agent a was made for role r, and serves it unless the call that made it *)
(* evicted it.                                                             *)
Serves(R, a, r) ==
  /\ a \in 1..Len(R.agents) /\ R.agents[a].role = r
  /\ R.session[r] = a \/ a \in R.stillborn

(* An agent in service is the role's; the driver of a role runs for it; no *)
(* other driver runs.                                                      *)
Tied(R) ==
  /\ \A r \in Roles : R.session[r] # 0 =>
       R.session[r] \in 1..Len(R.agents) /\ R.agents[R.session[r]].role = r
  /\ \A r \in Roles : R.driver[r] # None =>
       R.tasks[R.driver[r]].alive /\ Serves(R, R.tasks[R.driver[r]].agent, r)
  /\ \A s \in Sockets : R.tasks[s].alive => \E r \in Roles : R.driver[r] = s

Sized(R) == Len(R.agents) <= MaxAgents /\ Len(R.timers) <= MaxTimers

Sound(R) == R \in Registries /\ Sized(R) /\ Tied(R)

(* What the step from R to E leaves alone.                                 *)
SameHistory(R, E) ==
  E.overtaken = R.overtaken /\ E.unsaved = R.unsaved /\ E.stillborn = R.stillborn

(* A role with a socket registered keeps its socket and its driver, and    *)
(* nobody is driven who was not before.                                    *)
Spares(R, E) ==
  /\ Len(R.agents) <= Len(E.agents)
  /\ \A q \in Roles : R.activeWs[q] # None =>
       E.activeWs[q] = R.activeWs[q] /\ E.driver[q] = R.driver[q]
  /\ \A s \in Sockets : E.tasks[s].alive => R.tasks[s].alive

(* What the emotion of role q is: the live agent's, or else the file's.    *)
MoodOf(R, q) == IF R.session[q] # 0 THEN R.agents[R.session[q]].mood ELSE R.file[q]

(* The emotions survive, but for a failed last save; an agent that a       *)
(* client waits for stays in service, but where that is recorded.          *)
Keeps(R, E) ==
  /\ R.overtaken \subseteq E.overtaken /\ R.unsaved \subseteq E.unsaved
  /\ \A q \in Roles \ E.unsaved : MoodOf(E, q) = MoodOf(R, q)
  /\ \A q \in Roles \ E.overtaken :
       R.session[q] # 0 /\ Users(R.session[q]) # {} => E.session[q] = R.session[q]

-----------------------------------------------------------------------------
LEMMA BecomesIs ==
  ASSUME NEW R, R \in Registries, Becomes(R)
  PROVE  Registry' = R
BY DEF Becomes, Registry, Registries

LEMMA OneOwner ==
  ASSUME NEW R, Tied(R), NEW q \in Roles, NEW r \in Roles,
         R.driver[q] # None, R.driver[q] = R.driver[r]
  PROVE  q = r
BY DEF Tied, Serves

LEMMA TimerField ==
  ASSUME NEW x \in TimerRec, NEW v \in {"set", "cancelled", "done"}
  PROVE  [x EXCEPT !.state = v] \in TimerRec
BY DEF TimerRec

LEMMA AgentField ==
  ASSUME NEW x \in AgentRec, NEW v \in 0..Ttl
  PROVE  /\ [x EXCEPT !.age = v] \in AgentRec
         /\ [x EXCEPT !.age = v].role = x.role
BY DEF AgentRec

LEMMA TaskField ==
  ASSUME NEW x \in TaskRec, NEW v \in BOOLEAN
  PROVE  /\ [x EXCEPT !.alive = v] \in TaskRec
         /\ [x EXCEPT !.calling = v] \in TaskRec
         /\ [x EXCEPT !.alive = v].alive = v
         /\ [x EXCEPT !.alive = v].agent = x.agent
         /\ [x EXCEPT !.calling = v].alive = x.alive
         /\ [x EXCEPT !.calling = v].agent = x.agent
BY DEF TaskRec

LEMMA TimerUpdate ==
  ASSUME NEW q \in Seq(TimerRec), NEW n, NEW v \in {"set", "cancelled", "done"}
  PROVE  /\ [q EXCEPT ![n].state = v] \in Seq(TimerRec)
         /\ Len([q EXCEPT ![n].state = v]) = Len(q)
<1> DEFINE f == [m \in 1..Len(q) |-> IF m = n THEN [q[m] EXCEPT !.state = v] ELSE q[m]]
<1>1. \A m \in 1..Len(q) : q[m] \in TimerRec /\ [q[m] EXCEPT !.state = v] \in TimerRec
  <2>. TAKE m \in 1..Len(q)
  <2>1. q[m] \in TimerRec
    OBVIOUS
  <2>. QED BY <2>1, TimerField
<1>2. f \in Seq(TimerRec) /\ Len(f) = Len(q)
  BY <1>1
<1>3. [q EXCEPT ![n].state = v] = f
  OBVIOUS
<1>. QED BY <1>2, <1>3

Aged(q, n, v) == [q EXCEPT ![n].age = v]

LEMMA AgentUpdate ==
  ASSUME NEW q \in Seq(AgentRec), NEW n, NEW v \in 0..Ttl
  PROVE  /\ Aged(q, n, v) \in Seq(AgentRec)
         /\ Len(Aged(q, n, v)) = Len(q)
         /\ \A m \in 1..Len(q) : Aged(q, n, v)[m].role = q[m].role
<1> DEFINE f == [m \in 1..Len(q) |-> IF m = n THEN [q[m] EXCEPT !.age = v] ELSE q[m]]
<1>1. \A m \in 1..Len(q) : /\ q[m] \in AgentRec /\ [q[m] EXCEPT !.age = v] \in AgentRec
                           /\ [q[m] EXCEPT !.age = v].role = q[m].role
  <2>. TAKE m \in 1..Len(q)
  <2>1. q[m] \in AgentRec
    OBVIOUS
  <2>. QED BY <2>1, AgentField
<1>2. /\ f \in Seq(AgentRec) /\ Len(f) = Len(q)
      /\ \A m \in 1..Len(q) : f[m].role = q[m].role
  BY <1>1
<1>3. Aged(q, n, v) = f
  BY DEF Aged
<1>. QED BY <1>2, <1>3

LEMMA CancelPendingTyped ==
  ASSUME NEW R \in Registries, NEW r \in Roles
  PROVE  /\ CancelPending(R, r) \in Registries
         /\ CancelPending(R, r).session = R.session
         /\ CancelPending(R, r).agents = R.agents
         /\ CancelPending(R, r).file = R.file
         /\ CancelPending(R, r).activeWs = R.activeWs
         /\ CancelPending(R, r).driver = R.driver
         /\ CancelPending(R, r).tasks = R.tasks
         /\ Len(CancelPending(R, r).timers) = Len(R.timers)
         /\ SameHistory(R, CancelPending(R, r))
<1> DEFINE C == CancelPending(R, r)
           ts == [R.timers EXCEPT ![R.pending[r]].state = "cancelled"]
<1>1. CASE R.pending[r] = 0
  BY <1>1 DEF CancelPending, SameHistory
<1>2. CASE R.pending[r] # 0
  <2>1. C = [R EXCEPT !.pending = [R.pending EXCEPT ![r] = 0], !.timers = ts]
    BY <1>2 DEF CancelPending, Registries
  <2>2. ts \in Seq(TimerRec) /\ Len(ts) = Len(R.timers)
    BY TimerUpdate DEF Registries
  <2>3. [R.pending EXCEPT ![r] = 0] \in [Roles -> 0..MaxTimers]
    BY DEF Registries
  <2> HIDE DEF ts
  <2>4. C \in Registries
    BY <2>1, <2>2, <2>3 DEF Registries
  <2>5. /\ C.session = R.session /\ C.agents = R.agents /\ C.file = R.file
        /\ C.activeWs = R.activeWs /\ C.driver = R.driver /\ C.tasks = R.tasks
        /\ C.timers = ts /\ SameHistory(R, C)
    BY <2>1 DEF Registries, SameHistory
  <2>. QED BY <2>2, <2>4, <2>5 DEF C
<1>. QED BY <1>1, <1>2

LEMMA CancelPendingSound ==
  ASSUME NEW R, Sound(R), NEW r \in Roles
  PROVE  Sound(CancelPending(R, r))
<1> DEFINE C == CancelPending(R, r)
<1>1. /\ C \in Registries /\ C.session = R.session /\ C.agents = R.agents
      /\ C.driver = R.driver /\ C.tasks = R.tasks /\ Len(C.timers) = Len(R.timers)
      /\ C.stillborn = R.stillborn
  BY CancelPendingTyped DEF Sound, SameHistory
<1> HIDE DEF C
<1>. QED BY <1>1 DEF Sound, Sized, Tied, Serves, C

LEMMA CancelTaskTyped ==
  ASSUME NEW R \in Registries, NEW r \in Roles
  PROVE  /\ CancelTask(R, r) \in Registries
         /\ CancelTask(R, r).session = R.session
         /\ CancelTask(R, r).agents = R.agents
         /\ CancelTask(R, r).activeWs = R.activeWs
         /\ CancelTask(R, r).timers = R.timers
         /\ CancelTask(R, r).file = R.file
         /\ SameHistory(R, CancelTask(R, r))
         /\ CancelTask(R, r).driver = [R.driver EXCEPT ![r] = None]
         /\ \A s \in Sockets \ {R.driver[r]} : CancelTask(R, r).tasks[s] = R.tasks[s]
         /\ R.driver[r] # None => ~CancelTask(R, r).tasks[R.driver[r]].alive
<1> DEFINE C == CancelTask(R, r)
           s  == R.driver[r]
           dr == [R.driver EXCEPT ![r] = None]
           ta == [R.tasks EXCEPT ![s].alive = FALSE]
<1>1. CASE s = None
  <2>1. R.driver = dr
    BY <1>1 DEF Registries
  <2>. QED BY <1>1, <2>1 DEF CancelTask, SameHistory
<1>2. CASE s # None
  <2>0. s \in Sockets
    BY <1>2 DEF Registries
  <2>1. C = [R EXCEPT !.tasks = ta, !.driver = dr]
    BY <1>2 DEF CancelTask, Registries
  <2>2. /\ ta \in [Sockets -> TaskRec] /\ ~ta[s].alive
        /\ \A x \in Sockets \ {s} : ta[x] = R.tasks[x]
    <3>1. R.tasks \in [Sockets -> TaskRec]
      BY DEF Registries
    <3>2. [R.tasks[s] EXCEPT !.alive = FALSE] \in TaskRec
          /\ ~[R.tasks[s] EXCEPT !.alive = FALSE].alive
      BY <2>0, <3>1, TaskField
    <3>. QED BY <2>0, <3>1, <3>2
  <2>3. dr \in [Roles -> Sockets \cup {None}]
    BY DEF Registries
  <2> HIDE DEF ta, dr
  <2>4. C \in Registries
    BY <2>1, <2>2, <2>3 DEF Registries
  <2>5. /\ C.session = R.session /\ C.agents = R.agents /\ C.activeWs = R.activeWs
        /\ C.timers = R.timers /\ C.driver = dr /\ C.tasks = ta /\ C.file = R.file
        /\ SameHistory(R, C)
    BY <2>1 DEF Registries, SameHistory
  <2> HIDE DEF C
  <2>. QED BY <2>2, <2>4, <2>5 DEF C, dr
<1>. QED BY <1>1, <1>2

LEMMA DropSound ==
  ASSUME NEW R, Sound(R), NEW rs \in SUBSET Roles, NEW lost \in SUBSET Roles
  PROVE  LET D == Drop(R, rs, lost)
         IN  /\ Sound(D) /\ D.agents = R.agents
             /\ \A r \in Roles \ rs : /\ D.session[r] = R.session[r]
                                      /\ D.activeWs[r] = R.activeWs[r]
                                      /\ D.driver[r] = R.driver[r]
             /\ \A s \in Sockets : D.tasks[s].alive => R.tasks[s].alive
             /\ D.stillborn = R.stillborn
             /\ Keeps(R, D)
<1> DEFINE D  == Drop(R, rs, lost)
           fi == ClosedFiles(R, rs, lost)
           se == [r \in Roles |-> IF r \in rs THEN 0 ELSE R.session[r]]
           ws == [r \in Roles |-> IF r \in rs THEN None ELSE R.activeWs[r]]
           dr == [r \in Roles |-> IF r \in rs THEN None ELSE R.driver[r]]
           ta == [s \in Sockets |-> IF \E r \in rs : R.driver[r] = s
                                    THEN [R.tasks[s] EXCEPT !.alive = FALSE]
                                    ELSE R.tasks[s]]
           ov == R.overtaken \cup {r \in rs : R.session[r] # 0 /\ Users(R.session[r]) # {}}
           un == R.unsaved \cup {r \in rs \cap lost : R.session[r] # 0}
<1>1. D = [R EXCEPT !.file = fi, !.session = se, !.activeWs = ws, !.driver = dr,
                    !.tasks = ta, !.overtaken = ov, !.unsaved = un]
  BY DEF Drop, Sound, Registries
<1>2. fi \in [Roles -> SUBSET (1..MaxMessages)]
  <2>1. \A r \in Roles : R.session[r] # 0 =>
          R.agents[R.session[r]].mood \in SUBSET (1..MaxMessages)
    <3>1. \A m \in 1..Len(R.agents) : R.agents[m] \in AgentRec
      BY DEF Sound, Registries
    <3>. QED BY <3>1 DEF AgentRec, Sound, Tied
  <2>2. R.file \in [Roles -> SUBSET (1..MaxMessages)]
    BY DEF Sound, Registries
  <2>. QED BY <2>1, <2>2 DEF ClosedFiles
<1>3. /\ se \in [Roles -> 0..MaxAgents]
      /\ ws \in [Roles -> Sockets \cup {None}] /\ dr \in [Roles -> Sockets \cup {None}]
      /\ ov \in SUBSET Roles /\ un \in SUBSET Roles
  BY DEF Sound, Registries
<1>4. ta \in [Sockets -> TaskRec]
  <2>1. \A s \in Sockets : R.tasks[s] \in TaskRec
    BY DEF Sound, Registries
  <2>2. \A s \in Sockets : [R.tasks[s] EXCEPT !.alive = FALSE] \in TaskRec
    BY <2>1, TaskField
  <2>. QED BY <2>1, <2>2
<1>5. \A s \in Sockets : ta[s].alive =>
        ta[s] = R.tasks[s] /\ ~\E r \in rs : R.driver[r] = s
  <2>. TAKE s \in Sockets
  <2>1. R.tasks[s] \in TaskRec
    BY DEF Sound, Registries
  <2>2. ~[R.tasks[s] EXCEPT !.alive = FALSE].alive
    BY <2>1, TaskField
  <2>. QED BY <2>2
<1>6. \A s \in Sockets : (~\E r \in rs : R.driver[r] = s) => ta[s] = R.tasks[s]
  OBVIOUS
<1>7. \A r \in Roles :
        IF r \in rs THEN se[r] = 0 /\ dr[r] = None
        ELSE se[r] = R.session[r] /\ dr[r] = R.driver[r] /\ ws[r] = R.activeWs[r]
  OBVIOUS
<1>8. /\ R.overtaken \subseteq ov /\ R.unsaved \subseteq un
      /\ \A q \in Roles \ un : fi[q] = IF q \in rs THEN MoodOf(R, q) ELSE R.file[q]
      /\ \A q \in rs \ ov : R.session[q] = 0 \/ Users(R.session[q]) = {}
  BY DEF ClosedFiles, MoodOf
<1> HIDE DEF fi, se, ws, dr, ta, ov, un
<1>9. /\ D \in Registries
      /\ D.session = se /\ D.agents = R.agents /\ D.activeWs = ws
      /\ D.driver = dr /\ D.tasks = ta /\ D.timers = R.timers /\ D.file = fi
      /\ D.overtaken = ov /\ D.unsaved = un /\ D.stillborn = R.stillborn
  BY <1>1, <1>2, <1>3, <1>4 DEF Sound, Registries
<1> HIDE DEF D
<1>10. \A q \in Roles : D.driver[q] # None =>
         D.tasks[D.driver[q]].alive /\ Serves(D, D.tasks[D.driver[q]].agent, q)
  <2> SUFFICES ASSUME NEW q \in Roles, D.driver[q] # None
               PROVE  D.tasks[D.driver[q]].alive /\ Serves(D, D.tasks[D.driver[q]].agent, q)
    OBVIOUS
  <2>1. q \notin rs /\ D.driver[q] = R.driver[q] /\ D.session[q] = R.session[q]
    BY <1>7, <1>9
  <2>2. R.driver[q] \in Sockets
    BY <2>1 DEF Sound, Registries
  <2>3. ~\E r \in rs : R.driver[r] = R.driver[q]
    BY <2>1, OneOwner DEF Sound
  <2>4. D.tasks[D.driver[q]] = R.tasks[R.driver[q]]
    BY <1>6, <1>9, <2>1, <2>2, <2>3
  <2>5. R.tasks[R.driver[q]].alive /\ Serves(R, R.tasks[R.driver[q]].agent, q)
    BY <2>1 DEF Sound, Tied
  <2>. QED BY <1>9, <2>1, <2>4, <2>5 DEF Serves
<1>11. \A s \in Sockets : D.tasks[s].alive => \E q \in Roles : D.driver[q] = s
  BY <1>5, <1>7, <1>9 DEF Sound, Tied
<1>12. \A q \in Roles : D.session[q] # 0 =>
         D.session[q] \in 1..Len(D.agents) /\ D.agents[D.session[q]].role = q
  BY <1>7, <1>9 DEF Sound, Tied
<1>13. Sound(D)
  BY <1>9, <1>10, <1>11, <1>12 DEF Sound, Sized, Tied
<1>14. Keeps(R, D)
  <2>1. \A q \in Roles \ un : MoodOf(D, q) = MoodOf(R, q)
    BY <1>7, <1>8, <1>9 DEF MoodOf
  <2>2. \A q \in Roles \ ov :
          R.session[q] # 0 /\ Users(R.session[q]) # {} => D.session[q] = R.session[q]
    BY <1>7, <1>8, <1>9
  <2>. QED BY <1>8, <1>9, <2>1, <2>2 DEF Keeps
<1>. QED BY <1>5, <1>7, <1>9, <1>13, <1>14 DEF D

LEMMA SparesKeepsTrans ==
  ASSUME NEW R, NEW E, NEW F, R \in Registries, E \in Registries, F \in Registries
  PROVE  /\ Spares(R, E) /\ Spares(E, F) => Spares(R, F)
         /\ Keeps(R, E) /\ Keeps(E, F) => Keeps(R, F)
<1>1. Len(R.agents) \in Nat /\ Len(E.agents) \in Nat /\ Len(F.agents) \in Nat
  BY DEF Registries
<1>2. Spares(R, E) /\ Spares(E, F) => Spares(R, F)
  BY <1>1 DEF Spares
<1>3. Keeps(R, E) /\ Keeps(E, F) => Keeps(R, F)
  BY DEF Keeps
<1>. QED BY <1>2, <1>3

(* A step that touches none of this. *)
LEMMA SameKept ==
  ASSUME NEW R, NEW E, R \in Registries, E.session = R.session,
         SameHistory(R, E)
  PROVE  /\ (E.agents = R.agents /\ E.file = R.file => Keeps(R, E))
         /\ (/\ Len(E.agents) = Len(R.agents) /\ E.activeWs = R.activeWs
             /\ E.driver = R.driver
             /\ \A s \in Sockets : E.tasks[s].alive => R.tasks[s].alive
             => Spares(R, E))
<1>1. Len(R.agents) \in Nat
  BY DEF Registries
<1>. QED BY <1>1 DEF Keeps, Spares, SameHistory, MoodOf

LEMMA EvictedLoose ==
  ASSUME NEW R
  PROVE  /\ Evicted(R) \in SUBSET Roles
         /\ \A r \in Evicted(R) : R.activeWs[r] = None
BY DEF Evicted, Idle, Surplus

NewAgent(R, r) ==
  [R EXCEPT !.agents = Append(@, [role |-> r, mood |-> R.file[r], age |-> 0]),
            !.session[r] = Len(R.agents) + 1]

LEMMA NewAgentSound ==
  ASSUME NEW R, Sound(R), NEW r \in Roles, R.session[r] = 0, Len(R.agents) < MaxAgents
  PROVE  LET N == NewAgent(R, r)
             a == Len(R.agents) + 1
         IN  /\ Sound(N) /\ Spares(R, N) /\ Keeps(R, N)
             /\ Serves(N, a, r) /\ N.session[r] = a /\ a \in 1..MaxAgents
<1> DEFINE N  == NewAgent(R, r)
           a  == Len(R.agents) + 1
           x  == [role |-> r, mood |-> R.file[r], age |-> 0]
           as == Append(R.agents, x)
           se == [R.session EXCEPT ![r] = a]
<1>1. N = [R EXCEPT !.agents = as, !.session = se]
  BY DEF NewAgent, Sound, Registries
<1>2. x \in AgentRec /\ x.role = r /\ x.mood = R.file[r]
  BY DEF Sound, Registries, AgentRec
<1>3. R.agents \in Seq(AgentRec) /\ Len(R.agents) \in Nat
  BY DEF Sound, Registries
<1>4. /\ as \in Seq(AgentRec) /\ Len(as) = a /\ as[a] = x
      /\ \A m \in 1..Len(R.agents) : as[m] = R.agents[m]
  <2> HIDE DEF x
  <2>. QED BY <1>2, <1>3
<1>5. /\ a \in 1..MaxAgents /\ a \in 1..Len(as)
      /\ \A m \in 1..Len(R.agents) : m \in 1..Len(as) /\ m # 0
  BY <1>3, <1>4
<1>6. /\ se \in [Roles -> 0..MaxAgents] /\ se[r] = a
      /\ \A q \in Roles \ {r} : se[q] = R.session[q]
  BY <1>5 DEF Sound, Registries
<1>7. as[a].role = r /\ as[a].mood = R.file[r]
  BY <1>2, <1>4
<1> HIDE DEF as, se, x
<1>8. N \in Registries
  BY <1>1, <1>4, <1>6 DEF Sound, Registries
<1>9. /\ N.session = se /\ N.agents = as /\ N.activeWs = R.activeWs
      /\ N.timers = R.timers /\ N.driver = R.driver /\ N.tasks = R.tasks
      /\ N.file = R.file /\ SameHistory(R, N)
  BY <1>1 DEF Sound, Registries, SameHistory
<1> HIDE DEF N
<1>a. Len(as) <= MaxAgents /\ Len(R.agents) <= Len(as)
  BY <1>3, <1>4
<1>b. N.agents[a].role = r /\ a \in 1..Len(N.agents) /\ N.session[r] = a
  BY <1>5, <1>6, <1>7, <1>9, Zenon
<1>10. Sized(N)
  BY <1>9, <1>a DEF Sound, Sized
<1>11. \A q \in Roles : N.session[q] # 0 =>
         N.session[q] \in 1..Len(N.agents) /\ N.agents[N.session[q]].role = q
  <2> SUFFICES ASSUME NEW q \in Roles, N.session[q] # 0
               PROVE  N.session[q] \in 1..Len(N.agents) /\ N.agents[N.session[q]].role = q
    OBVIOUS
  <2>1. CASE q = r
    <3> HIDE DEF a
    <3>. QED BY <1>b, <2>1
  <2>2. CASE q # r
    <3>1. N.session[q] = R.session[q]
      BY <1>6, <1>9, <2>2
    <3>2. R.session[q] \in 1..Len(R.agents) /\ R.agents[R.session[q]].role = q
      BY <3>1 DEF Sound, Tied
    <3>3. R.session[q] \in 1..Len(as) /\ as[R.session[q]] = R.agents[R.session[q]]
      BY <1>4, <1>5, <3>2
    <3>. QED BY <1>9, <3>1, <3>2, <3>3
  <2>. QED BY <2>1, <2>2
<1>12. \A q \in Roles : N.driver[q] # None =>
         N.tasks[N.driver[q]].alive /\ Serves(N, N.tasks[N.driver[q]].agent, q)
  <2> SUFFICES ASSUME NEW q \in Roles, N.driver[q] # None
               PROVE  N.tasks[N.driver[q]].alive /\ Serves(N, N.tasks[N.driver[q]].agent, q)
    OBVIOUS
  <2> DEFINE d == R.tasks[R.driver[q]].agent
  <2>1. R.tasks[R.driver[q]].alive /\ Serves(R, d, q) /\ N.tasks[N.driver[q]].agent = d
    BY <1>9 DEF Sound, Tied
  <2> HIDE DEF d
  <2>2. d \in 1..Len(N.agents) /\ N.agents[d].role = q
    BY <1>4, <1>5, <1>9, <2>1 DEF Serves
  <2>3. N.session[q] = d \/ d \in N.stillborn
    <3>1. R.session[q] = d \/ d \in N.stillborn
      BY <1>9, <2>1 DEF Serves, SameHistory
    <3>2. CASE q = r
      BY <1>5, <2>1, <3>1, <3>2 DEF Serves
    <3>3. CASE q # r
      BY <1>6, <1>9, <3>1, <3>3
    <3>. QED BY <3>2, <3>3
  <2>. QED BY <1>9, <2>1, <2>2, <2>3 DEF Serves
<1>13. Tied(N)
  <2>1. \A s \in Sockets : N.tasks[s].alive => \E q \in Roles : N.driver[q] = s
    BY <1>9 DEF Sound, Tied
  <2>. QED BY <1>11, <1>12, <2>1 DEF Tied
<1>14. Sound(N)
  BY <1>8, <1>10, <1>13 DEF Sound
<1>15. Serves(N, a, r) /\ N.session[r] = a
  BY <1>b DEF Serves
<1>16. Spares(R, N)
  BY <1>9, <1>a DEF Spares
<1>17. Keeps(R, N)
  <2>1. \A q \in Roles : MoodOf(N, q) = MoodOf(R, q)
    <3> TAKE q \in Roles
    <3>1. CASE q = r
      <4>1. MoodOf(R, q) = R.file[r]
        BY <3>1 DEF MoodOf
      <4>2. MoodOf(N, q) = N.agents[a].mood
        BY <1>5, <1>15, <3>1 DEF MoodOf
      <4>. QED BY <1>7, <1>9, <4>1, <4>2
    <3>2. CASE q # r
      <4>1. R.session[q] # 0 => R.session[q] \in 1..Len(R.agents)
        BY DEF Sound, Tied
      <4>2. N.session[q] = R.session[q]
        BY <1>6, <1>9, <3>2
      <4>. QED BY <1>4, <1>9, <4>1, <4>2 DEF MoodOf
    <3>. QED BY <3>1, <3>2
  <2>2. \A q \in Roles : R.session[q] # 0 => N.session[q] = R.session[q]
    BY <1>6, <1>9
  <2>. QED BY <1>9, <2>1, <2>2 DEF Keeps, SameHistory
<1>. QED BY <1>5, <1>14, <1>15, <1>16, <1>17 DEF N

LEMMA StillbornSound ==
  ASSUME NEW R, Sound(R), NEW S \in SUBSET (1..MaxAgents), R.stillborn \subseteq S
  PROVE  LET B == [R EXCEPT !.stillborn = S]
         IN  Sound(B) /\ Spares(R, B) /\ Keeps(R, B) /\ B.stillborn = S
             /\ B.agents = R.agents /\ B.session = R.session
<1> DEFINE B == [R EXCEPT !.stillborn = S]
<1>1. /\ B \in Registries /\ B.session = R.session /\ B.agents = R.agents
      /\ B.file = R.file /\ B.activeWs = R.activeWs /\ B.driver = R.driver
      /\ B.tasks = R.tasks /\ B.timers = R.timers /\ B.stillborn = S
      /\ B.overtaken = R.overtaken /\ B.unsaved = R.unsaved
  BY DEF Sound, Registries
<1> HIDE DEF B
<1>2. Sound(B)
  BY <1>1 DEF Sound, Sized, Tied, Serves
<1>3. Len(R.agents) \in Nat
  BY DEF Sound, Registries
<1>. QED BY <1>1, <1>2, <1>3 DEF Spares, Keeps, MoodOf, B

LEMMA GetOrCreateSound ==
  ASSUME NEW R, Sound(R), NEW r \in Roles, NEW lost \in SUBSET Roles,
         R.session[r] = 0 => Len(R.agents) < MaxAgents
  PROVE  LET G == GetOrCreate(R, r, lost)
         IN  Sound(G) /\ Spares(R, G) /\ Keeps(R, G) /\ Serves(G, Got(R, r), r)
<1> DEFINE G == GetOrCreate(R, r, lost)
           a == Len(R.agents) + 1
           N == NewAgent(R, r)
<1>0. R \in Registries /\ Len(R.agents) \in Nat
  BY DEF Sound, Registries
<1>1. CASE R.session[r] # 0
  <2>1. G = CancelPending(R, r) /\ Got(R, r) = R.session[r]
    BY <1>1 DEF GetOrCreate, Got
  <2>2. /\ Sound(G) /\ G.session = R.session /\ G.agents = R.agents
        /\ G.file = R.file /\ G.activeWs = R.activeWs /\ G.driver = R.driver
        /\ G.tasks = R.tasks /\ SameHistory(R, G)
    BY <1>0, <2>1, CancelPendingSound, CancelPendingTyped
  <2> HIDE DEF G
  <2>3. Spares(R, G) /\ Keeps(R, G)
    BY <1>0, <2>2, SameKept
  <2>4. Serves(G, R.session[r], r)
    BY <1>1, <2>2 DEF Serves, Sound, Tied
  <2>. QED BY <2>1, <2>2, <2>3, <2>4 DEF G
<1>2. CASE R.session[r] = 0
  <2>1. /\ Sound(N) /\ Spares(R, N) /\ Keeps(R, N)
        /\ Serves(N, a, r) /\ N.session[r] = a /\ a \in 1..MaxAgents
    BY <1>2, NewAgentSound
  <2>2. Got(R, r) = a
    BY <1>2 DEF Got
  <2>3. CASE a % CleanupEvery # 0
    <3>1. G = N
      BY <1>2, <2>3 DEF GetOrCreate, NewAgent
    <3>. QED BY <2>1, <2>2, <3>1
  <2>4. CASE a % CleanupEvery = 0
    <3> DEFINE rs == Evicted(N)
               D == Drop(N, rs, lost)
               S == IF r \in rs THEN D.stillborn \cup {a} ELSE D.stillborn
               B == [D EXCEPT !.stillborn = S]
    <3>1. G = B
      BY <1>2, <2>4 DEF GetOrCreate, NewAgent
    <3>a. rs \in SUBSET Roles /\ \A q \in rs : N.activeWs[q] = None
      BY EvictedLoose
    <3> HIDE DEF N, G, rs
    <3>2. /\ Sound(D) /\ D.agents = N.agents
          /\ \A q \in Roles \ rs : /\ D.session[q] = N.session[q]
                                   /\ D.activeWs[q] = N.activeWs[q]
                                   /\ D.driver[q] = N.driver[q]
          /\ \A s \in Sockets : D.tasks[s].alive => N.tasks[s].alive
          /\ D.stillborn = N.stillborn /\ Keeps(N, D)
      BY <2>1, <3>a, DropSound
    <3> HIDE DEF D
    <3>3. Spares(N, D)
      <4>1. Len(N.agents) \in Nat
        BY <2>1 DEF Sound, Registries
      <4>. QED BY <3>a, <3>2, <4>1 DEF Spares
    <3>4. S \in SUBSET (1..MaxAgents) /\ D.stillborn \subseteq S
      BY <2>1, <3>2 DEF Sound, Registries
    <3>5. r \in rs => a \in S
      OBVIOUS
    <3> HIDE DEF S
    <3>6. /\ Sound(B) /\ Spares(D, B) /\ Keeps(D, B) /\ B.stillborn = S
          /\ B.agents = D.agents /\ B.session = D.session
      BY <3>2, <3>4, StillbornSound
    <3> HIDE DEF B
    <3>7. Spares(R, B) /\ Keeps(R, B)
      <4>1. N \in Registries /\ D \in Registries /\ B \in Registries
        BY <2>1, <3>2, <3>6 DEF Sound
      <4>2. Spares(R, D) /\ Keeps(R, D)
        BY <1>0, <2>1, <3>2, <3>3, <4>1, SparesKeepsTrans
      <4>. QED BY <1>0, <3>6, <4>1, <4>2, SparesKeepsTrans
    <3>8. Serves(B, a, r)
      <4>1. a \in 1..Len(B.agents) /\ B.agents[a].role = r
        BY <2>1, <3>2, <3>6 DEF Serves
      <4>2. B.session[r] = a \/ a \in B.stillborn
        BY <2>1, <3>2, <3>5, <3>6
      <4>. QED BY <4>1, <4>2 DEF Serves
    <3>. QED BY <2>2, <3>1, <3>6, <3>7, <3>8 DEF G
  <2>. QED BY <2>3, <2>4
<1>. QED BY <1>1, <1>2

LEMMA ScheduleRemoveSound ==
  ASSUME NEW R, Sound(R), NEW r \in Roles, Len(R.timers) < MaxTimers
  PROVE  /\ Sound(ScheduleRemove(R, r))
         /\ ScheduleRemove(R, r).session = R.session
         /\ ScheduleRemove(R, r).agents = R.agents
         /\ ScheduleRemove(R, r).activeWs = R.activeWs
         /\ ScheduleRemove(R, r).driver = R.driver
         /\ ScheduleRemove(R, r).tasks = R.tasks
         /\ ScheduleRemove(R, r).file = R.file
         /\ SameHistory(R, ScheduleRemove(R, r))
<1> DEFINE C  == CancelPending(R, r)
           t  == [role |-> r, agent |-> C.session[r], state |-> "set"]
           ts == Append(C.timers, t)
           pe == [C.pending EXCEPT ![r] = Len(C.timers) + 1]
           S  == ScheduleRemove(R, r)
<1>1. /\ Sound(C) /\ C.session = R.session /\ C.agents = R.agents
      /\ C.activeWs = R.activeWs /\ C.driver = R.driver /\ C.tasks = R.tasks
      /\ Len(C.timers) = Len(R.timers) /\ C.file = R.file /\ SameHistory(R, C)
  BY CancelPendingSound, CancelPendingTyped DEF Sound
<1> HIDE DEF C
<1>2. S = [C EXCEPT !.timers = ts, !.pending = pe]
  BY <1>1 DEF ScheduleRemove, C, Sound, Registries
<1>3. C.timers \in Seq(TimerRec) /\ Len(C.timers) \in Nat
  BY <1>1 DEF Sound, Registries
<1>4. ts \in Seq(TimerRec) /\ Len(ts) = Len(C.timers) + 1
  <2>1. t \in TimerRec
    BY <1>1 DEF TimerRec, Sound, Registries
  <2> HIDE DEF t
  <2>. QED BY <1>3, <2>1
<1>5. pe \in [Roles -> 0..MaxTimers]
  BY <1>1, <1>3 DEF Sound, Registries
<1> HIDE DEF ts, pe
<1>6. /\ S \in Registries
      /\ S.session = R.session /\ S.agents = R.agents /\ S.activeWs = R.activeWs
      /\ S.driver = R.driver /\ S.tasks = R.tasks /\ S.timers = ts
      /\ S.file = R.file /\ SameHistory(R, S)
  BY <1>1, <1>2, <1>4, <1>5 DEF Sound, Registries, SameHistory
<1> HIDE DEF S
<1>7. Sized(S)
  <2>1. Len(ts) <= MaxTimers
    BY <1>1, <1>3, <1>4
  <2>. QED BY <1>6, <2>1 DEF Sound, Sized
<1>8. Tied(S)
  BY <1>6 DEF Sound, Tied, Serves, SameHistory
<1>. QED BY <1>6, <1>7, <1>8 DEF Sound, S

StartDriver(R, s, a) ==
  [R EXCEPT !.tasks[s] = [agent |-> a, alive |-> TRUE, calling |-> FALSE]]

LEMMA RegisterSound ==
  ASSUME NEW R, Sound(R), NEW r \in Roles, NEW s \in Sockets, NEW a,
         Serves(R, a, r), ~R.tasks[s].alive
  PROVE  LET P == RegisterProactive(StartDriver(R, s, a), r, s)
         IN  /\ Sound(P) /\ P.session = R.session /\ P.agents = R.agents
             /\ P.activeWs = [R.activeWs EXCEPT ![r] = s]
             /\ P.driver = [R.driver EXCEPT ![r] = s]
             /\ \A x \in Sockets \ {s} : P.tasks[x].alive => R.tasks[x].alive
             /\ Keeps(R, P)
<1> DEFINE T  == StartDriver(R, s, a)
           k  == [agent |-> a, alive |-> TRUE, calling |-> FALSE]
           tk == [R.tasks EXCEPT ![s] = k]
           A  == CancelPending(T, r)
           B  == CancelTask(A, r)
           dr == [R.driver EXCEPT ![r] = s]
           ws == [R.activeWs EXCEPT ![r] = s]
           P  == RegisterProactive(T, r, s)
<1>0. R \in Registries /\ Tied(R)
  BY DEF Sound
<1>1. /\ k \in TaskRec /\ k.alive /\ k.agent = a
  <2>1. a \in 0..MaxAgents
    BY DEF Sound, Sized, Serves, Registries
  <2>. QED BY <2>1 DEF TaskRec
<1>2. /\ tk \in [Sockets -> TaskRec] /\ tk[s] = k
      /\ \A x \in Sockets \ {s} : tk[x] = R.tasks[x]
  <2>1. R.tasks \in [Sockets -> TaskRec]
    BY <1>0 DEF Registries
  <2> HIDE DEF k
  <2>. QED BY <1>1, <2>1
<1>3. T = [R EXCEPT !.tasks = tk]
  BY <1>0 DEF StartDriver, Registries
<1> HIDE DEF k, tk, T
<1>4. /\ T \in Registries /\ T.tasks = tk /\ T.session = R.session /\ T.agents = R.agents
      /\ T.activeWs = R.activeWs /\ T.driver = R.driver /\ T.timers = R.timers
      /\ T.file = R.file /\ SameHistory(R, T)
  BY <1>0, <1>2, <1>3 DEF Registries, SameHistory
<1>5. /\ A \in Registries /\ A.tasks = tk /\ A.session = R.session /\ A.agents = R.agents
      /\ A.activeWs = R.activeWs /\ A.driver = R.driver /\ Len(A.timers) = Len(R.timers)
      /\ A.file = R.file /\ SameHistory(R, A)
  BY <1>4, CancelPendingTyped DEF SameHistory
<1> HIDE DEF A
<1>6. /\ B \in Registries /\ B.session = R.session /\ B.agents = R.agents
      /\ B.activeWs = R.activeWs /\ B.driver = [R.driver EXCEPT ![r] = None]
      /\ Len(B.timers) = Len(R.timers)
      /\ \A x \in Sockets \ {R.driver[r]} : B.tasks[x] = tk[x]
      /\ R.driver[r] # None => ~B.tasks[R.driver[r]].alive
      /\ B.file = R.file /\ SameHistory(R, B)
  <2>1. /\ B \in Registries /\ B.session = A.session /\ B.agents = A.agents
        /\ B.activeWs = A.activeWs /\ B.driver = [A.driver EXCEPT ![r] = None]
        /\ B.timers = A.timers
        /\ \A x \in Sockets \ {A.driver[r]} : B.tasks[x] = A.tasks[x]
        /\ A.driver[r] # None => ~B.tasks[A.driver[r]].alive
        /\ B.file = A.file /\ SameHistory(A, B)
    BY <1>5, CancelTaskTyped
  <2> HIDE DEF B
  <2>2. SameHistory(R, B)
    BY <1>5, <2>1 DEF SameHistory
  <2>. QED BY <1>5, <2>1, <2>2
<1> HIDE DEF B
<1>7. P = [B EXCEPT !.driver = dr, !.activeWs = ws]
  <2>1. P = [B EXCEPT !.driver = [B.driver EXCEPT ![r] = s],
                      !.activeWs = [B.activeWs EXCEPT ![r] = s]]
    BY <1>6 DEF RegisterProactive, A, B, Registries
  <2>2. [B.driver EXCEPT ![r] = s] = dr
    BY <1>0, <1>6 DEF Registries
  <2>. QED BY <1>6, <2>1, <2>2
<1>8. /\ dr \in [Roles -> Sockets \cup {None}] /\ dr[r] = s
      /\ \A q \in Roles \ {r} : dr[q] = R.driver[q]
      /\ ws \in [Roles -> Sockets \cup {None}]
  BY <1>0 DEF Registries
<1> HIDE DEF dr, ws
<1>9. /\ P \in Registries /\ P.session = R.session /\ P.agents = R.agents
      /\ P.activeWs = ws /\ P.driver = dr /\ P.tasks = B.tasks
      /\ P.timers = B.timers /\ P.file = R.file /\ SameHistory(R, P)
  BY <1>6, <1>7, <1>8 DEF Registries, SameHistory
<1> HIDE DEF P
<1>10. \A x \in Sockets : x = R.driver[r] => x # s /\ ~B.tasks[x].alive
  BY <1>0, <1>6 DEF Tied
<1>11. B.tasks[s] = k
  BY <1>2, <1>6, <1>10
<1>12. \A x \in Sockets \ {s} : B.tasks[x].alive =>
         x # R.driver[r] /\ B.tasks[x] = R.tasks[x] /\ R.tasks[x].alive
  BY <1>2, <1>6, <1>10
<1>13. \A q \in Roles : \A b : Serves(R, b, q) => Serves(P, b, q)
  BY <1>9 DEF Serves, SameHistory
<1>14. \A q \in Roles : P.driver[q] # None =>
         P.tasks[P.driver[q]].alive /\ Serves(P, P.tasks[P.driver[q]].agent, q)
  <2> SUFFICES ASSUME NEW q \in Roles, P.driver[q] # None
               PROVE  P.tasks[P.driver[q]].alive /\ Serves(P, P.tasks[P.driver[q]].agent, q)
    OBVIOUS
  <2>1. CASE q = r
    <3>1. P.tasks[P.driver[q]] = k
      BY <1>8, <1>9, <1>11, <2>1
    <3>. QED BY <1>1, <1>13, <2>1, <3>1
  <2>2. CASE q # r
    <3>1. P.driver[q] = R.driver[q] /\ R.driver[q] \in Sockets
      BY <1>0, <1>8, <1>9, <2>2 DEF Registries
    <3>2. R.tasks[R.driver[q]].alive /\ Serves(R, R.tasks[R.driver[q]].agent, q)
      BY <1>0, <3>1 DEF Tied
    <3>3. R.driver[q] # R.driver[r] /\ R.driver[q] # s
      BY <1>0, <2>2, <3>1, <3>2, OneOwner
    <3>4. B.tasks[R.driver[q]] = R.tasks[R.driver[q]]
      BY <1>2, <1>6, <3>1, <3>3
    <3>. QED BY <1>9, <1>13, <3>1, <3>2, <3>4
  <2>. QED BY <2>1, <2>2
<1>15. \A x \in Sockets : P.tasks[x].alive => \E q \in Roles : P.driver[q] = x
  <2> SUFFICES ASSUME NEW x \in Sockets, P.tasks[x].alive
               PROVE  \E q \in Roles : P.driver[q] = x
    OBVIOUS
  <2>1. CASE x = s
    BY <1>8, <1>9, <2>1
  <2>2. CASE x # s
    <3>1. x # R.driver[r] /\ R.tasks[x].alive
      BY <1>9, <1>12, <2>2
    <3>2. PICK q \in Roles : R.driver[q] = x
      BY <1>0, <3>1 DEF Tied
    <3>. QED BY <1>8, <1>9, <3>1, <3>2
  <2>. QED BY <2>1, <2>2
<1>16. Sound(P)
  <2>1. Sized(P)
    BY <1>6, <1>9 DEF Sound, Sized
  <2>2. \A q \in Roles : P.session[q] # 0 =>
          P.session[q] \in 1..Len(P.agents) /\ P.agents[P.session[q]].role = q
    BY <1>0, <1>9 DEF Tied
  <2>. QED BY <1>9, <1>14, <1>15, <2>1, <2>2 DEF Sound, Tied
<1>17. \A x \in Sockets \ {s} : P.tasks[x].alive => R.tasks[x].alive
  BY <1>9, <1>12
<1>18. Keeps(R, P)
  BY <1>0, <1>9, SameKept
<1>. QED BY <1>9, <1>16, <1>17, <1>18 DEF P, dr, ws, T

TimerOver(R, t, r) == [R EXCEPT !.timers[t].state = "done", !.pending[r] = 0]

LEMMA TimerOverSound ==
  ASSUME NEW R, Sound(R), NEW t, NEW r \in Roles
  PROVE  /\ Sound(TimerOver(R, t, r))
         /\ TimerOver(R, t, r).session = R.session
         /\ TimerOver(R, t, r).agents = R.agents
         /\ TimerOver(R, t, r).activeWs = R.activeWs
         /\ TimerOver(R, t, r).driver = R.driver
         /\ TimerOver(R, t, r).tasks = R.tasks
         /\ TimerOver(R, t, r).file = R.file
         /\ SameHistory(R, TimerOver(R, t, r))
<1> DEFINE E  == TimerOver(R, t, r)
           ts == [R.timers EXCEPT ![t].state = "done"]
           pe == [R.pending EXCEPT ![r] = 0]
<1>1. E = [R EXCEPT !.timers = ts, !.pending = pe]
  BY DEF TimerOver, Sound, Registries
<1>2. ts \in Seq(TimerRec) /\ Len(ts) = Len(R.timers)
  BY TimerUpdate DEF Sound, Registries
<1>3. pe \in [Roles -> 0..MaxTimers]
  BY DEF Sound, Registries
<1> HIDE DEF ts, pe
<1>4. /\ E \in Registries /\ E.session = R.session /\ E.agents = R.agents
      /\ E.activeWs = R.activeWs /\ E.driver = R.driver /\ E.tasks = R.tasks
      /\ E.timers = ts /\ E.file = R.file /\ SameHistory(R, E)
  BY <1>1, <1>2, <1>3 DEF Sound, Registries, SameHistory
<1> HIDE DEF E
<1>. QED BY <1>2, <1>4 DEF Sound, Sized, Tied, Serves, SameHistory, E

SetCalling(R, s, v) == [R EXCEPT !.tasks = [R.tasks EXCEPT ![s].calling = v]]

LEMMA CallingSound ==
  ASSUME NEW R, Sound(R), NEW s \in Sockets, NEW v \in BOOLEAN
  PROVE  /\ Sound(SetCalling(R, s, v))
         /\ SetCalling(R, s, v).session = R.session
         /\ SetCalling(R, s, v).agents = R.agents
         /\ SetCalling(R, s, v).activeWs = R.activeWs
         /\ SetCalling(R, s, v).driver = R.driver
         /\ SetCalling(R, s, v).file = R.file
         /\ SameHistory(R, SetCalling(R, s, v))
         /\ \A x \in Sockets : /\ SetCalling(R, s, v).tasks[x].alive = R.tasks[x].alive
                               /\ SetCalling(R, s, v).tasks[x].agent = R.tasks[x].agent
<1> DEFINE E  == SetCalling(R, s, v)
           ta == [R.tasks EXCEPT ![s].calling = v]
<1>1. /\ ta \in [Sockets -> TaskRec]
      /\ \A x \in Sockets : /\ ta[x].alive = R.tasks[x].alive
                            /\ ta[x].agent = R.tasks[x].agent
  <2>1. R.tasks \in [Sockets -> TaskRec]
    BY DEF Sound, Registries
  <2>2. /\ [R.tasks[s] EXCEPT !.calling = v] \in TaskRec
        /\ [R.tasks[s] EXCEPT !.calling = v].alive = R.tasks[s].alive
        /\ [R.tasks[s] EXCEPT !.calling = v].agent = R.tasks[s].agent
    BY <2>1, TaskField
  <2>. QED BY <2>1, <2>2
<1> HIDE DEF ta
<1>2. /\ E \in Registries /\ E.session = R.session /\ E.agents = R.agents
      /\ E.activeWs = R.activeWs /\ E.driver = R.driver /\ E.tasks = ta
      /\ E.timers = R.timers /\ E.file = R.file /\ SameHistory(R, E)
  BY <1>1 DEF Sound, Registries, ta, SetCalling, SameHistory
<1> HIDE DEF E
<1>3. \A q \in Roles : R.driver[q] # None => R.driver[q] \in Sockets
  BY DEF Sound, Registries
<1>4. \A q \in Roles : \A b : Serves(R, b, q) => Serves(E, b, q)
  BY <1>2 DEF Serves, SameHistory
<1>5. Tied(E)
  BY <1>1, <1>2, <1>3, <1>4 DEF Sound, Tied
<1>. QED BY <1>1, <1>2, <1>5 DEF Sound, Sized, E

SetAgents(R, as, fi) == [R EXCEPT !.agents = as, !.file = fi]

LEMMA AgentsSound ==
  ASSUME NEW R, Sound(R), NEW as \in Seq(AgentRec), Len(as) = Len(R.agents),
         \A a \in 1..Len(R.agents) : as[a].role = R.agents[a].role,
         NEW fi \in [Roles -> SUBSET (1..MaxMessages)]
  PROVE  /\ Sound(SetAgents(R, as, fi))
         /\ SetAgents(R, as, fi).session = R.session
         /\ SetAgents(R, as, fi).agents = as
         /\ SetAgents(R, as, fi).activeWs = R.activeWs
         /\ SetAgents(R, as, fi).driver = R.driver
         /\ SetAgents(R, as, fi).tasks = R.tasks
         /\ SetAgents(R, as, fi).file = fi
         /\ SameHistory(R, SetAgents(R, as, fi))
<1> DEFINE E == SetAgents(R, as, fi)
<1>1. /\ E \in Registries /\ E.session = R.session /\ E.agents = as
      /\ E.activeWs = R.activeWs /\ E.driver = R.driver /\ E.tasks = R.tasks
      /\ E.timers = R.timers /\ E.file = fi /\ SameHistory(R, E)
  BY DEF Sound, Registries, SetAgents, SameHistory
<1> HIDE DEF E
<1>2. \A q \in Roles : E.session[q] # 0 =>
        E.session[q] \in 1..Len(E.agents) /\ E.agents[E.session[q]].role = q
  <2>. TAKE q \in Roles
  <2>. HAVE E.session[q] # 0
  <2>1. R.session[q] \in 1..Len(R.agents) /\ R.agents[R.session[q]].role = q
    BY <1>1 DEF Sound, Tied
  <2>2. as[R.session[q]].role = q
    BY <2>1
  <2>. QED BY <1>1, <2>1, <2>2
<1>3. Sized(E)
  BY <1>1 DEF Sound, Sized
<1>4. /\ \A q \in Roles : R.driver[q] # None =>
           R.tasks[R.driver[q]].alive /\ Serves(R, R.tasks[R.driver[q]].agent, q)
      /\ \A s \in Sockets : R.tasks[s].alive => \E q \in Roles : R.driver[q] = s
  BY DEF Sound, Tied
<1>5. Tied(E)
  <2>0. \A q \in Roles : \A b : Serves(R, b, q) => Serves(E, b, q)
    BY <1>1 DEF Serves, SameHistory
  <2>1. \A q \in Roles : E.driver[q] # None =>
          E.tasks[E.driver[q]].alive /\ Serves(E, E.tasks[E.driver[q]].agent, q)
    BY <1>1, <1>4, <2>0
  <2>2. \A s \in Sockets : E.tasks[s].alive => \E q \in Roles : E.driver[q] = s
    BY <1>1, <1>4
  <2>. QED BY <1>2, <2>1, <2>2 DEF Tied
<1>. QED BY <1>1, <1>3, <1>5 DEF Sound, E
-----------------------------------------------------------------------------
(* The inductive invariant of everything but the emotions. *)
Typed ==
  /\ queue \in [Roles -> Seq(Clients)]
  /\ client \in [Clients -> ClientRec]
  /\ sent \in 0..MaxMessages
  /\ done \in [Roles -> SUBSET (1..MaxMessages)]
  /\ latest \in [Roles -> Sockets \cup {None}]
  /\ stopped \in BOOLEAN

(* Who awaits an answer has an agent and a message; who looks for a        *)
(* session has a role.                                                     *)
Asking ==
  \A c \in Clients :
    /\ client[c].place \in {"waiting", "running"} =>
         /\ client[c].agent \in 1..Len(agents) /\ client[c].msg # 0
         /\ client[c].role \in Roles
    /\ client[c].place = "looking" => client[c].role \in Roles

(* The lock: its holder is first in line, once; all others of the line wait. *)
Lined ==
  /\ \A r \in Roles : \A i, j \in 1..Len(queue[r]) : queue[r][i] = queue[r][j] => i = j
  /\ \A r \in Roles : \A i \in 1..Len(queue[r]) :
       /\ client[queue[r][i]].role = r
       /\ client[queue[r][i]].place = IF i = 1 THEN "running" ELSE "waiting"
  /\ \A c \in Clients : client[c].place = "running" =>
       \E i \in 1..Len(queue[client[c].role]) : queue[client[c].role][i] = c

(* A socket drives nothing before its init frame. *)
Fresh ==
  \A s \in Sockets : /\ client[s].place = "new" => client[s].role = None
                     /\ client[s].role = None => ~tasks[s].alive

Holds(r) == activeWs[r] # None /\ driver[r] # None

Served ==
  \A r \in Roles : latest[r] # None =>
    /\ client[latest[r]].role = r
    /\ Live(latest[r]) => activeWs[r] = latest[r] /\ Holds(r)

Inv == Sound(Registry) /\ Typed /\ Asking /\ Lined /\ Fresh /\ Served

(* Emotions are kept, and until a role is overtaken its callers are its    *)
(* agent's: the one that will remember what they move.                     *)
Calls(c) == client[c].place \in {"waiting", "running"}

MoodInv ==
  /\ \A q \in Roles \ (overtaken \cup unsaved) : done[q] \subseteq MoodOf(Registry, q)
  /\ \A c \in Clients : Calls(c) /\ client[c].role \notin overtaken =>
       session[client[c].role] = client[c].agent

LEMMA RegistryIs ==
  /\ Registry.session = session /\ Registry.agents = agents /\ Registry.file = file
  /\ Registry.activeWs = activeWs /\ Registry.driver = driver /\ Registry.tasks = tasks
  /\ Registry.pending = pending /\ Registry.timers = timers
  /\ Registry.overtaken = overtaken /\ Registry.unsaved = unsaved
  /\ Registry.stillborn = stillborn
BY DEF Registry

LEMMA BecomesFields ==
  ASSUME NEW R, Sound(R), Becomes(R)
  PROVE  /\ Sound(Registry)'
         /\ session' = R.session /\ agents' = R.agents /\ activeWs' = R.activeWs
         /\ driver' = R.driver /\ tasks' = R.tasks
<1>1. Registry' = R
  BY BecomesIs DEF Sound
<1>. QED BY <1>1 DEF Becomes

(* A step of the registry alone. *)
LEMMA RegistryStep ==
  ASSUME Inv, Sound(Registry)', Len(agents) <= Len(agents'),
         \A s \in Sockets : tasks'[s].alive => tasks[s].alive,
         \A r \in Roles : latest[r] # None /\ Live(latest[r]) /\ Holds(r) =>
           Holds(r)' /\ activeWs'[r] = activeWs[r],
         UNCHANGED <<queue, client, sent, done, latest>>, stopped' \in BOOLEAN
  PROVE  Inv'
<1>1. Typed'
  BY DEF Inv, Typed
<1>2. Asking'
  <2>1. Len(agents) \in Nat /\ Len(agents') \in Nat
    BY RegistryIs DEF Inv, Sound, Registries, Registry
  <2>. QED BY <2>1 DEF Inv, Asking
<1>3. Lined'
  BY DEF Inv, Lined
<1>4. Fresh'
  BY DEF Inv, Fresh
<1>5. Served'
  BY DEF Inv, Served, Live
<1>. QED BY <1>1, <1>2, <1>3, <1>4, <1>5 DEF Inv

(* A step that at most one client starts to ask in.                        *)
LEMMA AskMoodStep ==
  ASSUME Inv, MoodInv, NEW R, Sound(R), Becomes(R), Keeps(Registry, R),
         \A c \in Clients : Calls(c)' => \/ client'[c] = client[c]
                                         \/ client'[c].role \in overtaken'
                                         \/ session'[client'[c].role] = client'[c].agent,
         done' = done
  PROVE  MoodInv'
<1>1. Registry' = R
  BY BecomesIs DEF Sound
<1>2. /\ session' = R.session /\ overtaken' = R.overtaken /\ unsaved' = R.unsaved
      /\ \A q \in Roles : MoodOf(Registry, q)' = MoodOf(R, q)
  BY <1>1 DEF Becomes, MoodOf
<1>3. overtaken \subseteq overtaken' /\ unsaved \subseteq unsaved'
  BY <1>2, RegistryIs DEF Keeps
<1>4. ASSUME NEW q \in Roles \ (overtaken' \cup unsaved')
      PROVE  done'[q] \subseteq MoodOf(Registry, q)'
  <2>1. MoodOf(R, q) = MoodOf(Registry, q)
    BY <1>2, <1>4 DEF Keeps
  <2>2. done[q] \subseteq MoodOf(Registry, q)
    BY <1>3, <1>4 DEF MoodInv
  <2>. QED BY <1>2, <2>1, <2>2
<1>5. ASSUME NEW c \in Clients, Calls(c)', client'[c].role \notin overtaken'
      PROVE  session'[client'[c].role] = client'[c].agent
  <2> SUFFICES ASSUME client'[c] = client[c]
               PROVE  session'[client'[c].role] = client'[c].agent
    BY <1>5
  <2>1. Calls(c) /\ client'[c] = client[c]
    BY <1>5 DEF Calls
  <2>2. /\ client[c].role \in Roles /\ client[c].agent # 0
        /\ session[client[c].role] = client[c].agent
    BY <1>3, <1>5, <2>1 DEF Inv, Asking, Calls, MoodInv
  <2>3. c \in Users(session[client[c].role])
    BY <2>2 DEF Users
  <2>4. R.session[client[c].role] = session[client[c].role]
    BY <1>2, <1>5, <2>1, <2>2, <2>3, RegistryIs DEF Keeps
  <2>. QED BY <1>2, <2>1, <2>2, <2>4
<1>. QED BY <1>4, <1>5 DEF MoodInv

LEMMA MoodStep ==
  ASSUME Inv, MoodInv, NEW R, Sound(R), Becomes(R), Keeps(Registry, R),
         \A c \in Clients : Calls(c)' => client'[c] = client[c],
         done' = done
  PROVE  MoodInv'
BY AskMoodStep

(* Most steps do to the registry what both invariants survive.             *)
Mild == \E R : Sound(R) /\ Becomes(R) /\ Spares(Registry, R) /\ Keeps(Registry, R)

LEMMA MildStep ==
  ASSUME Inv, Mild, UNCHANGED <<queue, client, sent, done, latest>>, stopped' \in BOOLEAN
  PROVE  Inv' /\ (MoodInv => MoodInv')
<1>1. PICK R : Sound(R) /\ Becomes(R) /\ Spares(Registry, R) /\ Keeps(Registry, R)
  BY DEF Mild
<1>2. /\ Sound(Registry)' /\ agents' = R.agents /\ activeWs' = R.activeWs
      /\ driver' = R.driver /\ tasks' = R.tasks
  BY <1>1, BecomesFields
<1>3. /\ Len(agents) <= Len(agents')
      /\ \A s \in Sockets : tasks'[s].alive => tasks[s].alive
      /\ \A q \in Roles : activeWs[q] # None =>
           activeWs'[q] = activeWs[q] /\ driver'[q] = driver[q]
  BY <1>1, <1>2, RegistryIs DEF Spares
<1>4. Inv'
  BY <1>2, <1>3, RegistryStep DEF Holds
<1>5. MoodInv => MoodInv'
  BY <1>1, MoodStep DEF Calls
<1>. QED BY <1>4, <1>5

(* A step that leaves the registry as it is. *)
LEMMA StayMild ==
  ASSUME Inv, UNCHANGED registry
  PROVE  Mild
<1>1. Sound(Registry) /\ Registry \in Registries
  BY DEF Inv, Sound
<1>2. Becomes(Registry)
  BY RegistryIs DEF Becomes, registry
<1>3. Spares(Registry, Registry) /\ Keeps(Registry, Registry)
  BY <1>1, SameKept DEF SameHistory
<1>. QED BY <1>1, <1>2, <1>3 DEF Mild

LEMMA InitOk == Init => Inv
<1> SUFFICES ASSUME Init PROVE Inv
  OBVIOUS
<1>1. Registry \in Registries
  <2>1. /\ agents \in Seq(AgentRec) /\ timers \in Seq(TimerRec)
    BY DEF Init
  <2>2. [agent |-> 0, alive |-> FALSE, calling |-> FALSE] \in TaskRec
    BY DEF TaskRec
  <2>3. tasks \in [Sockets -> TaskRec]
    BY <2>2 DEF Init
  <2>. QED BY <2>1, <2>3 DEF Init, Registry, Registries
<1>2. Sound(Registry)
  BY <1>1, RegistryIs DEF Init, Sound, Sized, Tied
<1>3. Typed
  <2>1. queue \in [Roles -> Seq(Clients)]
    BY DEF Init
  <2>2. [place |-> "new", role |-> None, agent |-> 0, msg |-> 0] \in ClientRec
    BY DEF Places, ClientRec
  <2>3. client \in [Clients -> ClientRec]
    BY <2>2 DEF Init
  <2>4. done \in [Roles -> SUBSET (1..MaxMessages)]
    BY DEF Init
  <2>5. sent \in 0..MaxMessages
    BY DEF Init
  <2>6. latest \in [Roles -> Sockets \cup {None}]
    BY DEF Init
  <2>7. stopped \in BOOLEAN
    BY DEF Init
  <2>. QED BY <2>1, <2>3, <2>4, <2>5, <2>6, <2>7 DEF Typed
<1>4. Asking /\ Fresh /\ Served
  BY DEF Init, Asking, Fresh, Served, Clients
<1>5. Lined
  BY DEF Init, Lined, Clients
<1>. QED BY <1>2, <1>3, <1>4, <1>5 DEF Inv

LEMMA TimerOverOk ==
  ASSUME Inv, NEW t \in 1..Len(timers), NEW E, E = TimerOver(Registry, t, timers[t].role)
  PROVE  /\ timers[t].role \in Roles
         /\ Sound(E) /\ E.session = session /\ E.activeWs = activeWs
         /\ Spares(Registry, E) /\ Keeps(Registry, E)
<1>1. timers \in Seq(TimerRec)
  BY RegistryIs DEF Inv, Sound, Registries
<1>2. timers[t] \in TimerRec
  BY <1>1
<1>3. timers[t].role \in Roles
  BY <1>2 DEF TimerRec
<1>4. /\ Sound(E) /\ E.session = Registry.session /\ E.agents = Registry.agents
      /\ E.activeWs = Registry.activeWs /\ E.driver = Registry.driver
      /\ E.tasks = Registry.tasks /\ E.file = Registry.file /\ SameHistory(Registry, E)
  BY <1>3, TimerOverSound DEF Inv
<1>5. Spares(Registry, E) /\ Keeps(Registry, E)
  BY <1>4, SameKept DEF Inv, Sound
<1>. QED BY <1>3, <1>4, <1>5, RegistryIs

LEMMA UnwindOk ==
  ASSUME Inv, NEW t \in 1..Len(timers), Unwind(t)
  PROVE  Inv' /\ (MoodInv => MoodInv')
<1> DEFINE E == TimerOver(Registry, t, timers[t].role)
<1>1. Sound(E) /\ Spares(Registry, E) /\ Keeps(Registry, E)
  BY TimerOverOk
<1>2. Becomes(E) /\ UNCHANGED <<queue, client, sent, done, latest, stopped>>
  BY DEF Unwind, TimerOver
<1> HIDE DEF E
<1>3. Mild
  BY <1>1, <1>2 DEF Mild
<1>. QED BY <1>2, <1>3, MildStep DEF Inv, Typed

(* Roles without a socket registered may be dropped. *)
LEMMA DropMild ==
  ASSUME Inv, NEW E, Sound(E), Spares(Registry, E), Keeps(Registry, E),
         NEW rs \in SUBSET Roles, NEW lost \in SUBSET Roles,
         \A r \in rs : E.activeWs[r] = None, Becomes(Drop(E, rs, lost))
  PROVE  Mild
<1> DEFINE D == Drop(E, rs, lost)
<1>1. /\ Sound(D) /\ D.agents = E.agents
      /\ \A r \in Roles \ rs : /\ D.session[r] = E.session[r]
                               /\ D.activeWs[r] = E.activeWs[r]
                               /\ D.driver[r] = E.driver[r]
      /\ \A s \in Sockets : D.tasks[s].alive => E.tasks[s].alive
      /\ Keeps(E, D)
  BY DropSound
<1> HIDE DEF D
<1>2. Spares(E, D)
  <2>1. Len(E.agents) \in Nat
    BY DEF Sound, Registries
  <2>. QED BY <1>1, <2>1 DEF Spares
<1>3. Spares(Registry, D) /\ Keeps(Registry, D)
  <2>1. Registry \in Registries /\ E \in Registries /\ D \in Registries
    BY <1>1 DEF Sound, Inv
  <2>. QED BY <1>1, <1>2, <2>1, SparesKeepsTrans
<1>. QED BY <1>1, <1>3 DEF Mild, D

LEMMA ExpireOk ==
  ASSUME Inv, NEW t \in 1..Len(timers), Expire(t)
  PROVE  Inv' /\ (MoodInv => MoodInv')
<1> DEFINE r == timers[t].role
           E == TimerOver(Registry, t, r)
<1>1. /\ r \in Roles /\ Sound(E) /\ E.activeWs = activeWs
      /\ Spares(Registry, E) /\ Keeps(Registry, E)
  BY TimerOverOk
<1>2. /\ UNCHANGED <<queue, client, sent, done, latest, stopped>>
      /\ IF activeWs[r] = None /\ session[r] = timers[t].agent
         THEN \E lost \in SUBSET {r} : Becomes(Remove(E, r, lost))
         ELSE Becomes(E)
  BY DEF Expire, TimerOver
<1> HIDE DEF E, r
<1>3. CASE activeWs[r] = None /\ session[r] = timers[t].agent
  <2> DEFINE C == CancelPending(E, r)
  <2>1. PICK lost \in SUBSET {r} : Becomes(Drop(C, {r}, lost))
    BY <1>2, <1>3 DEF Remove
  <2>2. /\ Sound(C) /\ C.session = E.session /\ C.agents = E.agents /\ C.file = E.file
        /\ C.activeWs = E.activeWs /\ C.driver = E.driver /\ C.tasks = E.tasks
        /\ SameHistory(E, C)
    BY <1>1, CancelPendingSound, CancelPendingTyped DEF Sound
  <2> HIDE DEF C
  <2>3. Spares(E, C) /\ Keeps(E, C)
    BY <1>1, <2>2, SameKept DEF Sound
  <2>4. Spares(Registry, C) /\ Keeps(Registry, C)
    <3>1. Registry \in Registries /\ E \in Registries /\ C \in Registries
      BY <1>1, <2>2 DEF Sound, Inv
    <3>. QED BY <1>1, <2>3, <3>1, SparesKeepsTrans
  <2>5. {r} \in SUBSET Roles /\ lost \in SUBSET Roles
    BY <1>1
  <2>6. Mild
    BY <1>1, <1>3, <2>1, <2>2, <2>4, <2>5, DropMild
  <2>. QED BY <1>2, <2>6, MildStep DEF Inv, Typed
<1>4. CASE ~(activeWs[r] = None /\ session[r] = timers[t].agent)
  <2>1. Mild
    BY <1>1, <1>2, <1>4 DEF Mild
  <2>. QED BY <1>2, <2>1, MildStep DEF Inv, Typed
<1>. QED BY <1>3, <1>4

LEMMA CleanupOk ==
  ASSUME Inv, CleanupOld
  PROVE  Inv' /\ (MoodInv => MoodInv')
<1> DEFINE rs == Evicted(Registry)
<1>1. rs \in SUBSET Roles /\ \A r \in rs : Registry.activeWs[r] = None
  BY EvictedLoose
<1>2. /\ \E lost \in SUBSET rs : Becomes(Drop(Registry, rs, lost))
      /\ UNCHANGED <<queue, client, sent, done, latest, stopped>>
  BY DEF CleanupOld
<1> HIDE DEF rs
<1>3. PICK lost \in SUBSET rs : Becomes(Drop(Registry, rs, lost))
  BY <1>2
<1>4. lost \in SUBSET Roles
  BY <1>1
<1>5. Sound(Registry) /\ Spares(Registry, Registry) /\ Keeps(Registry, Registry)
  BY SameKept DEF Inv, Sound, SameHistory
<1>6. Mild
  BY <1>1, <1>3, <1>4, <1>5, DropMild
<1>. QED BY <1>2, <1>6, MildStep DEF Inv, Typed

LEMMA ShutdownDrops ==
  ASSUME Inv, Shutdown
  PROVE  \E E : \E lost \in SUBSET Roles :
           /\ Sound(E) /\ E.agents = agents /\ E.tasks = tasks
           /\ Keeps(Registry, E) /\ Becomes(Drop(E, Roles, lost))
<1> DEFINE pe == [r \in Roles |-> 0]
           ts == [t \in 1..Len(timers) |->
                    IF \E r \in Roles : pending[r] = t
                    THEN [timers[t] EXCEPT !.state = "cancelled"] ELSE timers[t]]
           E  == [Registry EXCEPT !.pending = pe, !.timers = ts]
<1>1. pe \in [Roles -> 0..MaxTimers]
  OBVIOUS
<1>2. ts \in Seq(TimerRec) /\ Len(ts) = Len(timers)
  <2>1. timers \in Seq(TimerRec) /\ Len(timers) \in Nat
    BY RegistryIs DEF Inv, Sound, Registries
  <2>2. \A t \in 1..Len(timers) : /\ timers[t] \in TimerRec
                                  /\ [timers[t] EXCEPT !.state = "cancelled"] \in TimerRec
    <3>. TAKE t \in 1..Len(timers)
    <3>1. timers[t] \in TimerRec
      BY <2>1
    <3>. QED BY <3>1, TimerField
  <2>. QED BY <2>1, <2>2
<1>3. PICK lost \in SUBSET Roles : Becomes(Drop(E, Roles, lost))
  BY DEF Shutdown
<1> HIDE DEF pe, ts
<1>4. /\ E \in Registries /\ E.session = session /\ E.agents = agents
      /\ E.activeWs = activeWs /\ E.driver = driver /\ E.tasks = tasks
      /\ E.timers = ts /\ E.file = file /\ SameHistory(Registry, E)
  BY <1>1, <1>2, RegistryIs DEF Inv, Sound, Registries, SameHistory
<1> HIDE DEF E
<1>5. Sound(E)
  BY <1>2, <1>4, RegistryIs DEF Inv, Sound, Sized, Tied, Serves, SameHistory
<1>6. Keeps(Registry, E)
  BY <1>4, RegistryIs, SameKept DEF Inv, Sound
<1>. QED BY <1>3, <1>4, <1>5, <1>6

LEMMA ShutdownOk ==
  ASSUME Inv, Shutdown
  PROVE  Inv' /\ (MoodInv => MoodInv')
<1>1. PICK E : \E lost \in SUBSET Roles :
        /\ Sound(E) /\ E.agents = agents /\ E.tasks = tasks
        /\ Keeps(Registry, E) /\ Becomes(Drop(E, Roles, lost))
  BY ShutdownDrops
<1>2. PICK lost \in SUBSET Roles : Becomes(Drop(E, Roles, lost))
  BY <1>1
<1> DEFINE D == Drop(E, Roles, lost)
<1>3. /\ Sound(D) /\ D.agents = agents /\ Keeps(E, D)
      /\ \A s \in Sockets : D.tasks[s].alive => tasks[s].alive
  <2> DEFINE rs == Roles
             F == Drop(E, rs, lost)
  <2>1. rs \in SUBSET Roles /\ D = F
    OBVIOUS
  <2> HIDE DEF rs, D
  <2>2. /\ Sound(F) /\ F.agents = E.agents /\ Keeps(E, F)
        /\ \A s \in Sockets : F.tasks[s].alive => E.tasks[s].alive
    BY <1>1, <2>1, DropSound
  <2>. QED BY <1>1, <2>1, <2>2
<1>4. Becomes(D)
  BY <1>2
<1> HIDE DEF D
<1>5. /\ UNCHANGED <<queue, client, sent, done, latest>> /\ stopped' \in BOOLEAN
      /\ \A r \in Roles : latest[r] # None => ~Live(latest[r])
  BY DEF Shutdown, Live, Inv, Typed, Clients
<1>6. Inv'
  <2>1. Sound(Registry)' /\ agents' = agents /\ tasks' = D.tasks
    BY <1>3, <1>4, BecomesFields
  <2>2. Len(agents) <= Len(agents')
    BY <2>1, RegistryIs DEF Inv, Sound, Registries
  <2>. QED BY <1>3, <1>5, <2>1, <2>2, RegistryStep
<1>7. Keeps(Registry, D)
  BY <1>1, <1>3, SparesKeepsTrans DEF Inv, Sound
<1>8. MoodInv => MoodInv'
  BY <1>3, <1>4, <1>5, <1>7, MoodStep DEF Calls
<1>. QED BY <1>6, <1>8

LEMMA CallOk ==
  ASSUME Inv, NEW s \in Sockets, DriverCall(s) \/ DriverSilent(s)
  PROVE  Inv' /\ (MoodInv => MoodInv')
<1>1. PICK v \in BOOLEAN : tasks' = [tasks EXCEPT ![s].calling = v]
  BY DEF DriverCall, DriverSilent
<1> DEFINE E == SetCalling(Registry, s, v)
<1>2. /\ UNCHANGED <<session, agents, file, activeWs, driver, pending, timers>>
      /\ UNCHANGED <<overtaken, unsaved, stillborn>>
      /\ UNCHANGED <<queue, client, sent, done, latest, stopped>>
  BY DEF DriverCall, DriverSilent
<1>3. Becomes(E)
  <2>1. Registry' = E
    BY <1>1, <1>2 DEF Registry, SetCalling
  <2>. QED BY <2>1 DEF Becomes, Registry
<1>4. /\ Sound(E) /\ E.session = Registry.session /\ E.agents = Registry.agents
      /\ E.file = Registry.file /\ E.activeWs = Registry.activeWs
      /\ E.driver = Registry.driver /\ SameHistory(Registry, E)
      /\ \A x \in Sockets : E.tasks[x].alive = Registry.tasks[x].alive
  BY CallingSound DEF Inv
<1> HIDE DEF E
<1>5. Spares(Registry, E) /\ Keeps(Registry, E)
  BY <1>4, SameKept DEF Inv, Sound
<1>6. Mild
  BY <1>3, <1>4, <1>5 DEF Mild
<1>. QED BY <1>2, <1>6, MildStep DEF Inv, Typed

SetAge(R, a, v) == [R EXCEPT !.agents[a].age = v]

LEMMA SetAgeSound ==
  ASSUME NEW R, Sound(R), NEW a, NEW v \in 0..Ttl
  PROVE  /\ Sound(SetAge(R, a, v))
         /\ SetAge(R, a, v).session = R.session
         /\ Len(SetAge(R, a, v).agents) = Len(R.agents)
         /\ SetAge(R, a, v).activeWs = R.activeWs
         /\ SetAge(R, a, v).driver = R.driver
         /\ SetAge(R, a, v).tasks = R.tasks
         /\ SameHistory(R, SetAge(R, a, v))
         /\ Spares(R, SetAge(R, a, v)) /\ Keeps(R, SetAge(R, a, v))
<1> DEFINE as == Aged(R.agents, a, v)
           E  == SetAge(R, a, v)
<1>1. /\ R.agents \in Seq(AgentRec) /\ R.file \in [Roles -> SUBSET (1..MaxMessages)]
      /\ R \in Registries
  BY DEF Sound, Registries
<1>2. /\ as \in Seq(AgentRec) /\ Len(as) = Len(R.agents)
      /\ \A m \in 1..Len(R.agents) : as[m].role = R.agents[m].role
  BY <1>1, AgentUpdate
<1>3. \A m \in 1..Len(R.agents) : as[m].mood = R.agents[m].mood
  <2> TAKE m \in 1..Len(R.agents)
  <2>1. R.agents[m] \in AgentRec
    BY <1>1
  <2>2. [R.agents[m] EXCEPT !.age = v].mood = R.agents[m].mood
    BY <2>1 DEF AgentRec
  <2>3. as[m] = IF m = a THEN [R.agents[m] EXCEPT !.age = v] ELSE R.agents[m]
    BY <1>1 DEF Aged
  <2>. QED BY <2>2, <2>3
<1>4. E = SetAgents(R, as, R.file)
  BY DEF SetAge, SetAgents, Aged, Sound, Registries
<1> HIDE DEF as, E
<1>5. /\ Sound(E) /\ E.session = R.session /\ E.agents = as /\ E.file = R.file
      /\ E.activeWs = R.activeWs /\ E.driver = R.driver /\ E.tasks = R.tasks
      /\ SameHistory(R, E)
  <2>1. PICK fi \in [Roles -> SUBSET (1..MaxMessages)] : fi = R.file
    BY <1>1
  <2>2. E = SetAgents(R, as, fi)
    BY <1>4, <2>1
  <2>3. PICK bs \in Seq(AgentRec) : bs = as
    BY <1>2
  <2>4. Len(bs) = Len(R.agents)
    BY <1>2, <2>3
  <2>5. \A m \in 1..Len(R.agents) : bs[m].role = R.agents[m].role
    BY <1>2, <2>3
  <2> DEFINE F == SetAgents(R, bs, fi)
  <2>6. /\ Sound(F) /\ F.session = R.session /\ F.agents = bs
        /\ F.file = fi
        /\ F.activeWs = R.activeWs /\ F.driver = R.driver /\ F.tasks = R.tasks
        /\ SameHistory(R, F)
    BY <2>4, <2>5, AgentsSound
  <2>. QED BY <2>1, <2>2, <2>3, <2>6
<1>6. Spares(R, E)
  BY <1>1, <1>2, <1>5, SameKept
<1>7. Keeps(R, E)
  <2>1. \A q \in Roles : R.session[q] # 0 => R.session[q] \in 1..Len(R.agents)
    BY DEF Sound, Tied
  <2>2. \A q \in Roles : MoodOf(E, q) = MoodOf(R, q)
    BY <1>3, <1>5, <2>1 DEF MoodOf
  <2>. QED BY <1>5, <2>2 DEF Keeps, SameHistory
<1>. QED BY <1>2, <1>5, <1>6, <1>7 DEF E

LEMMA GrowOldOk ==
  ASSUME Inv, NEW r \in Roles, GrowOld(r)
  PROVE  Inv' /\ (MoodInv => MoodInv')
<1> DEFINE a == session[r]
           E == SetAge(Registry, a, agents[a].age + 1)
<1>1. agents \in Seq(AgentRec) /\ a \in 1..Len(agents)
  BY RegistryIs DEF GrowOld, Inv, Sound, Registries, Tied
<1>2. agents[a] \in AgentRec
  BY <1>1
<1>3. agents[a].age + 1 \in 0..Ttl
  BY <1>2 DEF AgentRec, GrowOld
<1>4. /\ agents' = [agents EXCEPT ![a].age = agents[a].age + 1]
      /\ UNCHANGED <<session, file, activeWs, driver, tasks, pending, timers>>
      /\ UNCHANGED <<overtaken, unsaved, stillborn>>
      /\ UNCHANGED <<queue, client, sent, done, latest, stopped>>
  BY DEF GrowOld
<1>5. Becomes(E)
  <2>1. Registry' = E
    BY <1>4 DEF Registry, SetAge
  <2>. QED BY <2>1 DEF Becomes, Registry
<1>6. Sound(E) /\ Spares(Registry, E) /\ Keeps(Registry, E)
  BY <1>3, SetAgeSound DEF Inv
<1> HIDE DEF a, E
<1>7. Mild
  BY <1>5, <1>6 DEF Mild
<1>. QED BY <1>4, <1>7, MildStep DEF Inv, Typed

LEMMA SpeakOk ==
  ASSUME Inv, NEW s \in Sockets, DriverSpeak(s)
  PROVE  Inv' /\ (MoodInv => MoodInv')
<1> DEFINE a == tasks[s].agent
           C == SetCalling(Registry, s, FALSE)
           R == SetAge(C, a, 0)
<1>1. PICK r \in Roles : driver[r] = s
  BY RegistryIs DEF DriverSpeak, Inv, Sound, Tied
<1>2. s # None /\ agents[a].role = r
  BY <1>1, RegistryIs DEF Inv, Sound, Tied, Serves
<1>3. /\ Sound(C) /\ C.session = Registry.session /\ C.agents = Registry.agents
      /\ C.file = Registry.file /\ C.activeWs = Registry.activeWs
      /\ C.driver = Registry.driver /\ SameHistory(Registry, C)
      /\ \A x \in Sockets : C.tasks[x].alive = Registry.tasks[x].alive
  BY CallingSound DEF Inv
<1>4. /\ \E lost \in SUBSET Roles : Becomes(GetOrCreate(R, r, lost))
      /\ Room(r) /\ UNCHANGED <<queue, client, sent, done, latest, stopped>>
  <2>1. R = [Registry EXCEPT !.tasks[s].calling = FALSE, !.agents[a].age = 0]
    BY DEF SetAge, SetCalling, Registry
  <2>. QED BY <1>2, <2>1 DEF DriverSpeak
<1>5. PICK lost \in SUBSET Roles : Becomes(GetOrCreate(R, r, lost))
  BY <1>4
<1> HIDE DEF C
<1>6. Spares(Registry, C) /\ Keeps(Registry, C)
  BY <1>3, SameKept DEF Inv, Sound
<1>7. /\ Sound(R) /\ R.session = C.session /\ Len(R.agents) = Len(C.agents)
      /\ Spares(C, R) /\ Keeps(C, R)
  <2>1. 0 \in 0..Ttl
    OBVIOUS
  <2>. QED BY <1>3, <2>1, SetAgeSound
<1> HIDE DEF R, a
<1> DEFINE G == GetOrCreate(R, r, lost)
<1>8. Sound(G) /\ Spares(R, G) /\ Keeps(R, G)
  <2>1. R.session[r] = 0 => Len(R.agents) < MaxAgents
    BY <1>3, <1>4, <1>7, RegistryIs DEF Room
  <2>. QED BY <1>7, <2>1, GetOrCreateSound
<1>9. Becomes(G)
  BY <1>5
<1> HIDE DEF G
<1>10. Spares(Registry, G) /\ Keeps(Registry, G)
  <2>1. /\ Registry \in Registries /\ C \in Registries /\ R \in Registries
        /\ G \in Registries
    BY <1>3, <1>7, <1>8 DEF Inv, Sound
  <2>2. Spares(Registry, R) /\ Keeps(Registry, R)
    BY <1>6, <1>7, <2>1, SparesKeepsTrans
  <2>. QED BY <1>8, <2>1, <2>2, SparesKeepsTrans
<1>11. Mild
  BY <1>8, <1>9, <1>10 DEF Mild
<1>. QED BY <1>4, <1>11, MildStep DEF Inv, Typed

(* A client that neither asks before nor after the step moves.             *)
LEMMA IdleStep ==
  ASSUME Inv, NEW c \in Clients, NEW k \in ClientRec, ~Calls(c),
         k.place \notin {"waiting", "running"}, client' = [client EXCEPT ![c] = k],
         k.place = "looking" => k.role \in Roles,
         UNCHANGED <<queue, sent, done, stopped>>,
         latest' \in [Roles -> Sockets \cup {None}], Len(agents) <= Len(agents'),
         \A s \in Sockets \ {c} : tasks'[s].alive => tasks[s].alive,
         c \in Sockets => /\ k.place = "new" => k.role = None
                          /\ k.role = None => ~tasks'[c].alive,
         Sound(Registry)'
  PROVE  /\ Typed' /\ Asking' /\ Lined' /\ Fresh'
         /\ client'[c] = k /\ \A d \in Clients \ {c} : client'[d] = client[d]
         /\ \A d \in Clients : Calls(d)' => client'[d] = client[d]
<1>1. client \in [Clients -> ClientRec]
  BY DEF Inv, Typed
<1>2. /\ client' \in [Clients -> ClientRec] /\ client'[c] = k
      /\ \A d \in Clients \ {c} : client'[d] = client[d]
  BY <1>1
<1>3. \A d \in Clients : Calls(d)' => d # c /\ client'[d] = client[d]
  BY <1>2 DEF Calls
<1>4. Typed'
  BY <1>2 DEF Inv, Typed
<1>5. Asking'
  <2>1. Len(agents) \in Nat /\ Len(agents') \in Nat
    BY RegistryIs DEF Inv, Sound, Registries, Registry
  <2>. QED BY <1>2, <1>3, <2>1 DEF Inv, Asking, Calls
<1>6. Lined'
  <2>1. \A r \in Roles : \A i \in 1..Len(queue[r]) :
          queue[r][i] \in Clients /\ queue[r][i] # c
    BY DEF Inv, Typed, Lined, Calls
  <2>2. \A r \in Roles : \A i \in 1..Len(queue[r]) :
          client'[queue[r][i]] = client[queue[r][i]]
    BY <1>2, <2>1
  <2>. QED BY <1>3, <2>2 DEF Inv, Lined, Calls
<1>7. Fresh'
  BY <1>2 DEF Inv, Fresh, Clients
<1>. QED BY <1>2, <1>3, <1>4, <1>5, <1>6, <1>7

(* Nobody comes after the last tab, and it is served no less.              *)
LEMMA StillServed ==
  ASSUME Inv, latest' = latest,
         \A r \in Roles : latest[r] # None =>
           /\ client'[latest[r]].role = r
           /\ Live(latest[r])' => Live(latest[r])
           /\ Live(latest[r])' /\ Holds(r) => activeWs'[r] = activeWs[r] /\ Holds(r)'
  PROVE  Served'
BY DEF Inv, Served, Live

(* A client that asks nothing moves, and the registry with it.             *)
LEMMA IdleOk ==
  ASSUME Inv, NEW c \in Clients, NEW k \in ClientRec, ~Calls(c),
         k.place \notin {"new", "waiting", "running"}, client' = [client EXCEPT ![c] = k],
         k.place = "looking" => k.role \in Roles,
         UNCHANGED <<queue, sent, done, latest, stopped>>,
         c \in Sockets => /\ k.role = client[c].role
                          /\ k.place = "open" => client[c].place = "new",
         NEW R, Sound(R), Becomes(R), Keeps(Registry, R), Len(agents) <= Len(R.agents),
         \A s \in Sockets : R.tasks[s].alive => tasks[s].alive,
         \A r \in Roles : activeWs[r] # None => \/ R.activeWs[r] = activeWs[r]
                                                   /\ R.driver[r] = driver[r]
                                                \/ k.place = "closed" /\ activeWs[r] = c
  PROVE  Inv' /\ (MoodInv => MoodInv')
<1>1. /\ Sound(Registry)' /\ agents' = R.agents /\ activeWs' = R.activeWs
      /\ driver' = R.driver /\ tasks' = R.tasks
  BY BecomesFields
<1>2. c \in Sockets => /\ k.place = "new" => k.role = None
                       /\ k.role = None => ~tasks'[c].alive
  BY <1>1 DEF Inv, Fresh
<1>3. latest' \in [Roles -> Sockets \cup {None}]
  BY DEF Inv, Typed
<1>4. /\ Typed' /\ Asking' /\ Lined' /\ Fresh'
      /\ client'[c] = k /\ \A d \in Clients \ {c} : client'[d] = client[d]
      /\ \A d \in Clients : Calls(d)' => client'[d] = client[d]
  BY <1>1, <1>2, <1>3, IdleStep
<1>5. Served'
  <2> SUFFICES ASSUME NEW r \in Roles, latest[r] # None
               PROVE  /\ client'[latest[r]].role = r
                      /\ Live(latest[r])' => Live(latest[r])
                      /\ Live(latest[r])' /\ Holds(r) =>
                           activeWs'[r] = activeWs[r] /\ Holds(r)'
    BY StillServed
  <2>1. /\ latest[r] \in Sockets /\ latest[r] \in Clients /\ latest' = latest
        /\ client[latest[r]].role = r
        /\ Live(latest[r]) => activeWs[r] = latest[r] /\ Holds(r)
    BY DEF Inv, Typed, Served, Clients
  <2>2. CASE latest[r] = c
    <3>1. client[c].place # "new" /\ k.place # "open"
      BY <2>1, <2>2 DEF Inv, Fresh
    <3>. QED BY <1>4, <2>1, <2>2, <3>1 DEF Live
  <2>3. CASE latest[r] # c
    <3>1. client'[latest[r]] = client[latest[r]]
      BY <1>4, <2>1, <2>3
    <3>2. Live(latest[r])' => Live(latest[r]) /\ activeWs[r] # c
      BY <2>1, <2>3, <3>1 DEF Live
    <3>. QED BY <1>1, <2>1, <3>1, <3>2 DEF Holds
  <2>. QED BY <2>2, <2>3
<1>6. Inv'
  BY <1>1, <1>4, <1>5 DEF Inv
<1>7. MoodInv => MoodInv'
  BY <1>4, MoodStep
<1>. QED BY <1>6, <1>7

(* ... leaving the registry as it is.                                      *)
LEMMA IdleStays ==
  ASSUME Inv, NEW c \in Clients, NEW k \in ClientRec, ~Calls(c),
         k.place \notin {"new", "waiting", "running"}, client' = [client EXCEPT ![c] = k],
         k.place = "looking" => k.role \in Roles,
         UNCHANGED registry, UNCHANGED <<queue, sent, done, latest, stopped>>,
         c \in Sockets => /\ k.role = client[c].role
                          /\ k.place = "open" => client[c].place = "new"
  PROVE  Inv' /\ (MoodInv => MoodInv')
<1>1. Sound(Registry) /\ Registry \in Registries
  BY DEF Inv, Sound
<1>2. Becomes(Registry)
  BY RegistryIs DEF Becomes, registry
<1>3. Keeps(Registry, Registry)
  BY <1>1, SameKept DEF SameHistory
<1>4. Len(agents) \in Nat
  BY RegistryIs DEF Inv, Sound, Registries
<1>5. PICK R : R = Registry
  OBVIOUS
<1>6. Sound(R) /\ Becomes(R) /\ Keeps(Registry, R)
  BY <1>1, <1>2, <1>3, <1>5
<1>7. /\ Len(agents) <= Len(R.agents)
      /\ \A s \in Sockets : R.tasks[s].alive => tasks[s].alive
      /\ \A r \in Roles : R.activeWs[r] = activeWs[r] /\ R.driver[r] = driver[r]
  BY <1>4, <1>5, RegistryIs
<1>. QED BY <1>6, <1>7, IdleOk

LEMMA Placed ==
  ASSUME Inv, NEW c \in Clients, NEW p \in Places
  PROVE  /\ client[c] \in ClientRec
         /\ [client[c] EXCEPT !.place = p] \in ClientRec
         /\ [client[c] EXCEPT !.place = p].place = p
         /\ [client[c] EXCEPT !.place = p].role = client[c].role
<1>1. client[c] \in ClientRec
  BY DEF Inv, Typed
<1>. QED BY <1>1 DEF ClientRec

LEMMA ConnectOk ==
  ASSUME Inv, NEW s \in Sockets, Connect(s)
  PROVE  Inv' /\ (MoodInv => MoodInv')
<1> DEFINE k == [client[s] EXCEPT !.place = "open"]
<1>1. s \in Clients /\ client[s].place = "new" /\ client' = [client EXCEPT ![s] = k]
  BY DEF Clients, Connect
<1>2. k \in ClientRec /\ k.place = "open" /\ k.role = client[s].role
  BY <1>1, Placed DEF Places
<1>3. ~Calls(s) /\ UNCHANGED registry /\ UNCHANGED <<queue, sent, done, latest, stopped>>
  BY <1>1 DEF Calls, Connect
<1> HIDE DEF k
<1>. QED BY <1>1, <1>2, <1>3, IdleStays

(* GET requests: they ask for nothing that a session lock protects.        *)
LEMMA LookOk ==
  ASSUME Inv, NEW q \in Requests, NEW r \in Roles, Look(q, r)
  PROVE  Inv' /\ (MoodInv => MoodInv')
<1> DEFINE k == [client[q] EXCEPT !.place = "looking", !.role = r]
<1>1. /\ q \in Clients /\ q \notin Sockets /\ client[q].place = "new"
      /\ client' = [client EXCEPT ![q] = k]
  BY DEF Clients, Look
<1>2. k \in ClientRec /\ k.place = "looking" /\ k.role \in Roles
  <2>1. client[q] \in ClientRec
    BY <1>1 DEF Inv, Typed
  <2>. QED BY <2>1 DEF ClientRec, Places
<1>3. ~Calls(q) /\ UNCHANGED registry /\ UNCHANGED <<queue, sent, done, latest, stopped>>
  BY <1>1 DEF Calls, Look
<1> HIDE DEF k
<1>. QED BY <1>1, <1>2, <1>3, IdleStays

LEMMA FoundOk ==
  ASSUME Inv, NEW q \in Requests, Found(q)
  PROVE  Inv' /\ (MoodInv => MoodInv')
<1> DEFINE k == [client[q] EXCEPT !.place = "closed"]
           r == client[q].role
<1>1. /\ q \in Clients /\ q \notin Sockets /\ client[q].place = "looking"
      /\ client' = [client EXCEPT ![q] = k] /\ Room(r)
      /\ UNCHANGED <<queue, sent, done, latest, stopped>>
  BY DEF Clients, Found
<1>2. k \in ClientRec /\ k.place = "closed"
  BY <1>1, Placed DEF Places
<1>3. r \in Roles
  BY <1>1 DEF Inv, Asking
<1> HIDE DEF k
<1>4. PICK lost \in SUBSET Roles : Becomes(GetOrCreate(Registry, r, lost))
  BY DEF Found
<1>5. PICK R : R = Registry
  OBVIOUS
<1>6. PICK x \in Roles : x = r
  BY <1>3
<1> DEFINE G == GetOrCreate(R, x, lost)
<1>7. Sound(G) /\ Spares(R, G) /\ Keeps(R, G)
  <2>1. Sound(R) /\ (R.session[x] = 0 => Len(R.agents) < MaxAgents)
    BY <1>1, <1>5, <1>6, RegistryIs DEF Inv, Room
  <2>. QED BY <2>1, GetOrCreateSound
<1>8. Becomes(G)
  BY <1>4, <1>5, <1>6
<1> HIDE DEF G
<1>9. /\ Len(agents) <= Len(G.agents) /\ Keeps(Registry, G)
      /\ \A s \in Sockets : G.tasks[s].alive => tasks[s].alive
      /\ \A y \in Roles : activeWs[y] # None =>
           G.activeWs[y] = activeWs[y] /\ G.driver[y] = driver[y]
  BY <1>5, <1>7, RegistryIs DEF Spares
<1>10. ~Calls(q)
  BY <1>1 DEF Calls
<1>11. /\ k.place \notin {"new", "waiting", "running"}
       /\ k.place = "looking" => k.role \in Roles
       /\ q \in Sockets => /\ k.role = client[q].role
                           /\ k.place = "open" => client[q].place = "new"
  BY <1>1, <1>2
<1>12. \A y \in Roles : activeWs[y] # None =>
         \/ G.activeWs[y] = activeWs[y] /\ G.driver[y] = driver[y]
         \/ k.place = "closed" /\ activeWs[y] = q
  BY <1>9
<1>. QED BY <1>1, <1>2, <1>7, <1>8, <1>9, <1>10, <1>11, <1>12, IdleOk

LEMMA NotFoundOk ==
  ASSUME Inv, NEW q \in Requests, NotFound(q)
  PROVE  Inv' /\ (MoodInv => MoodInv')
<1> DEFINE k == [client[q] EXCEPT !.place = "closed"]
<1>1. /\ q \in Clients /\ q \notin Sockets /\ client[q].place = "looking"
      /\ client' = [client EXCEPT ![q] = k]
  BY DEF Clients, NotFound
<1>2. k \in ClientRec /\ k.place = "closed"
  BY <1>1, Placed DEF Places
<1>3. ~Calls(q) /\ UNCHANGED registry /\ UNCHANGED <<queue, sent, done, latest, stopped>>
  BY <1>1 DEF Calls, NotFound
<1> HIDE DEF k
<1>. QED BY <1>1, <1>2, <1>3, IdleStays

LEMMA DisconnectOk ==
  ASSUME Inv, NEW s \in Sockets, Disconnect(s)
  PROVE  Inv' /\ (MoodInv => MoodInv')
<1> DEFINE r == client[s].role
           k == [client[s] EXCEPT !.place = "closed"]
           R == [Registry EXCEPT !.activeWs[r] = None]
<1>1. /\ s \in Clients /\ client[s].place = "open" /\ ~Calls(s)
      /\ client' = [client EXCEPT ![s] = k]
      /\ UNCHANGED <<queue, sent, done, latest, stopped>>
  BY DEF Clients, Disconnect, Calls
<1>2. k \in ClientRec /\ k.place = "closed" /\ k.role = client[s].role
  BY <1>1, Placed DEF Places
<1> HIDE DEF k
<1>3. CASE r # None /\ activeWs[r] = s
  <2>1. Len(timers) < MaxTimers /\ Becomes(ScheduleRemove(R, r))
    BY <1>3 DEF Disconnect
  <2>2. r \in Roles
    <3>1. client[s] \in ClientRec
      BY <1>1 DEF Inv, Typed
    <3>. QED BY <1>3, <3>1 DEF ClientRec
  <2>3. /\ R \in Registries /\ R.session = session /\ R.agents = agents
        /\ R.file = file /\ R.driver = driver /\ R.tasks = tasks /\ R.timers = timers
        /\ R.activeWs = [activeWs EXCEPT ![r] = None] /\ SameHistory(Registry, R)
    <3>1. Registry \in Registries
      BY DEF Inv, Sound
    <3>. QED BY <2>2, <3>1, RegistryIs DEF Registries, SameHistory
  <2> HIDE DEF R
  <2>4. Sound(R)
    BY <2>3, RegistryIs DEF Inv, Sound, Sized, Tied, Serves, SameHistory
  <2>5. PICK x \in Roles : x = r
    BY <2>2
  <2> DEFINE E == ScheduleRemove(R, x)
  <2>6. /\ Sound(E) /\ E.session = R.session /\ E.agents = R.agents /\ E.file = R.file
        /\ E.activeWs = R.activeWs /\ E.driver = R.driver /\ E.tasks = R.tasks
        /\ SameHistory(R, E)
    BY <2>1, <2>3, <2>4, ScheduleRemoveSound
  <2>7. Becomes(E)
    BY <2>1, <2>5
  <2> HIDE DEF E
  <2>8. Keeps(Registry, E)
    <3>1. SameHistory(Registry, E)
      BY <2>3, <2>6 DEF SameHistory
    <3>. QED BY <2>3, <2>6, <3>1, SameKept, RegistryIs DEF Inv, Sound
  <2>9. /\ Len(agents) <= Len(E.agents)
        /\ \A y \in Sockets : E.tasks[y].alive => tasks[y].alive
    <3>1. Len(agents) \in Nat
      BY RegistryIs DEF Inv, Sound, Registries
    <3>. QED BY <2>3, <2>6, <3>1
  <2>10. \A y \in Roles : \/ E.activeWs[y] = activeWs[y] /\ E.driver[y] = driver[y]
                          \/ k.place = "closed" /\ activeWs[y] = s
    <3>1. activeWs \in [Roles -> Sockets \cup {None}]
      BY RegistryIs DEF Inv, Sound, Registries
    <3>. QED BY <1>2, <1>3, <2>3, <2>6, <3>1
  <2>. QED BY <1>1, <1>2, <2>6, <2>7, <2>8, <2>9, <2>10, IdleOk
<1>4. CASE ~(r # None /\ activeWs[r] = s)
  <2>1. UNCHANGED registry
    BY <1>4 DEF Disconnect
  <2>. QED BY <1>1, <1>2, <2>1, IdleStays
<1>. QED BY <1>3, <1>4

LEMMA InitFrameOk ==
  ASSUME Inv, NEW s \in Sockets, NEW r \in Roles, InitFrame(s, r)
  PROVE  Inv' /\ (MoodInv => MoodInv')
<1> DEFINE a == Got(Registry, r)
           k == [client[s] EXCEPT !.role = r]
<1>1. /\ s \in Clients /\ client[s].place = "open" /\ client[s].role = None
      /\ client' = [client EXCEPT ![s] = k] /\ ~Calls(s)
      /\ latest' = [latest EXCEPT ![r] = s]
      /\ UNCHANGED <<queue, sent, done, stopped>>
  BY DEF InitFrame, Clients, Calls
<1>2. PICK lost \in SUBSET Roles :
        Becomes(RegisterProactive(StartDriver(GetOrCreate(Registry, r, lost), s, a), r, s))
  BY DEF InitFrame, StartDriver
<1>3. k \in ClientRec /\ k.place = "open" /\ k.role = r /\ r # None
  <2>1. client[s] \in ClientRec
    BY <1>1 DEF Inv, Typed
  <2>. QED BY <1>1, <2>1 DEF ClientRec
<1> HIDE DEF k
<1> DEFINE G == GetOrCreate(Registry, r, lost)
           P == RegisterProactive(StartDriver(G, s, a), r, s)
<1>4. Sound(G) /\ Spares(Registry, G) /\ Keeps(Registry, G) /\ Serves(G, a, r)
  <2>1. Registry.session[r] = 0 => Len(Registry.agents) < MaxAgents
    BY RegistryIs DEF InitFrame, Room
  <2>2. Sound(Registry)
    BY DEF Inv
  <2>. QED BY <2>1, <2>2, GetOrCreateSound
<1> HIDE DEF a, G
<1>5. ~tasks[s].alive /\ ~G.tasks[s].alive
  BY <1>1, <1>4, RegistryIs DEF Inv, Fresh, Spares
<1>6. /\ Sound(P) /\ P.agents = G.agents /\ P.activeWs = [G.activeWs EXCEPT ![r] = s]
      /\ P.driver = [G.driver EXCEPT ![r] = s] /\ Keeps(G, P)
      /\ \A x \in Sockets \ {s} : P.tasks[x].alive => G.tasks[x].alive
  BY <1>4, <1>5, RegisterSound
<1>7. Becomes(P)
  BY <1>2 DEF G
<1> HIDE DEF P
<1>8. Keeps(Registry, P)
  <2>1. Registry \in Registries /\ G \in Registries /\ P \in Registries
    BY <1>4, <1>6 DEF Inv, Sound
  <2>. QED BY <1>4, <1>6, <2>1, SparesKeepsTrans
<1>9. /\ Sound(Registry)' /\ agents' = P.agents /\ activeWs' = P.activeWs
      /\ driver' = P.driver /\ tasks' = P.tasks
  BY <1>6, <1>7, BecomesFields
<1>10. /\ Len(agents) <= Len(agents')
       /\ \A x \in Sockets \ {s} : tasks'[x].alive => tasks[x].alive
  BY <1>4, <1>6, <1>9, RegistryIs DEF Spares
<1>11. latest' \in [Roles -> Sockets \cup {None}]
  BY <1>1 DEF Inv, Typed
<1>12. /\ Typed' /\ Asking' /\ Lined' /\ Fresh'
       /\ client'[s] = k /\ \A d \in Clients \ {s} : client'[d] = client[d]
       /\ \A d \in Clients : Calls(d)' => client'[d] = client[d]
  BY <1>1, <1>3, <1>9, <1>10, <1>11, IdleStep
<1>13. Served'
  <2> SUFFICES ASSUME NEW q \in Roles, latest'[q] # None
               PROVE  /\ client'[latest'[q]].role = q
                      /\ Live(latest[q])' => activeWs'[q] = latest'[q] /\ Holds(q)'
    BY DEF Served
  <2>1. /\ latest \in [Roles -> Sockets \cup {None}]
        /\ G.activeWs \in [Roles -> Sockets \cup {None}]
        /\ G.driver \in [Roles -> Sockets \cup {None}]
    BY <1>4 DEF Inv, Typed, Sound, Registries
  <2>2. CASE q = r
    <3>1. latest'[q] = s /\ activeWs'[q] = s /\ driver'[q] = s /\ s # None
      BY <1>1, <1>6, <1>9, <2>1, <2>2
    <3>. QED BY <1>3, <1>12, <2>2, <3>1 DEF Holds
  <2>3. CASE q # r
    <3>1. /\ latest'[q] = latest[q] /\ latest[q] \in Clients
          /\ activeWs'[q] = G.activeWs[q] /\ driver'[q] = G.driver[q]
      BY <1>1, <1>6, <1>9, <2>1, <2>3 DEF Clients
    <3>2. client[latest[q]].role = q /\ latest[q] # s
      BY <1>1, <3>1 DEF Inv, Served
    <3>3. client'[latest[q]] = client[latest[q]]
      BY <1>12, <3>1, <3>2
    <3>4. Live(latest[q])' => activeWs[q] = latest[q] /\ Holds(q)
      BY <3>1, <3>3 DEF Inv, Served, Live
    <3>5. activeWs[q] # None => G.activeWs[q] = activeWs[q] /\ G.driver[q] = driver[q]
      BY <1>4, RegistryIs DEF Spares
    <3>. QED BY <3>1, <3>2, <3>3, <3>4, <3>5 DEF Holds
  <2>. QED BY <2>2, <2>3
<1>14. Inv'
  BY <1>9, <1>12, <1>13 DEF Inv
<1>15. MoodInv => MoodInv'
  BY <1>1, <1>6, <1>7, <1>8, <1>12, MoodStep
<1>. QED BY <1>14, <1>15

(* A message that its agent did not stay in service for is one more call   *)
(* that overtakes the role.                                                *)
Overtaking(R, o) == [R EXCEPT !.overtaken = o]

LEMMA OvertakingSound ==
  ASSUME NEW R, Sound(R), NEW o \in SUBSET Roles, R.overtaken \subseteq o
  PROVE  LET E == Overtaking(R, o)
         IN  /\ Sound(E) /\ Keeps(R, E) /\ E.session = R.session /\ E.agents = R.agents
             /\ E.activeWs = R.activeWs /\ E.driver = R.driver /\ E.tasks = R.tasks
             /\ E.overtaken = o
<1> DEFINE E == Overtaking(R, o)
<1>1. /\ E \in Registries /\ E.session = R.session /\ E.agents = R.agents
      /\ E.file = R.file /\ E.activeWs = R.activeWs /\ E.driver = R.driver
      /\ E.tasks = R.tasks /\ E.timers = R.timers /\ E.stillborn = R.stillborn
      /\ E.unsaved = R.unsaved /\ E.overtaken = o
  BY DEF Sound, Registries, Overtaking
<1> HIDE DEF E
<1>2. Sound(E)
  BY <1>1 DEF Sound, Sized, Tied, Serves
<1>3. Keeps(R, E)
  BY <1>1 DEF Keeps, MoodOf
<1>. QED BY <1>1, <1>2, <1>3 DEF E

LEMMA SendMessageOk ==
  ASSUME Inv, NEW c \in Clients, NEW r \in Roles, SendMessage(c, r)
  PROVE  Inv' /\ (MoodInv => MoodInv')
<1> DEFINE a == Got(Registry, r)
           touched == c \in Sockets \/ queue[r] = << >>
           v(R) == IF touched THEN 0 ELSE R.agents[a].age
           over(R) == IF R.session[r] = a THEN R.overtaken ELSE R.overtaken \cup {r}
           E(R) == Overtaking(SetAge(R, a, v(R)), over(R))
           k == [place |-> IF queue[r] = << >> THEN "running" ELSE "waiting",
                 role |-> r, agent |-> a, msg |-> sent + 1]
<1>1. /\ client[c].place \in {"new", "open"}
      /\ c \in Sockets => client[c].place = "open" /\ client[c].role = r
      /\ client' = [client EXCEPT ![c] = k]
      /\ queue' = [queue EXCEPT ![r] = Append(queue[r], c)]
      /\ sent' = sent + 1 /\ sent < MaxMessages
      /\ UNCHANGED <<done, latest, stopped>>
  BY DEF SendMessage
<1>2. PICK lost \in SUBSET Roles : Becomes(E(GetOrCreate(Registry, r, lost)))
  <2>1. \A R : E(R) = [R EXCEPT !.agents[a].age = IF touched THEN 0 ELSE @,
                                !.overtaken = IF R.session[r] = a THEN @ ELSE @ \cup {r}]
    BY DEF SetAge, Overtaking
  <2> HIDE DEF E
  <2>. QED BY <2>1 DEF SendMessage
<1> DEFINE R == GetOrCreate(Registry, r, lost)
<1>3. Sound(R) /\ Spares(Registry, R) /\ Keeps(Registry, R) /\ Serves(R, a, r)
  <2>1. Registry.session[r] = 0 => Len(Registry.agents) < MaxAgents
    BY RegistryIs DEF SendMessage, Room
  <2>2. Sound(Registry)
    BY DEF Inv
  <2>. QED BY <2>1, <2>2, GetOrCreateSound
<1> HIDE DEF R
<1>4. /\ a \in 1..Len(R.agents) /\ a \in 0..MaxAgents /\ Len(R.agents) \in Nat
      /\ Len(agents) <= Len(R.agents)
      /\ v(R) \in 0..Ttl /\ over(R) \in SUBSET Roles /\ R.overtaken \subseteq over(R)
  <2>1. /\ a \in 1..Len(R.agents) /\ R.agents \in Seq(AgentRec)
        /\ R.overtaken \in SUBSET Roles /\ Len(R.agents) <= MaxAgents
    BY <1>3 DEF Serves, Sound, Sized, Registries
  <2>2. R.agents[a] \in AgentRec
    BY <2>1
  <2>3. Len(agents) <= Len(R.agents)
    BY <1>3, RegistryIs DEF Spares
  <2> HIDE DEF a
  <2>. QED BY <2>1, <2>2, <2>3 DEF AgentRec
<1> DEFINE y == v(R)
           o == over(R)
           A == SetAge(R, a, y)
           F == Overtaking(A, o)
<1>5. F.overtaken = o /\ (R.session[r] # a => r \in o) /\ Becomes(F)
  BY <1>2 DEF Overtaking, R
<1>6. y \in 0..Ttl /\ o \in SUBSET Roles /\ R.overtaken \subseteq o
  BY <1>4
<1> HIDE DEF a, v, over, y, o, E
<1>7. /\ Sound(A) /\ A.session = R.session /\ Len(A.agents) = Len(R.agents)
      /\ SameHistory(R, A) /\ Spares(R, A) /\ Keeps(R, A)
      /\ A.activeWs = R.activeWs /\ A.driver = R.driver /\ A.tasks = R.tasks
  BY <1>3, <1>6, SetAgeSound
<1> HIDE DEF A
<1>8. /\ Sound(F) /\ Keeps(A, F) /\ F.session = A.session /\ F.agents = A.agents
      /\ F.activeWs = A.activeWs /\ F.driver = A.driver /\ F.tasks = A.tasks
  <2>1. A.overtaken \subseteq o
    BY <1>6, <1>7 DEF SameHistory
  <2>. QED BY <1>6, <1>7, <2>1, OvertakingSound
<1> HIDE DEF F
<1>9. Keeps(Registry, F)
  <2>1. /\ Registry \in Registries /\ R \in Registries /\ A \in Registries
        /\ F \in Registries
    BY <1>3, <1>7, <1>8 DEF Inv, Sound
  <2>2. Keeps(Registry, A)
    BY <1>3, <1>7, <2>1, SparesKeepsTrans
  <2>. QED BY <1>8, <2>1, <2>2, SparesKeepsTrans
<1>10. /\ Sound(Registry)' /\ Len(agents') = Len(R.agents) /\ session' = R.session
       /\ overtaken' = o
       /\ \A q \in Roles : activeWs[q] # None =>
            activeWs'[q] = activeWs[q] /\ driver'[q] = driver[q]
       /\ \A s \in Sockets : tasks'[s].alive => tasks[s].alive
  <2>1. /\ Sound(Registry)' /\ session' = F.session /\ agents' = F.agents
        /\ activeWs' = F.activeWs /\ driver' = F.driver /\ tasks' = F.tasks
    BY <1>5, <1>8, BecomesFields
  <2>2. overtaken' = o
    BY <1>5 DEF Becomes
  <2>. QED BY <1>3, <1>7, <1>8, <2>1, <2>2, RegistryIs DEF Spares
<1>11. client \in [Clients -> ClientRec] /\ queue \in [Roles -> Seq(Clients)] /\ sent \in Nat
  BY DEF Inv, Typed
<1>12. /\ k \in ClientRec /\ k.role = r /\ k.agent = a /\ k.msg # 0
      /\ k.place = IF queue[r] = << >> THEN "running" ELSE "waiting"
  <2>1. sent + 1 \in 1..MaxMessages
    BY <1>1, <1>11
  <2>. QED BY <1>4, <2>1 DEF Places, ClientRec
<1> HIDE DEF k
<1>13. /\ client' \in [Clients -> ClientRec] /\ client'[c] = k
      /\ \A d \in Clients \ {c} : client'[d] = client[d]
  BY <1>1, <1>11, <1>12
<1>14. /\ queue' \in [Roles -> Seq(Clients)]
       /\ \A q \in Roles \ {r} : queue'[q] = queue[q]
       /\ queue'[r] = Append(queue[r], c)
  BY <1>1, <1>11
<1>15. Typed'
  <2>1. sent' \in 0..MaxMessages
    BY <1>1, <1>11
  <2>. QED BY <1>1, <1>13, <1>14, <2>1 DEF Inv, Typed
<1>16. Asking'
  <2>1. Len(agents) \in Nat
    BY RegistryIs DEF Inv, Sound, Registries
  <2>0. \A d \in Clients : client'[d].place = "looking" => client'[d].role \in Roles
    BY <1>12, <1>13 DEF Inv, Asking
  <2> SUFFICES ASSUME NEW d \in Clients, client'[d].place \in {"waiting", "running"}
               PROVE  /\ client'[d].agent \in 1..Len(agents') /\ client'[d].msg # 0
                      /\ client'[d].role \in Roles
    BY <2>0 DEF Asking
  <2>2. CASE d = c
    BY <1>4, <1>10, <1>12, <1>13, <2>2
  <2>3. CASE d # c
    <3>1. client'[d] = client[d]
      BY <1>13, <2>3
    <3>2. /\ client[d].agent \in 1..Len(agents) /\ client[d].msg # 0
          /\ client[d].role \in Roles
      BY <3>1 DEF Inv, Asking
    <3>. QED BY <1>4, <1>4, <1>10, <2>1, <3>1, <3>2
  <2>. QED BY <2>2, <2>3
<1>17. Lined'
  <2> DEFINE n == Len(queue[r])
  <2>1. n \in Nat /\ (n = 0 <=> queue[r] = << >>) /\ Len(queue'[r]) = n + 1
    BY <1>11, <1>14
  <2>2. /\ queue'[r][n + 1] = c
        /\ \A i \in 1..n : queue'[r][i] = queue[r][i]
    BY <1>11, <1>14
  <2>3. \A q \in Roles : \A i \in 1..Len(queue[q]) :
          /\ queue[q][i] \in Clients /\ queue[q][i] # c
          /\ client'[queue[q][i]] = client[queue[q][i]]
    <3>1. \A q \in Roles : \A i \in 1..Len(queue[q]) :
            queue[q][i] \in Clients /\ queue[q][i] # c
      BY <1>1, <1>11 DEF Inv, Lined
    <3>. QED BY <1>13, <3>1
  <2> HIDE DEF n
  <2>4. \A q \in Roles : \A i, j \in 1..Len(queue'[q]) :
          queue'[q][i] = queue'[q][j] => i = j
    <3> SUFFICES ASSUME NEW q \in Roles, NEW i \in 1..Len(queue'[q]),
                        NEW j \in 1..Len(queue'[q]), queue'[q][i] = queue'[q][j]
                 PROVE  i = j
      OBVIOUS
    <3>1. CASE q # r
      BY <1>14, <3>1 DEF Inv, Lined
    <3>2. CASE q = r
      <4>1. i \in 1..n \/ i = n + 1
        BY <2>1, <3>2
      <4>2. j \in 1..n \/ j = n + 1
        BY <2>1, <3>2
      <4>3. \A m \in 1..n : queue[r][m] # c
        BY <2>3 DEF n
      <4>4. \A l, m \in 1..n : queue[r][l] = queue[r][m] => l = m
        BY DEF Inv, Lined, n
      <4>. QED BY <2>2, <3>2, <4>1, <4>2, <4>3, <4>4
    <3>. QED BY <3>1, <3>2
  <2>5. \A q \in Roles : \A i \in 1..Len(queue'[q]) :
          /\ client'[queue'[q][i]].role = q
          /\ client'[queue'[q][i]].place = IF i = 1 THEN "running" ELSE "waiting"
    <3> SUFFICES ASSUME NEW q \in Roles, NEW i \in 1..Len(queue'[q])
                 PROVE  /\ client'[queue'[q][i]].role = q
                        /\ client'[queue'[q][i]].place =
                             IF i = 1 THEN "running" ELSE "waiting"
      OBVIOUS
    <3>1. CASE q # r
      BY <1>14, <2>3, <3>1 DEF Inv, Lined
    <3>2. CASE q = r /\ i = n + 1
      <4>1. client'[queue'[q][i]] = k
        BY <1>13, <2>2, <3>2
      <4>2. i = 1 <=> queue[r] = << >>
        BY <2>1, <3>2
      <4>. QED BY <1>12, <3>2, <4>1, <4>2
    <3>3. CASE q = r /\ i # n + 1
      <4>1. i \in 1..n
        BY <2>1, <3>3
      <4>2. client'[queue'[q][i]] = client[queue[r][i]]
        BY <2>2, <2>3, <3>3, <4>1 DEF n
      <4>. QED BY <3>3, <4>1, <4>2 DEF Inv, Lined, n
    <3>. QED BY <3>1, <3>2, <3>3
  <2>6. \A d \in Clients : client'[d].place = "running" =>
          \E i \in 1..Len(queue'[client'[d].role]) : queue'[client'[d].role][i] = d
    <3> SUFFICES ASSUME NEW d \in Clients, client'[d].place = "running"
                 PROVE  \E i \in 1..Len(queue'[client'[d].role]) :
                          queue'[client'[d].role][i] = d
      OBVIOUS
    <3>1. CASE d = c
      <4>1. client'[d].role = r
        BY <1>12, <1>13, <3>1
      <4>2. n + 1 \in 1..Len(queue'[r]) /\ queue'[r][n + 1] = d
        BY <2>1, <2>2, <3>1
      <4>. QED BY <4>1, <4>2
    <3>2. CASE d # c
      <4>1. client'[d] = client[d]
        BY <1>13, <3>2
      <4>2. client[d].role \in Roles
        BY <4>1 DEF Inv, Asking
      <4>3. PICK i \in 1..Len(queue[client[d].role]) : queue[client[d].role][i] = d
        BY <4>1 DEF Inv, Lined
      <4>4. CASE client[d].role # r
        BY <1>14, <4>1, <4>2, <4>3, <4>4
      <4>5. CASE client[d].role = r
        <5>1. i \in 1..n /\ i \in 1..Len(queue'[r])
          BY <2>1, <4>3, <4>5 DEF n
        <5>. QED BY <2>2, <4>1, <4>3, <4>5, <5>1
      <4>. QED BY <4>4, <4>5
    <3>. QED BY <3>1, <3>2
  <2>. QED BY <2>4, <2>5, <2>6 DEF Lined
<1>18. Fresh'
  <2> SUFFICES ASSUME NEW s \in Sockets
               PROVE  /\ client'[s].place = "new" => client'[s].role = None
                      /\ client'[s].role = None => ~tasks'[s].alive
    BY DEF Fresh
  <2>1. CASE s = c
    BY <1>12, <1>13, <2>1
  <2>2. CASE s # c
    BY <1>10, <1>13, <2>2 DEF Inv, Fresh, Clients
  <2>. QED BY <2>1, <2>2
<1>19. Served'
  <2> SUFFICES ASSUME NEW q \in Roles, latest'[q] # None
               PROVE  /\ client'[latest'[q]].role = q
                      /\ Live(latest[q])' => activeWs'[q] = latest'[q] /\ Holds(q)'
    BY DEF Served
  <2>1. /\ latest'[q] = latest[q] /\ latest[q] \in Sockets /\ latest[q] \in Clients
        /\ client[latest[q]].role = q
    BY <1>1 DEF Inv, Typed, Served, Clients
  <2>2. Live(latest[q]) => activeWs[q] = latest[q] /\ Holds(q)
    BY <2>1 DEF Inv, Served
  <2>3. Holds(q) => Holds(q)' /\ activeWs'[q] = activeWs[q]
    BY <1>10 DEF Holds
  <2>4. CASE latest[q] = c
    <3>1. q = r /\ Live(latest[q])
      BY <1>1, <2>1, <2>4 DEF Live
    <3>. QED BY <1>10, <1>12, <1>13, <2>1, <2>2, <2>3, <2>4, <3>1
  <2>5. CASE latest[q] # c
    <3>1. client'[latest[q]] = client[latest[q]]
      BY <1>13, <2>1, <2>5
    <3>2. Live(latest[q])' => Live(latest[q])
      BY <2>1, <3>1 DEF Live
    <3>. QED BY <1>10, <2>1, <2>2, <2>3, <3>1, <3>2
  <2>. QED BY <2>4, <2>5
<1>20. Inv'
  BY <1>10, <1>15, <1>16, <1>17, <1>18, <1>19 DEF Inv
<1>21. MoodInv => MoodInv'
  <2>1. ASSUME NEW d \in Clients, Calls(d)'
        PROVE  \/ client'[d] = client[d]
               \/ client'[d].role \in overtaken'
               \/ session'[client'[d].role] = client'[d].agent
    BY <1>5, <1>10, <1>12, <1>13
  <2>. QED BY <1>1, <1>5, <1>8, <1>9, <2>1, AskMoodStep
<1>. QED BY <1>20, <1>21

LEMMA SetAgentsIs ==
  ASSUME NEW R \in Registries, NEW as, NEW fi
  PROVE  SetAgents(R, as, fi) =
           [session |-> R.session, agents |-> as, file |-> fi, activeWs |-> R.activeWs,
            driver |-> R.driver, tasks |-> R.tasks, pending |-> R.pending,
            timers |-> R.timers, overtaken |-> R.overtaken, unsaved |-> R.unsaved,
            stillborn |-> R.stillborn]
<1>1. SetAgents(R, as, fi) \in
        [session : {R.session}, agents : {as}, file : {fi}, activeWs : {R.activeWs},
         driver : {R.driver}, tasks : {R.tasks}, pending : {R.pending},
         timers : {R.timers}, overtaken : {R.overtaken}, unsaved : {R.unsaved},
         stillborn : {R.stillborn}]
  BY DEF SetAgents, Registries
<1> HIDE DEF SetAgents
<1>. QED BY <1>1

AgentWith(x, m, ag) == [x EXCEPT !.mood = m, !.age = ag]

LEMMA AgentWithTyped ==
  ASSUME NEW x \in AgentRec, NEW m \in SUBSET (1..MaxMessages), NEW ag \in 0..Ttl
  PROVE  AgentWith(x, m, ag) \in AgentRec /\ AgentWith(x, m, ag).role = x.role
BY DEF AgentRec, AgentWith

(* The registry after an answer: one agent's mood, the ages of those whose *)
(* call begins or ends, and maybe the file.                                *)
LEMMA AnswerRegistry ==
  ASSUME Inv, NEW c \in Clients, Answer(c)
  PROVE  /\ Sound(Registry)' /\ Len(agents') = Len(agents)
         /\ UNCHANGED <<session, activeWs, driver, tasks>>
         /\ client[c].role \in Roles /\ client[c].msg \in 1..MaxMessages
<1> DEFINE r == client[c].role
           a == client[c].agent
           mood == agents[a].mood \cup {client[c].msg}
           busy == {a} \cup {client[d].agent : d \in NextInLine(r)}
           new(b) == [agents[b] EXCEPT !.mood = IF b = a THEN mood ELSE @,
                                       !.age = IF b \in busy THEN 0 ELSE @]
           as == [b \in 1..Len(agents) |-> new(b)]
<1>1. /\ client[c].place = "running"
      /\ agents' = as
      /\ file' = [file EXCEPT ![r] = mood] \/ file' = file
      /\ UNCHANGED <<session, activeWs, driver, tasks, pending, timers>>
      /\ UNCHANGED <<overtaken, unsaved, stillborn>>
  BY DEF Answer, AgentIds
<1>2. a \in 1..Len(agents) /\ r \in Roles /\ client[c].msg \in 1..MaxMessages
  <2>1. client[c].msg \in 0..MaxMessages
    BY DEF Inv, Typed, ClientRec
  <2>2. a \in 1..Len(agents) /\ client[c].msg # 0 /\ r \in Roles
    BY <1>1 DEF Inv, Asking
  <2>. QED BY <2>1, <2>2
<1>3. /\ agents \in Seq(AgentRec) /\ Len(agents) \in Nat
      /\ file \in [Roles -> SUBSET (1..MaxMessages)]
  BY RegistryIs DEF Inv, Sound, Registries
<1>4. \A b \in 1..Len(agents) : agents[b] \in AgentRec
  BY <1>3
<1>5. mood \in SUBSET (1..MaxMessages)
  BY <1>2, <1>4 DEF AgentRec
<1> HIDE DEF mood, busy, a, r
<1>6. \A b \in 1..Len(agents) : new(b) \in AgentRec /\ new(b).role = agents[b].role
  <2> TAKE b \in 1..Len(agents)
  <2> DEFINE old == agents[b]
  <2>1. old \in AgentRec
    BY <1>4
  <2> DEFINE m  == IF b = a THEN mood ELSE old.mood
             ag == IF b \in busy THEN 0 ELSE old.age
  <2>2. new(b) = AgentWith(old, m, ag)
    BY <2>1 DEF AgentWith, AgentRec
  <2>3. m \in SUBSET (1..MaxMessages) /\ ag \in 0..Ttl
    <3> HIDE DEF old
    <3>. QED BY <1>5, <2>1 DEF AgentRec
  <2> HIDE DEF new, old, m, ag
  <2>4. new(b) \in AgentRec /\ new(b).role = old.role
    BY <2>1, <2>2, <2>3, AgentWithTyped
  <2>. QED BY <2>4 DEF old
<1> HIDE DEF new
<1>7. /\ as \in Seq(AgentRec) /\ Len(as) = Len(agents)
      /\ \A b \in 1..Len(agents) : as[b].role = agents[b].role
  BY <1>3, <1>6
<1> HIDE DEF as
<1>8. file' \in [Roles -> SUBSET (1..MaxMessages)]
  BY <1>1, <1>3, <1>5
<1>9. Registry' = SetAgents(Registry, as, file')
  <2>1. /\ agents' = as /\ session' = session /\ activeWs' = activeWs
        /\ driver' = driver /\ tasks' = tasks /\ pending' = pending /\ timers' = timers
        /\ overtaken' = overtaken /\ unsaved' = unsaved /\ stillborn' = stillborn
    BY <1>1
  <2>2. SetAgents(Registry, as, file') =
          [session |-> session, agents |-> as, file |-> file', activeWs |-> activeWs,
           driver |-> driver, tasks |-> tasks, pending |-> pending, timers |-> timers,
           overtaken |-> overtaken, unsaved |-> unsaved, stillborn |-> stillborn]
    BY SetAgentsIs, RegistryIs DEF Inv, Sound
  <2>. QED BY <2>1, <2>2 DEF Registry
<1>10. Sound(SetAgents(Registry, as, file'))
  BY <1>7, <1>8, AgentsSound, RegistryIs DEF Inv
<1>. QED BY <1>1, <1>2, <1>7, <1>9, <1>10 DEF r

LEMMA AnswerOk ==
  ASSUME Inv, NEW c \in Clients, Answer(c)
  PROVE  Inv'
<1> DEFINE r == client[c].role
           next == NextInLine(r)
           p == IF c \in Sockets THEN "open" ELSE "closed"
           over == [client[c] EXCEPT !.place = p, !.agent = 0, !.msg = 0]
           q == queue[r]
<1>1. /\ client[c].place = "running"
      /\ done' = [done EXCEPT ![r] = @ \cup {client[c].msg}]
      /\ queue' = [queue EXCEPT ![r] = Tail(q)]
      /\ client' = [d \in Clients |->
             IF d = c THEN over
             ELSE IF d \in next THEN [client[d] EXCEPT !.place = "running"] ELSE client[d]]
      /\ UNCHANGED <<sent, latest, stopped>>
  BY DEF Answer
<1>2. /\ Sound(Registry)' /\ Len(agents') = Len(agents)
      /\ UNCHANGED <<session, activeWs, driver, tasks>>
      /\ r \in Roles /\ client[c].msg \in 1..MaxMessages
  BY AnswerRegistry
<1>3. /\ client \in [Clients -> ClientRec] /\ queue \in [Roles -> Seq(Clients)]
      /\ done \in [Roles -> SUBSET (1..MaxMessages)]
  BY DEF Inv, Typed
<1>4. /\ q \in Seq(Clients) /\ Len(q) \in Nat
      /\ \A i \in 1..Len(q) : q[i] \in Clients
      /\ \A i, j \in 1..Len(q) : q[i] = q[j] => i = j
      /\ \A i \in 1..Len(q) : /\ client[q[i]].role = r
                              /\ client[q[i]].place = IF i = 1 THEN "running" ELSE "waiting"
  BY <1>2, <1>3 DEF Inv, Lined
<1>5. Len(q) >= 1 /\ q[1] = c
  <2>1. PICK i \in 1..Len(q) : q[i] = c
    BY <1>1 DEF Inv, Lined
  <2>2. i = 1
    BY <1>1, <1>4, <2>1
  <2>. QED BY <1>4, <2>1, <2>2
<1>6. /\ Tail(q) \in Seq(Clients) /\ Len(Tail(q)) = Len(q) - 1
      /\ \A i \in 1..Len(q) - 1 : Tail(q)[i] = q[i + 1]
  BY <1>4, <1>5
<1>7. /\ next \subseteq Clients \ {c}
      /\ \A d \in next : client[d].role = r
      /\ \A i \in 1..Len(q) : q[i] \in next <=> i = 2
  BY <1>4, <1>5 DEF NextInLine
<1> HIDE DEF next, q
<1>8. /\ over \in ClientRec /\ over.place = p /\ over.role = r
  <2>1. \A x \in ClientRec : /\ [[[x EXCEPT !.place = p] EXCEPT !.agent = 0] EXCEPT !.msg = 0] \in ClientRec
                      /\ [x EXCEPT !.place = p, !.agent = 0, !.msg = 0].place = p
                      /\ [x EXCEPT !.place = p, !.agent = 0, !.msg = 0].role = x.role
    <3>1. p \in Places
      BY DEF Places
    <3> HIDE DEF p
    <3>2. \A x \in ClientRec : [x EXCEPT !.place = p] \in ClientRec
      BY <3>1 DEF ClientRec
    <3>3. \A x \in ClientRec : [x EXCEPT !.agent = 0] \in ClientRec /\ [x EXCEPT !.msg = 0] \in ClientRec
      BY DEF ClientRec
    <3>4. \A x \in ClientRec : /\ [x EXCEPT !.place = p, !.agent = 0, !.msg = 0].place = p
                        /\ [x EXCEPT !.place = p, !.agent = 0, !.msg = 0].role = x.role
      BY DEF ClientRec
    <3>. QED BY <3>2, <3>3, <3>4
  <2>2. client[c] \in ClientRec
    BY <1>3
  <2> HIDE DEF p
  <2>. QED BY <2>1, <2>2
<1>9. \A d \in Clients : LET n == [client[d] EXCEPT !.place = "running"]
                         IN n \in ClientRec /\ n.place = "running" /\ n.role = client[d].role
                            /\ n.agent = client[d].agent /\ n.msg = client[d].msg
  <2>1. \A x \in ClientRec : LET n == [x EXCEPT !.place = "running"]
                      IN n \in ClientRec /\ n.place = "running" /\ n.role = x.role
                         /\ n.agent = x.agent /\ n.msg = x.msg
    BY DEF Places, ClientRec
  <2>. QED BY <1>3, <2>1
<1> HIDE DEF over
<1>10. /\ client' \in [Clients -> ClientRec] /\ client'[c] = over
       /\ \A d \in Clients \ {c} :
            /\ d \notin next => client'[d] = client[d]
            /\ d \in next => /\ client'[d].place = "running"
                             /\ client'[d].role = client[d].role
                             /\ client'[d].agent = client[d].agent
                             /\ client'[d].msg = client[d].msg
  BY <1>1, <1>3, <1>8, <1>9
<1>11. /\ queue' \in [Roles -> Seq(Clients)] /\ queue'[r] = Tail(q)
       /\ \A x \in Roles \ {r} : queue'[x] = queue[x]
  BY <1>1, <1>2, <1>3, <1>6
<1>12. \A d \in next : client[d].place = "waiting"
  BY <1>4, <1>5 DEF next, q, NextInLine
<1>13. \A d \in Clients : client'[d].role = client[d].role
  BY <1>8, <1>10
<1>14. Typed'
  <2>1. done' \in [Roles -> SUBSET (1..MaxMessages)]
    BY <1>1, <1>2, <1>3
  <2>. QED BY <1>1, <1>10, <1>11, <2>1 DEF Inv, Typed
<1>15. p \notin {"looking", "waiting", "running", "new"}
  OBVIOUS
<1>16. Asking'
  <2>0. \A d \in Clients : client'[d].place = "looking" => client'[d].role \in Roles
    BY <1>8, <1>10, <1>13, <1>15 DEF Inv, Asking
  <2> SUFFICES ASSUME NEW d \in Clients, client'[d].place \in {"waiting", "running"}
               PROVE  /\ client'[d].agent \in 1..Len(agents') /\ client'[d].msg # 0
                      /\ client'[d].role \in Roles
    BY <2>0 DEF Asking
  <2>1. d # c
    BY <1>8, <1>10, <1>15
  <2>2. /\ client'[d].agent = client[d].agent /\ client'[d].msg = client[d].msg
        /\ client[d].place \in {"waiting", "running"}
    BY <1>10, <1>12, <2>1
  <2>. QED BY <1>2, <1>13, <2>2 DEF Inv, Asking
<1>17. Lined'
  <2>1. \A x \in Roles : \A i, j \in 1..Len(queue'[x]) :
          queue'[x][i] = queue'[x][j] => i = j
    <3> SUFFICES ASSUME NEW x \in Roles, NEW i \in 1..Len(queue'[x]),
                        NEW j \in 1..Len(queue'[x]), queue'[x][i] = queue'[x][j]
                 PROVE  i = j
      OBVIOUS
    <3>1. CASE x # r
      BY <1>11, <3>1 DEF Inv, Lined
    <3>2. CASE x = r
      <4>1. i \in 1..Len(q) - 1 /\ j \in 1..Len(q) - 1
        BY <1>6, <1>11, <3>2
      <4>2. q[i + 1] = q[j + 1]
        BY <1>6, <1>11, <3>2, <4>1
      <4>3. i + 1 \in 1..Len(q) /\ j + 1 \in 1..Len(q)
        BY <1>4, <4>1
      <4>4. i + 1 = j + 1
        BY <1>4, <4>2, <4>3
      <4>. QED BY <1>4, <4>1, <4>4
    <3>. QED BY <3>1, <3>2
  <2>2. \A x \in Roles : \A i \in 1..Len(queue'[x]) :
          /\ client'[queue'[x][i]].role = x
          /\ client'[queue'[x][i]].place = IF i = 1 THEN "running" ELSE "waiting"
    <3> SUFFICES ASSUME NEW x \in Roles, NEW i \in 1..Len(queue'[x])
                 PROVE  /\ client'[queue'[x][i]].role = x
                        /\ client'[queue'[x][i]].place =
                             IF i = 1 THEN "running" ELSE "waiting"
      OBVIOUS
    <3>1. CASE x # r
      <4>1. /\ queue'[x] = queue[x] /\ queue[x][i] \in Clients
            /\ client[queue[x][i]].role = x
            /\ client[queue[x][i]].place = IF i = 1 THEN "running" ELSE "waiting"
        BY <1>3, <1>11, <3>1 DEF Inv, Lined
      <4>2. queue[x][i] # c /\ queue[x][i] \notin next
        BY <1>7, <3>1, <4>1
      <4>. QED BY <1>10, <4>1, <4>2
    <3>2. CASE x = r
      <4>1. i \in 1..Len(q) - 1 /\ queue'[x][i] = q[i + 1]
        BY <1>6, <1>11, <3>2
      <4>2. i + 1 \in 1..Len(q) /\ i + 1 # 1 /\ (i + 1 = 2 <=> i = 1)
        BY <1>4, <4>1
      <4>3. /\ q[i + 1] \in Clients /\ q[i + 1] # c /\ client[q[i + 1]].role = r
            /\ client[q[i + 1]].place = "waiting" /\ (q[i + 1] \in next <=> i = 1)
        <5>1. 1 \in 1..Len(q)
          BY <1>4, <1>5
        <5>. QED BY <1>4, <1>5, <1>7, <4>2, <5>1
      <4>. QED BY <1>10, <1>13, <3>2, <4>1, <4>3
    <3>. QED BY <3>1, <3>2
  <2>3. \A d \in Clients : client'[d].place = "running" =>
          \E i \in 1..Len(queue'[client'[d].role]) : queue'[client'[d].role][i] = d
    <3> SUFFICES ASSUME NEW d \in Clients, client'[d].place = "running"
                 PROVE  \E i \in 1..Len(queue'[client[d].role]) :
                          queue'[client[d].role][i] = d
      BY <1>13
    <3>1. d # c
      BY <1>8, <1>10, <1>15
    <3>2. CASE d \in next
      <4>1. Len(q) > 1 /\ d = q[2] /\ client[d].role = r
        BY <1>7, <3>2 DEF next, q, NextInLine
      <4>2. 1 \in 1..Len(q) - 1
        BY <1>4, <4>1
      <4>3. 1 \in 1..Len(queue'[r]) /\ queue'[r][1] = d
        BY <1>6, <1>11, <4>1, <4>2
      <4>. QED BY <4>1, <4>3
    <3>3. CASE d \notin next
      <4>1. client[d].place = "running" /\ client[d].role \in Roles
        BY <1>10, <3>1, <3>3 DEF Inv, Asking
      <4>2. PICK i \in 1..Len(queue[client[d].role]) : queue[client[d].role][i] = d
        BY <4>1 DEF Inv, Lined
      <4>3. client[d].role # r
        <5>1. SUFFICES ASSUME client[d].role = r PROVE FALSE
          OBVIOUS
        <5>2. i \in 1..Len(q) /\ q[i] = d
          BY <4>2, <5>1 DEF q
        <5>3. i = 1
          BY <1>4, <4>1, <5>2
        <5>. QED BY <1>5, <3>1, <5>2, <5>3
      <4>. QED BY <1>11, <4>1, <4>2, <4>3
    <3>. QED BY <3>2, <3>3
  <2>. QED BY <2>1, <2>2, <2>3 DEF Lined
<1>18. Fresh'
  <2> SUFFICES ASSUME NEW s \in Sockets
               PROVE  /\ client'[s].place = "new" => client'[s].role = None
                      /\ client'[s].role = None => ~tasks'[s].alive
    BY DEF Fresh
  <2>1. client'[s].place = "new" => client[s].place = "new"
    BY <1>8, <1>10, <1>15 DEF Clients
  <2>. QED BY <1>2, <1>13, <2>1 DEF Inv, Fresh, Clients
<1>19. Served'
  <2> SUFFICES ASSUME NEW x \in Roles, latest'[x] # None
               PROVE  /\ client'[latest'[x]].role = x
                      /\ Live(latest[x])' => activeWs'[x] = latest'[x] /\ Holds(x)'
    BY DEF Served
  <2>1. /\ latest'[x] = latest[x] /\ latest[x] \in Clients
        /\ client[latest[x]].role = x
        /\ Live(latest[x]) => activeWs[x] = latest[x] /\ Holds(x)
    BY <1>1 DEF Inv, Typed, Served, Clients
  <2>2. Live(latest[x])' => Live(latest[x])
    BY <1>1, <1>10, <1>12, <2>1 DEF Live
  <2>3. Holds(x) => Holds(x)'
    BY <1>2 DEF Holds
  <2>. QED BY <1>2, <1>13, <2>1, <2>2, <2>3
<1>. QED BY <1>2, <1>14, <1>16, <1>17, <1>18, <1>19 DEF Inv
(* Only the agent that answered has moved, and until its role is overtaken *)
(* it is the one in service.                                               *)
LEMMA AnswerMoods ==
  ASSUME Inv, MoodInv, NEW c \in Clients, Answer(c)
  PROVE  MoodInv'
<1> DEFINE r == client[c].role
           a == client[c].agent
           m == client[c].msg
           mood == agents[a].mood \cup {m}
           busy == {a} \cup {client[d].agent : d \in NextInLine(r)}
           new(b) == [agents[b] EXCEPT !.mood = IF b = a THEN mood ELSE @,
                                       !.age = IF b \in busy THEN 0 ELSE @]
<1>1. /\ client[c].place = "running"
      /\ agents' = [b \in 1..Len(agents) |-> new(b)]
      /\ file' = [file EXCEPT ![r] = mood] \/ file' = file
      /\ done' = [done EXCEPT ![r] = @ \cup {m}]
      /\ UNCHANGED <<session, overtaken, unsaved>>
      /\ client' = [d \in Clients |->
             IF d = c
             THEN [client[c] EXCEPT
                     !.place = IF c \in Sockets THEN "open" ELSE "closed",
                     !.agent = 0, !.msg = 0]
             ELSE IF d \in NextInLine(r) THEN [client[d] EXCEPT !.place = "running"]
                  ELSE client[d]]
  BY DEF Answer, AgentIds
<1>2. a \in 1..Len(agents) /\ r \in Roles
  BY <1>1 DEF Inv, Asking
<1>3. /\ agents \in Seq(AgentRec)
      /\ file \in [Roles -> SUBSET (1..MaxMessages)]
      /\ done \in [Roles -> SUBSET (1..MaxMessages)]
      /\ \A q \in Roles : session[q] # 0 => session[q] \in 1..Len(agents)
  BY RegistryIs DEF Inv, Sound, Registries, Tied, Typed
<1>4. \A b \in 1..Len(agents) :
        agents'[b].mood = IF b = a THEN mood ELSE agents[b].mood
  <2> TAKE b \in 1..Len(agents)
  <2>1. agents[b] \in AgentRec
    BY <1>3
  <2>2. new(b).mood = IF b = a THEN mood ELSE agents[b].mood
    <3> HIDE DEF mood, busy, a
    <3>. QED BY <2>1 DEF AgentRec
  <2>3. agents'[b] = new(b)
    BY <1>1
  <2>. QED BY <2>2, <2>3
<1>5. r \notin overtaken => session[r] = a
  BY <1>1 DEF MoodInv, Calls
<1>6. ASSUME NEW q \in Roles \ (overtaken' \cup unsaved')
      PROVE  done'[q] \subseteq MoodOf(Registry, q)'
  <2>1. done[q] \subseteq MoodOf(Registry, q) /\ session'[q] = session[q] /\ q \notin overtaken
    BY <1>1, <1>6 DEF MoodInv
  <2>2. MoodOf(Registry, q) = IF session[q] # 0 THEN agents[session[q]].mood ELSE file[q]
    BY RegistryIs DEF MoodOf
  <2>3. MoodOf(Registry, q)' =
          IF session[q] # 0 THEN agents'[session[q]].mood ELSE file'[q]
    BY <2>1 DEF MoodOf, Registry
  <2>4. CASE q = r
    <3>1. session[q] = a /\ a # 0 /\ done'[q] = done[q] \cup {m}
      <4>1. session[q] = a /\ a # 0
        BY <1>2, <1>5, <2>1, <2>4
      <4>2. done'[q] = done[q] \cup {m}
        BY <1>1, <1>3, <2>4
      <4>. QED BY <4>1, <4>2
    <3>2. agents'[a].mood = agents[a].mood \cup {m}
      BY <1>2, <1>4
    <3> HIDE DEF a, m
    <3>. QED BY <2>1, <2>2, <2>3, <3>1, <3>2
  <2>5. CASE q # r
    <3>1. done'[q] = done[q] /\ file'[q] = file[q]
      BY <1>1, <1>2, <1>3, <2>5
    <3>2. session[q] # 0 => agents[session[q]].mood \subseteq agents'[session[q]].mood
      BY <1>3, <1>4
    <3>. QED BY <2>1, <2>2, <2>3, <3>1, <3>2
  <2>. QED BY <2>4, <2>5
<1>7. ASSUME NEW d \in Clients, Calls(d)', client'[d].role \notin overtaken'
      PROVE  session'[client'[d].role] = client'[d].agent
  <2>1. \A x \in Clients : LET n == [client[x] EXCEPT !.place = "running"]
                           IN n.role = client[x].role /\ n.agent = client[x].agent
    BY DEF Inv, Typed
  <2>2. [client[c] EXCEPT !.place = IF c \in Sockets THEN "open" ELSE "closed",
                          !.agent = 0, !.msg = 0].place \notin {"waiting", "running"}
    BY DEF Inv, Typed
  <2>3. d # c
    BY <1>1, <1>7, <2>2 DEF Calls
  <2>4. NextInLine(r) \subseteq {x \in Clients : client[x].place = "waiting"}
    <3>1. queue[r] \in Seq(Clients)
      BY <1>2 DEF Inv, Typed
    <3>2. \A i \in 1..Len(queue[r]) :
            client[queue[r][i]].place = IF i = 1 THEN "running" ELSE "waiting"
      BY <1>2 DEF Inv, Lined
    <3> HIDE DEF r
    <3>. QED BY <3>1, <3>2 DEF NextInLine
  <2>5. client'[d].role = client[d].role /\ client'[d].agent = client[d].agent
    BY <1>1, <2>1, <2>3
  <2>6. Calls(d)
    BY <1>1, <1>7, <2>3, <2>4 DEF Calls
  <2>7. session[client[d].role] = client[d].agent
    <3>1. client[d].role \notin overtaken
      <4>1. overtaken' = overtaken
        BY DEF Answer
      <4>. QED BY <1>7, <2>5, <4>1
    <3>. QED BY <2>6, <3>1 DEF MoodInv
  <2>. QED BY <1>1, <2>5, <2>7
<1>. QED BY <1>6, <1>7 DEF MoodInv
-----------------------------------------------------------------------------
LEMMA NextOk ==
  ASSUME Inv, [Next]_vars
  PROVE  Inv' /\ (MoodInv => MoodInv')
<1>1. CASE UNCHANGED vars
  <2>1. UNCHANGED registry /\ UNCHANGED <<queue, client, sent, done, latest, stopped>>
    BY <1>1 DEF vars, registry
  <2>2. stopped' \in BOOLEAN
    BY <2>1 DEF Inv, Typed
  <2>. QED BY <2>1, <2>2, StayMild, MildStep
<1>2. CASE \E s \in Sockets : Connect(s) \/ Disconnect(s) \/ Driving(s)
  BY <1>2, ConnectOk, DisconnectOk, CallOk, SpeakOk DEF Driving
<1>3. CASE \E s \in Sockets, r \in Roles : InitFrame(s, r)
  BY <1>3, InitFrameOk
<1>4. CASE \E c \in Clients, r \in Roles : SendMessage(c, r)
  BY <1>4, SendMessageOk
<1>5. CASE \E q \in Requests, r \in Roles : Look(q, r)
  BY <1>5, LookOk
<1>6. CASE \E q \in Requests : Found(q) \/ NotFound(q)
  BY <1>6, FoundOk, NotFoundOk
<1>7. CASE \E c \in Clients : Answer(c)
  BY <1>7, AnswerOk, AnswerMoods
<1>8. CASE \E t \in 1..MaxTimers : Fire(t)
  <2>1. PICK t \in 1..MaxTimers : Fire(t)
    BY <1>8
  <2>2. t \in 1..Len(timers)
    BY <2>1, RegistryIs DEF Fire, Inv, Sound, Registries
  <2>. QED BY <2>1, <2>2, ExpireOk, UnwindOk DEF Fire
<1>9. CASE \E r \in Roles : GrowOld(r)
  BY <1>9, GrowOldOk
<1>10. CASE CleanupOld
  BY <1>10, CleanupOk
<1>11. CASE Shutdown
  BY <1>11, ShutdownOk
<1>. QED
  BY <1>1, <1>2, <1>3, <1>4, <1>5, <1>6, <1>7, <1>8, <1>9, <1>10, <1>11 DEF Next

LEMMA Invariant == Spec => []Inv
<1>1. Inv /\ [Next]_vars => Inv'
  BY NextOk
<1>. QED BY <1>1, InitOk, PTL DEF Spec

(* Every table of the session manager, every client and every line for a   *)
(* lock keeps its type.                                                    *)
THEOREM SessionTypes == Spec => []TypeOK
<1>1. Inv => TypeOK
  <2> SUFFICES ASSUME Inv PROVE TypeOK
    OBVIOUS
  <2>1. /\ session \in [Roles -> 0..MaxAgents] /\ agents \in Seq(AgentRec)
        /\ file \in [Roles -> SUBSET (1..MaxMessages)]
        /\ activeWs \in [Roles -> Sockets \cup {None}]
        /\ driver \in [Roles -> Sockets \cup {None}]
        /\ tasks \in [Sockets -> TaskRec] /\ pending \in [Roles -> 0..MaxTimers]
        /\ timers \in Seq(TimerRec)
        /\ overtaken \subseteq Roles /\ unsaved \subseteq Roles
        /\ stillborn \subseteq 1..MaxAgents
        /\ Len(agents) <= MaxAgents /\ Len(timers) <= MaxTimers
    BY RegistryIs DEF Inv, Sound, Sized, Registries
  <2>2. \A a \in AgentIds : agents[a] \in AgentRec
    BY <2>1 DEF AgentIds
  <2>3. \A t \in 1..Len(timers) : timers[t] \in TimerRec
    BY <2>1
  <2>. QED
    BY <2>1, <2>2, <2>3 DEF TypeOK, Inv, Typed, AgentRec, TaskRec, TimerRec, ClientRec
<1>. QED BY <1>1, Invariant, PTL

(* No role has two drivers: register_proactive cancels the one before. And *)
(* a driver lives no longer than the session it was started for, as remove,*)
(* cleanup_old and shutdown cancel it with the session; only an agent that *)
(* get_or_create evicted in the call that made it is driven without one.   *)
THEOREM OneDriverEach == Spec => []OneDriver
<1>1. Inv => OneDriver
  <2> SUFFICES ASSUME Inv, NEW s \in Sockets, tasks[s].alive
               PROVE  LET a == tasks[s].agent
                      IN /\ driver[agents[a].role] = s
                         /\ session[agents[a].role] = a \/ a \in stillborn
    BY DEF OneDriver
  <2>1. PICK r \in Roles : driver[r] = s
    BY RegistryIs DEF Inv, Sound, Tied
  <2>2. s # None
    OBVIOUS
  <2>3. /\ agents[tasks[s].agent].role = r
        /\ session[r] = tasks[s].agent \/ tasks[s].agent \in stillborn
    BY <2>1, <2>2, RegistryIs DEF Inv, Sound, Tied, Serves
  <2>. QED BY <2>1, <2>3
<1>. QED BY <1>1, Invariant, PTL

(* Two calls for one role never run at once, whatever agents answer them:  *)
(* the lock belongs to the role and outlives its session.                  *)
THEOREM RolesSerial == Spec => []MessagesSerial
<1>1. Inv => MessagesSerial
  <2> SUFFICES ASSUME Inv, NEW c \in Clients, NEW d \in Clients,
                      client[c].place = "running", client[d].place = "running",
                      client[c].role = client[d].role
               PROVE  c = d
    BY DEF MessagesSerial
  <2>1. client[c].role \in Roles
    BY DEF Inv, Asking
  <2>2. PICK i \in 1..Len(queue[client[c].role]) : queue[client[c].role][i] = c
    BY DEF Inv, Lined
  <2>3. PICK j \in 1..Len(queue[client[c].role]) : queue[client[c].role][j] = d
    BY DEF Inv, Lined
  <2>4. i = 1 /\ j = 1
    BY <2>1, <2>2, <2>3 DEF Inv, Lined
  <2>. QED BY <2>2, <2>3, <2>4
<1>. QED BY <1>1, Invariant, PTL

(* As long as the tab that came last to a role is open, it is the socket   *)
(* registered, and a driver runs for the role on its agent in service: no  *)
(* delayed removal, later eviction or other tab that closes takes them     *)
(* away. The one agent driven out of service is one that its own           *)
(* get_or_create evicted before the socket was registered.                 *)
THEOREM LatestIsServed == Spec => []LatestServed
<1>1. Inv => LatestServed
  <2> SUFFICES ASSUME Inv, NEW r \in Roles, latest[r] # None, Live(latest[r])
               PROVE  /\ activeWs[r] = latest[r]
                      /\ driver[r] # None /\ tasks[driver[r]].alive
                      /\ \/ tasks[driver[r]].agent = session[r]
                         \/ tasks[driver[r]].agent \in stillborn
    BY DEF LatestServed
  <2>1. activeWs[r] = latest[r] /\ driver[r] # None
    BY DEF Inv, Served, Holds
  <2>2. tasks[driver[r]].alive /\ Serves(Registry, tasks[driver[r]].agent, r)
    BY <2>1, RegistryIs DEF Inv, Sound, Tied
  <2>. QED BY <2>1, <2>2, RegistryIs DEF Serves
<1>. QED BY <1>1, Invariant, PTL

LEMMA InitMoods == Init => MoodInv
BY DEF Init, MoodInv, Calls, Clients

(* No emotional shift is lost over disconnects, removals, evictions and    *)
(* the shutdown, whatever throttled saves fail, unless an agent was        *)
(* dropped in the middle of a call or with its last save: close saves what *)
(* the live agent holds, and get_or_create loads it.                       *)
THEOREM MoodsAreKept == Spec => []MoodKept
<1>1. MoodInv => MoodKept
  BY RegistryIs DEF MoodInv, MoodKept, MoodOf
<1>2. Init => Inv /\ MoodInv
  BY InitOk, InitMoods
<1>3. Inv /\ MoodInv /\ [Next]_vars => Inv' /\ MoodInv'
  BY NextOk
<1>. QED BY <1>1, <1>2, <1>3, PTL DEF Spec
=============================================================================
