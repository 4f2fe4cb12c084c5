------------------------- MODULE ConversationProofs -------------------------
(***************************************************************************)
(* Proofs about Conversation, for every number of threads and agents,      *)
(* every bound and both hosts where not said otherwise.                    *)
(***************************************************************************)
EXTENDS Conversation, TLAPS

USE ConversationAssumption

LEMMA NewTurnType ==
  ASSUME TypeOK, NEW a \in Actors, NEW role \in Roles
  PROVE  NewTurn(a, role) \in Turn
<1>1. on[a] \in AgentIds /\ cur[a] \in Nat /\ Len(db) + 1 \in Nat
  BY DEF TypeOK
<1>2. turnCount[on[a]] \in Nat /\ on[a] \in Nat
  BY <1>1 DEF TypeOK, AgentIds
<1>. QED BY <1>1, <1>2 DEF NewTurn, Turn

LEMMA RememberType ==
  ASSUME NEW m \in Seq(Turn), Len(m) <= MemLen, NEW entry \in Turn
  PROVE  /\ Remember(m, entry) \in Seq(Turn)
         /\ Len(Remember(m, entry)) <= MemLen
<1>1. CASE Len(m) < MemLen
  BY <1>1 DEF Remember
<1>2. CASE ~(Len(m) < MemLen)
  <2>1. m # << >> /\ Len(m) = MemLen
    BY <1>2
  <2>2. Tail(m) \in Seq(Turn) /\ Len(Tail(m)) = Len(m) - 1
    BY <2>1
  <2>. QED BY <1>2, <2>1, <2>2 DEF Remember
<1>. QED BY <1>1, <1>2

(* The buffers, and one of them with another turn or another content. *)
MemType ==
  /\ mem \in [AgentIds -> Seq(Turn)]
  /\ \A k \in AgentIds : Len(mem[k]) <= MemLen

LEMMA OneBuffer ==
  ASSUME TypeOK, NEW k \in AgentIds, NEW m \in Seq(Turn), Len(m) <= MemLen,
         mem' = [mem EXCEPT ![k] = m]
  PROVE  MemType'
<1>1. mem \in [AgentIds -> Seq(Turn)] /\ \A j \in AgentIds : Len(mem[j]) <= MemLen
  BY DEF TypeOK
<1>. QED BY <1>1 DEF MemType

LEMMA RememberedType ==
  ASSUME TypeOK, NEW a \in Actors, NEW entry \in Turn, mem' = Remembered(a, entry)
  PROVE  MemType'
<1>1. on[a] \in AgentIds
  BY DEF TypeOK
<1>2. mem[on[a]] \in Seq(Turn) /\ Len(mem[on[a]]) <= MemLen
  BY <1>1 DEF TypeOK
<1>3. mem' = [mem EXCEPT ![on[a]] = Remember(mem[on[a]], entry)]
  BY DEF Remembered
<1>4. /\ Remember(mem[on[a]], entry) \in Seq(Turn)
      /\ Len(Remember(mem[on[a]], entry)) <= MemLen
  BY <1>2, RememberType
<1>. QED BY <1>1, <1>3, <1>4, OneBuffer

LEMMA CountedType ==
  ASSUME TypeOK, NEW a \in Actors
  PROVE  Counted(a) \in [AgentIds -> Nat]
BY DEF TypeOK, Counted

LEMMA RowsType ==
  ASSUME TypeOK, NEW t \in Turn, db' \in {db, Append(db, t)}
  PROVE  db' \in Seq(Turn)
<1>1. db \in Seq(Turn)
  BY DEF TypeOK
<1>2. Append(db, t) \in Seq(Turn)
  BY <1>1
<1>. QED BY <1>1, <1>2

LEMMA AddTurnType ==
  ASSUME TypeOK, NEW a \in Actors, NEW role \in Roles,
         NEW then \in Places, AddTurn(a, role, then)
  PROVE  TypeOK'
<1>1. NewTurn(a, role) \in Turn
  BY NewTurnType
<1>2. db' \in {db, Append(db, NewTurn(a, role))}
  BY DEF AddTurn
<1>3. db' \in Seq(Turn)
  BY <1>1, <1>2, RowsType
<1>4. MemType'
  <2>1. CASE mem' = mem
    BY <2>1 DEF MemType, TypeOK
  <2>2. CASE mem' = Remembered(a, NewTurn(a, role))
    BY <1>1, <2>2, RememberedType
  <2>. QED BY <2>1, <2>2 DEF AddTurn
<1>5. pc' \in [Actors -> Places]
  BY DEF AddTurn, TypeOK, Goto, Places
<1>6. cut' \subseteq Nat
  <2>1. cut' = cut \/ cut' = cut \cup {cur[a]}
    BY DEF AddTurn
  <2>2. cut \subseteq Nat /\ cur[a] \in Nat
    BY DEF TypeOK
  <2>. QED BY <2>1, <2>2
<1>7. UNCHANGED <<host, turnCount, owner, sleeping, active, on, cur, loops,
                  nextEx, felt>>
  BY DEF AddTurn
<1>. QED
  BY <1>3, <1>4, <1>5, <1>6, <1>7 DEF TypeOK, MemType, host

LEMMA ReloadedType ==
  ASSUME NEW rows \in Seq(Turn), NEW n \in Nat
  PROVE  /\ Reloaded(rows, n) \in Seq(Turn)
         /\ Len(Reloaded(rows, n)) <= MemLen
<1> DEFINE kept == IF n < MemLen THEN n ELSE MemLen
           from == IF Len(rows) > kept THEN Len(rows) - kept ELSE 0
           entry(i) == rows[i + from]
<1>4. Reloaded(rows, n) = [i \in 1..(Len(rows) - from) |-> entry(i)]
  BY DEF Reloaded
<1>1. kept \in Nat /\ kept <= MemLen
  OBVIOUS
<1> HIDE DEF kept
<1>2. from \in Nat /\ Len(rows) - from \in Nat /\ Len(rows) - from <= kept
  BY <1>1
<1>3. ASSUME NEW i \in 1..(Len(rows) - from) PROVE entry(i) \in Turn
  <2>1. i + from \in 1..Len(rows)
    BY <1>2
  <2>. QED BY <2>1
<1> HIDE DEF from, entry
<1>. QED BY <1>1, <1>2, <1>3, <1>4

LEMMA RowTypes ==
  ASSUME TypeOK, NEW i \in 1..Len(db)
  PROVE  /\ db[i] \in Turn
         /\ db[i].id \in Nat /\ db[i].no \in Nat /\ db[i].ex \in Nat
         /\ db[i].agent \in Nat /\ db[i].role \in Roles
<1>1. db[i] \in Turn
  BY DEF TypeOK
<1>. QED BY <1>1 DEF Turn

(* MAX(turn_number) is one of the numbers, and no number is larger.        *)
LEMMA MaxNumberIs ==
  ASSUME TypeOK, HasTop
  PROVE  /\ MaxNumber(db) \in Nat
         /\ \A i \in 1..Len(db) : db[i].no <= MaxNumber(db)
         /\ IF db = << >> THEN MaxNumber(db) = 0
            ELSE \E i \in 1..Len(db) : db[i].no = MaxNumber(db)
<1>1. CASE db = << >>
  BY <1>1 DEF MaxNumber
<1>2. CASE db # << >>
  <2> DEFINE isTop(i) == \A j \in 1..Len(db) : db[j].no <= db[i].no
             top == CHOOSE i \in 1..Len(db) : isTop(i)
  <2>1. \E i \in 1..Len(db) : isTop(i)
    BY <1>2 DEF HasTop
  <2>2. top \in 1..Len(db) /\ isTop(top)
    BY <2>1
  <2>3. MaxNumber(db) = db[top].no
    BY <1>2 DEF MaxNumber
  <2> HIDE DEF top
  <2>4. db[top].no \in Nat
    BY <2>2, RowTypes
  <2>. QED BY <1>2, <2>2, <2>3, <2>4
<1>. QED BY <1>1, <1>2

LEMMA TypeInit == Init => TypeOK
BY DEF Init, TypeOK, Turn, Places, AgentIds

LEMMA NewAgentType ==
  ASSUME TypeOK, HasTop, NEW k, NewAgent(k)
  PROVE  /\ k \in AgentIds /\ agent' \in AgentIds
         /\ turnCount' \in [AgentIds -> Nat]
         /\ born' \in [AgentIds -> Nat] /\ unnumbered' \subseteq AgentIds
         /\ sleeping' \in [AgentIds -> BOOLEAN]
<1>1. k \in AgentIds /\ agent' = k
  BY DEF NewAgent
<1>2. MaxNumber(db) \in Nat
  BY MaxNumberIs
<1>3. turnCount' \in [AgentIds -> Nat] /\ unnumbered' \subseteq AgentIds
  <2>1. \/ turnCount' = [turnCount EXCEPT ![k] = MaxNumber(db)]
        \/ turnCount' = [turnCount EXCEPT ![k] = 0]
    BY DEF NewAgent
  <2>2. unnumbered' \in {unnumbered, unnumbered \cup {k}}
    BY DEF NewAgent
  <2>3. turnCount \in [AgentIds -> Nat] /\ unnumbered \subseteq AgentIds
    BY DEF TypeOK
  <2>. QED BY <1>1, <1>2, <2>1, <2>2, <2>3
<1>4. born' \in [AgentIds -> Nat]
  <2>1. born' = [born EXCEPT ![k] = Len(db)] /\ Len(db) \in Nat
    BY DEF NewAgent, TypeOK
  <2>. QED BY <2>1 DEF TypeOK
<1>5. sleeping' \in [AgentIds -> BOOLEAN]
  <2>1. PICK asleep \in BOOLEAN : sleeping' = [sleeping EXCEPT ![k] = asleep]
    BY DEF NewAgent
  <2>. QED BY <2>1 DEF TypeOK
<1>. QED BY <1>1, <1>3, <1>4, <1>5

LEMMA StartType ==
  ASSUME TypeOK, NEW a \in Actors, StartExchange(a)
  PROVE  cur' \in [Actors -> Nat] /\ nextEx' \in Nat \ {0}
<1>1. cur \in [Actors -> Nat] /\ nextEx \in Nat
  BY DEF TypeOK
<1>2. cur' = [cur EXCEPT ![a] = nextEx] /\ nextEx' = nextEx + 1
  BY DEF StartExchange
<1>. QED BY <1>1, <1>2

LEMMA TypeCarry ==
  ASSUME TypeOK, NEW a \in Actors, Carry(a)
  PROVE  TypeOK'
<1>1. CASE CheckSleeping(a)
  BY <1>1 DEF CheckSleeping, TypeOK, Goto, Places, log, host
<1>2. CASE HearAsleep(a)
  BY <1>2, AddTurnType DEF HearAsleep, Roles, Places
<1>3. CASE Murmur(a)
  BY <1>3, AddTurnType DEF Murmur, Roles, Places
<1>4. CASE Hear(a)
  BY <1>4, AddTurnType DEF Hear, Roles, Places
<1>5. CASE Reply(a)
  BY <1>5, AddTurnType DEF Reply, Roles, Places
<1>6. CASE GiveUp(a)
  <2>1. cut' \subseteq Nat
    BY <1>6 DEF GiveUp, TypeOK
  <2>2. pc' \in [Actors -> Places]
    BY <1>6 DEF GiveUp, TypeOK, Goto, Places
  <2>. QED BY <1>6, <2>1, <2>2 DEF GiveUp, TypeOK, log, host
<1>7. CASE Count(a)
  <2>1. AfterCount(a) \in Places
    BY <1>7 DEF Count, AfterCount, Places
  <2>2. turnCount' \in [AgentIds -> Nat]
    BY <1>7, CountedType DEF Count
  <2>. QED BY <1>7, <2>1, <2>2 DEF Count, TypeOK, Goto, host
<1>8. CASE Feel(a)
  <2>1. felt' \in [0..MaxExchanges -> Nat]
    <3> DEFINE x == LastUserEx(mem[on[a]])
    <3>1. felt' = [felt EXCEPT ![x] = @ + 1]
      BY <1>8 DEF Feel
    <3>2. felt \in [0..MaxExchanges -> Nat]
      BY DEF TypeOK
    <3> HIDE DEF x
    <3>3. DOMAIN felt' = 0..MaxExchanges
      BY <3>1, <3>2
    <3>4. ASSUME NEW e \in 0..MaxExchanges PROVE felt'[e] \in Nat
      <4>1. felt' = [felt EXCEPT ![x] = felt[x] + 1]
        BY <3>1
      <4>2. CASE e = x
        BY <3>2, <4>1, <4>2
      <4>3. CASE e # x
        BY <3>2, <4>1, <4>3
      <4>. QED BY <4>2, <4>3
    <3>5. felt' = [e \in 0..MaxExchanges |-> felt'[e]]
      BY <3>1, <3>2, <3>3
    <3>. QED BY <3>4, <3>5
  <2>2. pc' \in [Actors -> Places] /\ loops' \in [Actors -> 0..MaxLoops]
    <3>1. \/ Goto(a, "leaving") /\ loops' = loops
          \/ /\ loops[a] < MaxLoops
             /\ loops' = [loops EXCEPT ![a] = @ + 1]
             /\ Goto(a, "thinking")
      BY <1>8 DEF Feel
    <3>2. loops \in [Actors -> 0..MaxLoops] /\ pc \in [Actors -> Places]
      BY DEF TypeOK
    <3>3. "leaving" \in Places /\ "thinking" \in Places
      BY DEF Places
    <3>4. pc' \in [Actors -> Places]
      BY <3>1, <3>2, <3>3 DEF Goto
    <3>5. ASSUME loops[a] < MaxLoops PROVE loops[a] + 1 \in 0..MaxLoops
      BY <3>2, <3>5
    <3>6. loops' \in [Actors -> 0..MaxLoops]
      BY <3>1, <3>2, <3>5
    <3>. QED BY <3>4, <3>6
  <2>. QED BY <1>8, <2>1, <2>2 DEF Feel, TypeOK, log, host
<1>9. CASE Leave(a)
  <2>1. owner' \in [AgentIds -> Actors \cup {NoOne}]
    BY <1>9 DEF Leave, Release, TypeOK
  <2>2. /\ pc' \in [Actors -> Places] /\ cur' \in [Actors -> Nat]
        /\ loops' \in [Actors -> 0..MaxLoops]
    BY <1>9 DEF Leave, TypeOK, Goto, Places
  <2>. QED BY <1>9, <2>1, <2>2 DEF Leave, TypeOK, log, host
<1>10. CASE Announce(a)
  <2>1. NewTurn(a, "assistant") \in Turn
    BY NewTurnType DEF Roles
  <2>2. db' \in Seq(Turn)
    BY <1>10, <2>1, RowsType DEF Announce
  <2>3. MemType'
    BY <1>10, <2>1, RememberedType DEF Announce
  <2>4. turnCount' \in [AgentIds -> Nat]
    BY <1>10, CountedType DEF Announce
  <2>. QED BY <1>10, <2>2, <2>3, <2>4
           DEF Announce, TypeOK, MemType, Goto, Places, host
<1>11. CASE LoseAnnouncement(a)
  <2>1. NewTurn(a, "assistant") \in Turn
    BY NewTurnType DEF Roles
  <2>2. db' = db \/ db' = Append(db, NewTurn(a, "assistant"))
    BY <1>11 DEF LoseAnnouncement
  <2>3. db' \in Seq(Turn)
    BY <2>1, <2>2, RowsType
  <2>4. cut' \subseteq Nat
    BY <1>11 DEF LoseAnnouncement, TypeOK
  <2>. QED BY <1>11, <2>3, <2>4 DEF LoseAnnouncement, TypeOK, Goto, Places, host
<1>12. CASE Decided(a)
  <2>1. owner' \in [AgentIds -> Actors \cup {NoOne}]
    BY <1>12 DEF Decided, Release, TypeOK
  <2>2. pc' \in [Actors -> Places]
    BY <1>12 DEF Decided, TypeOK, Goto, Places
  <2>. QED BY <1>12, <2>1, <2>2 DEF Decided, TypeOK, log, host
<1>13. CASE Speak(a)
  <2>1. owner' \in [AgentIds -> Actors \cup {NoOne}]
    BY <1>13 DEF Speak, Take, TypeOK
  <2>2. /\ pc' \in [Actors -> Places]
        /\ cur' \in [Actors -> Nat] /\ nextEx' \in Nat \ {0}
    BY <1>13, StartType DEF Speak, TypeOK, Goto, Places
  <2>. QED BY <1>13, <2>1, <2>2 DEF Speak, TypeOK, log, host
<1>. QED
  BY <1>1, <1>2, <1>3, <1>4, <1>5, <1>6, <1>7, <1>8, <1>9, <1>10, <1>11,
     <1>12, <1>13 DEF Carry

LEMMA TypeNext ==
  ASSUME TypeOK, HasTop, [Next]_vars
  PROVE  TypeOK'
<1>0. \A u \in Users : u \in Actors
  BY DEF Actors
<1>1. ASSUME NEW u \in Users, Arrive(u) PROVE TypeOK'
  <2>1. cur' \in [Actors -> Nat] /\ nextEx' \in Nat \ {0}
    BY <1>0, <1>1, StartType DEF Arrive
  <2>2. pc' \in [Actors -> Places] /\ on' \in [Actors -> AgentIds]
    BY <1>1 DEF Arrive, TypeOK, Goto, Places
  <2>. QED BY <1>1, <2>1, <2>2 DEF Arrive, TypeOK, log, host
<1>2. ASSUME NEW u \in Users, Enter(u) PROVE TypeOK'
  <2>1. owner' \in [AgentIds -> Actors \cup {NoOne}]
    BY <1>0, <1>2 DEF Enter, Take, TypeOK
  <2>2. pc' \in [Actors -> Places]
    BY <1>2 DEF Enter, TypeOK, Goto, Places
  <2>. QED BY <1>2, <2>1, <2>2 DEF Enter, TypeOK, log, host
<1>3. ASSUME NEW a \in Actors, Carry(a) PROVE TypeOK'
  BY <1>3, TypeCarry
<1>4. ASSUME NEW d \in Drivers, FlipSleep(d) PROVE TypeOK'
  <2>1. cur' \in [Actors -> Nat] /\ nextEx' \in Nat \ {0}
    BY <1>4, StartType DEF FlipSleep, Actors
  <2>2. pc' \in [Actors -> Places]
    BY <1>4 DEF FlipSleep, TypeOK, Goto, Places
  <2>3. sleeping' \in [AgentIds -> BOOLEAN]
    BY <1>4 DEF FlipSleep, TypeOK
  <2>. QED BY <1>4, <2>1, <2>2, <2>3 DEF FlipSleep, TypeOK, log, host
<1>5. ASSUME NEW d \in Drivers, Decide(d) PROVE TypeOK'
  <2>1. owner' \in [AgentIds -> Actors \cup {NoOne}]
    BY <1>5 DEF Decide, Take, TypeOK, Actors
  <2>. QED BY <1>5, <2>1 DEF Decide, TypeOK, Goto, Places, log, host
<1>6. ASSUME NEW d \in Drivers, StartDriver(d) PROVE TypeOK'
  <2>1. pc' \in [Actors -> Places]
    BY <1>6 DEF StartDriver, CancelDriver, TypeOK, Places
  <2>2. on' \in [Actors -> AgentIds] /\ active' \in Drivers \cup {NoOne}
    BY <1>6 DEF StartDriver, TypeOK
  <2>. QED BY <1>6, <2>1, <2>2 DEF StartDriver, TypeOK, log, host
<1>7. CASE Forget
  <2>1. MemType'
    BY <1>7 DEF Forget, TypeOK, MemType
  <2>. QED BY <1>7, <2>1 DEF Forget, TypeOK, MemType, host
<1>8. Reloaded(db, Restored) \in Seq(Turn) /\ Len(Reloaded(db, Restored)) <= MemLen
  BY ReloadedType DEF TypeOK
<1>9. CASE Rebuild
  <2>1. /\ agent + 1 \in AgentIds /\ agent' \in AgentIds
        /\ turnCount' \in [AgentIds -> Nat]
        /\ born' \in [AgentIds -> Nat] /\ unnumbered' \subseteq AgentIds
        /\ sleeping' \in [AgentIds -> BOOLEAN]
    BY <1>9, NewAgentType DEF Rebuild
  <2>2. MemType'
    BY <1>8, <1>9, <2>1, OneBuffer DEF Rebuild
  <2>3. pc' \in [Actors -> Places] /\ active' \in Drivers \cup {NoOne}
    BY <1>9 DEF Rebuild, CancelDriver, TypeOK, Places
  <2>. QED BY <1>9, <2>1, <2>2, <2>3 DEF Rebuild, TypeOK, MemType
<1>10. CASE Restart
  <2>1. /\ agent + 1 \in AgentIds /\ agent' \in AgentIds
        /\ turnCount' \in [AgentIds -> Nat]
        /\ born' \in [AgentIds -> Nat] /\ unnumbered' \subseteq AgentIds
        /\ sleeping' \in [AgentIds -> BOOLEAN]
    BY <1>10, NewAgentType DEF Restart
  <2>2. MemType'
    <3>1. << >> \in Seq(Turn) /\ Len(<< >>) <= MemLen
      OBVIOUS
    <3>2. mem' = [k \in AgentIds |->
                    IF k = agent + 1 THEN Reloaded(db, Restored) ELSE << >>]
      BY <1>10 DEF Restart
    <3>. QED BY <1>8, <3>1, <3>2 DEF MemType
  <2>3. cut' \subseteq Nat
    BY <1>10 DEF Restart, TypeOK
  <2>4. /\ pc' \in [Actors -> Places] /\ active' \in Drivers \cup {NoOne}
        /\ on' \in [Actors -> AgentIds] /\ cur' \in [Actors -> Nat]
        /\ loops' \in [Actors -> 0..MaxLoops]
        /\ owner' \in [AgentIds -> Actors \cup {NoOne}]
    BY <1>10, <2>1 DEF Restart, Places
  <2>5. UNCHANGED <<db, nextEx, felt>>
    BY <1>10 DEF Restart
  <2>. QED BY <2>1, <2>2, <2>3, <2>4, <2>5 DEF TypeOK, MemType
<1>11. CASE UNCHANGED vars
  BY <1>11 DEF vars, TypeOK, log, host
<1>. QED
  BY <1>1, <1>2, <1>3, <1>4, <1>5, <1>6, <1>7, <1>9, <1>10, <1>11 DEF Next
-----------------------------------------------------------------------------
(* What a step may do to the stored conversation and to the counters.      *)
Writes(a) ==
  \E role \in Roles : db' = Append(db, NewTurn(a, role))

Counts(a) == turnCount' \in {turnCount, Counted(a)}

LEMMA CarryWrites ==
  ASSUME NEW a \in Actors, Carry(a)
  PROVE  db' = db \/ Writes(a)
<1>1. ASSUME NEW role \in Roles, NEW then,
             AddTurn(a, role, then)
      PROVE  db' = db \/ Writes(a)
  BY <1>1 DEF AddTurn, Writes
<1>2. CASE HearAsleep(a) \/ Murmur(a) \/ Hear(a) \/ Reply(a)
  BY <1>1, <1>2 DEF HearAsleep, Murmur, Hear, Reply, Roles
<1>3. CASE Announce(a) \/ LoseAnnouncement(a)
  BY <1>3 DEF Announce, LoseAnnouncement, Writes, Roles
<1>4. CASE CheckSleeping(a) \/ GiveUp(a) \/ Count(a) \/ Feel(a) \/ Leave(a)
           \/ Decided(a) \/ Speak(a)
  BY <1>4 DEF CheckSleeping, GiveUp, Count, Feel, Leave, Decided, Speak, log
<1>. QED BY <1>2, <1>3, <1>4 DEF Carry

LEMMA CarryCounts ==
  ASSUME NEW a \in Actors, Carry(a)
  PROVE  Counts(a) /\ UNCHANGED <<host, on>>
<1>1. CASE HearAsleep(a) \/ Murmur(a) \/ Hear(a) \/ Reply(a)
  BY <1>1 DEF HearAsleep, Murmur, Hear, Reply, AddTurn, Counts
<1>2. CASE Announce(a) \/ LoseAnnouncement(a) \/ Count(a)
  BY <1>2 DEF Announce, LoseAnnouncement, Count, Counts
<1>3. CASE CheckSleeping(a) \/ GiveUp(a) \/ Feel(a) \/ Leave(a)
           \/ Decided(a) \/ Speak(a)
  BY <1>3 DEF CheckSleeping, GiveUp, Feel, Leave, Decided, Speak, log, Counts
<1>. QED BY <1>1, <1>2, <1>3 DEF Carry

LEMMA Growing ==
  ASSUME TypeOK, NEW a \in Actors, Counts(a), NEW k \in AgentIds
  PROVE  turnCount[k] \in Nat /\ turnCount'[k] \in Nat /\ turnCount[k] <= turnCount'[k]
<1>1. turnCount \in [AgentIds -> Nat]
  BY DEF TypeOK
<1>2. CASE turnCount' = turnCount
  BY <1>1, <1>2
<1>3. CASE turnCount' = Counted(a)
  BY <1>1, <1>3 DEF Counted
<1>. QED BY <1>2, <1>3 DEF Counts

(* Agents are built one after another, rows numbered as they are written.  *)
LEMMA Appended ==
  ASSUME TypeOK, NEW a \in Actors, Writes(a)
  PROVE  \E t \in Turn :
           /\ db' = Append(db, t)
           /\ t.id = Len(db) + 1 /\ t.no = turnCount[on[a]]
           /\ t.ex = cur[a] /\ t.agent = on[a]
BY NewTurnType DEF Writes, NewTurn

LEMMA AgentsKept ==
  ASSUME TypeOK, AgentsKnown, db' = db \/ \E a \in Actors : Writes(a),
         UNCHANGED host, \A a \in Actors : on'[a] = on[a] \/ on'[a] = agent
  PROVE  AgentsKnown'
<1>0. /\ db \in Seq(Turn) /\ agent \in Nat /\ agent >= 1
      /\ \A k \in AgentIds : born[k] \in Nat
      /\ \A b \in Actors : on[b] \in Nat
  BY DEF TypeOK, AgentIds
<1>1. ASSUME NEW a \in Actors PROVE on'[a] <= agent'
  BY <1>0 DEF AgentsKnown, host
<1>2. CASE db' = db
  <2>1. born' = born /\ agent' = agent
    BY DEF host
  <2>. QED BY <1>1, <1>2, <2>1 DEF AgentsKnown
<1>3. ASSUME NEW a \in Actors, Writes(a) PROVE AgentsKnown'
  <2>1. PICK t \in Turn : /\ db' = Append(db, t)
                          /\ t.id = Len(db) + 1 /\ t.agent = on[a]
    BY <1>3, Appended
  <2>2. /\ Len(db') = Len(db) + 1
        /\ db'[Len(db) + 1] = t
        /\ \A i \in 1..Len(db) : db'[i] = db[i]
    BY <1>0, <2>1
  <2>3. ASSUME NEW k \in AgentIds PROVE born'[k] <= Len(db')
    BY <1>0, <2>2 DEF AgentsKnown, host
  <2>4. on[a] \in 1..agent
    BY <1>0 DEF AgentsKnown, TypeOK, AgentIds
  <2>5. ASSUME NEW i \in 1..Len(db') PROVE db'[i].id = i /\ db'[i].agent \in 1..agent'
    <3>1. CASE i = Len(db) + 1
      BY <2>1, <2>2, <2>4, <3>1 DEF host
    <3>2. CASE i # Len(db) + 1
      <4>1. i \in 1..Len(db)
        BY <1>0, <2>2, <3>2
      <4>. QED BY <2>2, <4>1 DEF AgentsKnown, host
    <3>. QED BY <3>1, <3>2
  <2>. QED BY <1>1, <2>3, <2>5 DEF AgentsKnown
<1>. QED BY <1>2, <1>3

LEMMA NewAgentKnown ==
  ASSUME TypeOK, AgentsKnown, NEW k, NewAgent(k), db' = db,
         \A a \in Actors : on'[a] = on[a] \/ on'[a] = k
  PROVE  AgentsKnown'
<1>0. /\ k \in AgentIds /\ k = agent + 1 /\ agent' = k /\ agent \in Nat
      /\ born' = [born EXCEPT ![k] = Len(db)] /\ Len(db) \in Nat
      /\ born \in [AgentIds -> Nat] /\ \A a \in Actors : on[a] \in Nat
  BY DEF NewAgent, TypeOK, AgentIds
<1>1. ASSUME NEW a \in Actors PROVE on'[a] <= agent'
  BY <1>0 DEF AgentsKnown
<1>2. ASSUME NEW j \in AgentIds PROVE born'[j] <= Len(db')
  BY <1>0 DEF AgentsKnown
<1>3. ASSUME NEW i \in 1..Len(db') PROVE db'[i].id = i /\ db'[i].agent \in 1..agent'
  BY <1>0 DEF AgentsKnown
<1>. QED BY <1>1, <1>2, <1>3 DEF AgentsKnown

LEMMA TopKept ==
  ASSUME TypeOK, HasTop, db' = db \/ \E t \in Turn : db' = Append(db, t)
  PROVE  HasTop'
<1>1. CASE db' = db
  BY <1>1 DEF HasTop
<1>2. ASSUME NEW t \in Turn, db' = Append(db, t) PROVE HasTop'
  <2>0. db \in Seq(Turn) /\ t.no \in Nat
    BY DEF TypeOK, Turn
  <2>1. /\ Len(db') = Len(db) + 1
        /\ db'[Len(db) + 1] = t
        /\ \A i \in 1..Len(db) : db'[i] = db[i]
    BY <1>2, <2>0
  <2>2. CASE \A i \in 1..Len(db) : db[i].no <= t.no
    <3>1. ASSUME NEW j \in 1..Len(db') PROVE db'[j].no <= db'[Len(db) + 1].no
      <4>1. CASE j = Len(db) + 1
        BY <2>0, <2>1, <4>1
      <4>2. CASE j # Len(db) + 1
        <5>1. j \in 1..Len(db)
          BY <2>0, <2>1, <4>2
        <5>. QED BY <2>1, <2>2, <5>1
      <4>. QED BY <4>1, <4>2
    <3>2. Len(db) + 1 \in 1..Len(db')
      BY <2>0, <2>1
    <3>. QED BY <3>1, <3>2 DEF HasTop
  <2>3. ASSUME NEW i \in 1..Len(db), ~(db[i].no <= t.no) PROVE HasTop'
    <3>1. PICK m \in 1..Len(db) : \A j \in 1..Len(db) : db[j].no <= db[m].no
      BY <2>0 DEF HasTop
    <3>2. db[m].no \in Nat /\ db[i].no \in Nat
      BY RowTypes
    <3>3. t.no <= db[m].no
      BY <2>0, <2>3, <3>1, <3>2
    <3>4. ASSUME NEW j \in 1..Len(db') PROVE db'[j].no <= db'[m].no
      <4>1. CASE j = Len(db) + 1
        BY <2>1, <3>3, <4>1
      <4>2. CASE j # Len(db) + 1
        <5>1. j \in 1..Len(db)
          BY <2>0, <2>1, <4>2
        <5>. QED BY <2>1, <3>1, <5>1
      <4>. QED BY <4>1, <4>2
    <3>5. m \in 1..Len(db')
      BY <2>0, <2>1
    <3>. QED BY <3>4, <3>5 DEF HasTop
  <2>. QED BY <2>2, <2>3
<1>. QED BY <1>1, <1>2

(* A turn is written, or counted, or neither.                              *)
LEMMA NumbersKept ==
  ASSUME TypeOK, AgentsKnown, NumbersAscend, UNCHANGED host,
         NEW a \in Actors, Counts(a), db' = db \/ Writes(a)
  PROVE  NumbersAscend'
<1>0. /\ db \in Seq(Turn) /\ on[a] \in AgentIds /\ on[a] \in 1..agent
      /\ agent' = agent /\ born' = born /\ unnumbered' = unnumbered
      /\ 1..agent \subseteq AgentIds
  BY DEF TypeOK, AgentsKnown, AgentIds, host
<1>1. CASE db' = db
  <2>1. ASSUME NEW k \in 1..agent, NEW i \in 1..Len(db), Known(k, i)
        PROVE  db[i].no <= turnCount'[k]
    <3>1. db[i].no \in Nat /\ db[i].no <= turnCount[k]
      BY <2>1, RowTypes DEF NumbersAscend
    <3>2. turnCount[k] \in Nat /\ turnCount'[k] \in Nat /\ turnCount[k] <= turnCount'[k]
      BY <1>0, Growing
    <3>. QED BY <3>1, <3>2
  <2>. QED BY <1>0, <1>1, <2>1 DEF NumbersAscend, Known
<1>2. CASE Writes(a)
  <2>1. PICK t \in Turn : /\ db' = Append(db, t)
                          /\ t.no = turnCount[on[a]] /\ t.agent = on[a]
    BY <1>2, Appended
  <2>2. /\ Len(db') = Len(db) + 1
        /\ db'[Len(db) + 1] = t
        /\ \A i \in 1..Len(db) : db'[i] = db[i]
    BY <1>0, <2>1
  <2>3. ASSUME NEW i \in 1..Len(db') PROVE i \in 1..Len(db) \/ i = Len(db) + 1
    BY <1>0, <2>2
  <2>4. ASSUME NEW k, NEW i \in 1..Len(db), Known(k, i)' PROVE Known(k, i)
    BY <1>0, <2>2, <2>4 DEF Known
  <2>5. ASSUME NEW i \in 1..Len(db'), NEW j \in 1..Len(db'), i < j,
               Known(db[j].agent, i)'
        PROVE  db'[i].no <= db'[j].no
    <3>1. i \in 1..Len(db)
      BY <1>0, <2>2, <2>3, <2>5
    <3>2. CASE j \in 1..Len(db)
      <4>1. Known(db[j].agent, i)
        BY <2>2, <2>4, <2>5, <3>1, <3>2
      <4>. QED BY <2>2, <2>5, <3>1, <3>2, <4>1 DEF NumbersAscend
    <3>3. CASE j = Len(db) + 1
      <4>1. Known(on[a], i)
        BY <2>1, <2>2, <2>4, <2>5, <3>1, <3>3
      <4>2. db[i].no <= turnCount[on[a]]
        BY <1>0, <3>1, <4>1 DEF NumbersAscend
      <4>. QED BY <2>1, <2>2, <3>1, <3>3, <4>2
    <3>. QED BY <2>3, <3>2, <3>3
  <2>6. ASSUME NEW k \in 1..agent, NEW i \in 1..Len(db'), Known(k, i)'
        PROVE  db'[i].no <= turnCount'[k]
    <3>0. turnCount[k] \in Nat /\ turnCount'[k] \in Nat /\ turnCount[k] <= turnCount'[k]
      BY <1>0, Growing
    <3>1. CASE i \in 1..Len(db)
      <4>1. Known(k, i)
        BY <2>4, <2>6, <3>1
      <4>2. db[i].no \in Nat /\ db[i].no <= turnCount[k]
        BY <3>1, <4>1, RowTypes DEF NumbersAscend
      <4>. QED BY <2>2, <3>0, <3>1, <4>2
    <3>2. CASE i = Len(db) + 1
      <4>1. born[k] \in Nat /\ born[k] <= Len(db)
        BY <1>0 DEF AgentsKnown, TypeOK
      <4>2. k = on[a]
        BY <1>0, <2>1, <2>2, <2>6, <3>2, <4>1 DEF Known
      <4>. QED BY <2>1, <2>2, <3>0, <3>2, <4>2
    <3>. QED BY <2>3, <3>1, <3>2
  <2>. QED BY <1>0, <2>5, <2>6 DEF NumbersAscend
<1>. QED BY <1>1, <1>2

(* A new agent goes on behind everything it knows. *)
LEMMA NumbersNewAgent ==
  ASSUME TypeOK, AgentsKnown, HasTop, NumbersAscend, NEW k, NewAgent(k), db' = db
  PROVE  NumbersAscend'
<1>0. /\ k \in AgentIds /\ k = agent + 1 /\ agent' = k
      /\ agent \in Nat /\ agent \in AgentIds /\ 1..agent \subseteq AgentIds
      /\ born' = [born EXCEPT ![k] = Len(db)] /\ born \in [AgentIds -> Nat]
      /\ turnCount \in [AgentIds -> Nat]
  BY DEF NewAgent, TypeOK, AgentIds
<1>1. \/ /\ turnCount' = [turnCount EXCEPT ![k] = MaxNumber(db)]
         /\ unnumbered' = unnumbered
      \/ /\ turnCount' = [turnCount EXCEPT ![k] = 0]
         /\ unnumbered' = unnumbered \cup {k}
  BY DEF NewAgent
<1>2. ASSUME NEW j \in 1..agent
      PROVE  /\ j # k /\ turnCount'[j] = turnCount[j] /\ born'[j] = born[j]
             /\ j \in unnumbered' <=> j \in unnumbered
  BY <1>0, <1>1
<1>3. ASSUME NEW j \in 1..agent, NEW i \in 1..Len(db) PROVE Known(j, i)' <=> Known(j, i)
  BY <1>2 DEF Known
<1>4. ASSUME NEW i \in 1..Len(db) PROVE db[i].agent \in 1..agent /\ db[i].agent # k
  BY <1>0 DEF AgentsKnown
<1>5. ASSUME NEW i \in 1..Len(db), NEW j \in 1..Len(db), i < j,
             Known(db[j].agent, i)'
      PROVE  db'[i].no <= db'[j].no
  <2>1. Known(db[j].agent, i)
    BY <1>3, <1>4, <1>5
  <2>. QED BY <1>5, <2>1 DEF NumbersAscend
<1>6. ASSUME NEW j \in 1..agent', NEW i \in 1..Len(db), Known(j, i)'
      PROVE  db'[i].no <= turnCount'[j]
  <2>1. CASE j = k
    <3>1. k \notin unnumbered'
      BY <1>4, <1>6, <2>1 DEF Known
    <3>2. turnCount'[k] = MaxNumber(db)
      BY <1>0, <1>1, <3>1
    <3>. QED BY <2>1, <3>2, MaxNumberIs
  <2>2. CASE j # k
    <3>1. j \in 1..agent
      BY <1>0, <2>2
    <3>. QED BY <1>2, <1>3, <1>6, <3>1 DEF NumbersAscend
  <2>. QED BY <2>1, <2>2
<1>. QED BY <1>5, <1>6 DEF NumbersAscend

(* What the proofs carry along on either host.                             *)
Numbers == AgentsKnown /\ HasTop /\ NumbersAscend

(* A step that neither writes nor counts nor builds an agent.              *)
LEMMA NumbersQuiet ==
  ASSUME TypeOK, Numbers, UNCHANGED <<db, turnCount, host>>,
         \A a \in Actors : on'[a] = on[a] \/ on'[a] = agent
  PROVE  Numbers'
<1>1. AgentsKnown'
  BY AgentsKept DEF Numbers, host
<1>2. HasTop'
  BY TopKept DEF Numbers
<1>3. PICK a : a \in Actors
  BY DEF Actors
<1>4. NumbersAscend'
  BY <1>3, NumbersKept DEF Numbers, Counts
<1>. QED BY <1>1, <1>2, <1>4 DEF Numbers

LEMMA NumbersNext ==
  ASSUME TypeOK, Numbers, [Next]_vars
  PROVE  Numbers'
<1>0. on \in [Actors -> AgentIds] /\ \A u \in Users \cup Drivers : u \in Actors
  BY DEF TypeOK, Actors
<1>1. ASSUME NEW a \in Actors, Carry(a) PROVE Numbers'
  <2>1. /\ db' = db \/ Writes(a)
        /\ Counts(a) /\ UNCHANGED <<host, on>>
    BY <1>1, CarryWrites, CarryCounts
  <2>2. AgentsKnown'
    BY <2>1, AgentsKept DEF Numbers
  <2>3. HasTop'
    BY <2>1, TopKept, Appended DEF Numbers
  <2>4. NumbersAscend'
    BY <2>1, NumbersKept DEF Numbers
  <2>. QED BY <2>2, <2>3, <2>4 DEF Numbers
<1>2. ASSUME NEW u \in Users, Arrive(u) PROVE Numbers'
  BY <1>0, <1>2, NumbersQuiet DEF Arrive, log
<1>3. ASSUME NEW u \in Users, Enter(u) PROVE Numbers'
  BY <1>3, NumbersQuiet DEF Enter, log
<1>4. ASSUME NEW d \in Drivers, FlipSleep(d) \/ Decide(d) PROVE Numbers'
  BY <1>4, NumbersQuiet DEF FlipSleep, Decide, log
<1>5. ASSUME NEW d \in Drivers, StartDriver(d) PROVE Numbers'
  BY <1>0, <1>5, NumbersQuiet DEF StartDriver, log
<1>6. CASE Forget \/ UNCHANGED vars
  BY <1>6, NumbersQuiet DEF Forget, vars, log
<1>7. CASE Rebuild \/ Restart
  <2>1. /\ NewAgent(agent + 1) /\ db' = db
        /\ \A a \in Actors : on'[a] = on[a] \/ on'[a] = agent + 1
    BY <1>7 DEF Rebuild, Restart
  <2>2. AgentsKnown'
    BY <2>1, NewAgentKnown DEF Numbers
  <2>3. HasTop'
    BY <2>1, TopKept DEF Numbers
  <2>4. NumbersAscend'
    BY <2>1, NumbersNewAgent DEF Numbers
  <2>. QED BY <2>2, <2>3, <2>4 DEF Numbers
<1>. QED BY <1>1, <1>2, <1>3, <1>4, <1>5, <1>6, <1>7 DEF Next

LEMMA NumbersInit == Init => Numbers
<1> SUFFICES ASSUME Init PROVE Numbers
  OBVIOUS
<1>1. AgentsKnown
  BY DEF Init, AgentsKnown, AgentIds
<1>2. HasTop /\ NumbersAscend
  BY DEF Init, HasTop, NumbersAscend
<1>. QED BY <1>1, <1>2 DEF Numbers

(* On either host, whatever the interleaving, the failed inserts, the      *)
(* agents rebuilt and the restarts: the variables keep their types; the    *)
(* turns an agent writes are numbered no lower than those it wrote before  *)
(* and than those it found on disk, unless it could not read their number, *)
(* and its turn_count is never behind them.                                *)
THEOREM Numbering == Spec => [](TypeOK /\ NumbersAscend)
<1>1. Init => TypeOK /\ Numbers
  BY TypeInit, NumbersInit
<1>2. TypeOK /\ Numbers /\ [Next]_vars => (TypeOK /\ Numbers)'
  BY TypeNext, NumbersNext DEF Numbers
<1>3. TypeOK /\ Numbers => TypeOK /\ NumbersAscend
  BY DEF Numbers
<1>. QED BY <1>1, <1>2, <1>3, PTL DEF Spec
-----------------------------------------------------------------------------
(* From here on the host locks: the Web.                                   *)

(* A turn that opens an exchange, or follows the last one of its agent in  *)
(* its own exchange.                                                       *)
LEMMA ContiguousAppend ==
  ASSUME NEW rows \in Seq(Turn), NEW t \in Turn, Log!Contiguous(rows),
         \A i \in 1..Len(rows) : rows[i].ex = t.ex => rows[i].agent = t.agent,
         \/ \A i \in 1..Len(rows) : rows[i].ex # t.ex
         \/ \E l \in 1..Len(rows) :
              /\ rows[l].ex = t.ex
              /\ \A j \in 1..Len(rows) : j > l => rows[j].agent # t.agent
  PROVE  Log!Contiguous(Append(rows, t))
<1> DEFINE more == Append(rows, t)
<1>1. /\ Len(more) = Len(rows) + 1
      /\ more[Len(rows) + 1] = t
      /\ \A i \in 1..Len(rows) : more[i] = rows[i]
  OBVIOUS
<1> HIDE DEF more
<1> SUFFICES ASSUME NEW i \in 1..Len(more), NEW j \in 1..Len(more),
                    NEW k \in 1..Len(more),
                    i < j, j < k, more[i].ex = more[k].ex
             PROVE  more[j].ex = more[i].ex \/ more[j].agent # more[i].agent
  BY DEF Log!Contiguous, more
<1>2. /\ i \in 1..Len(rows) /\ more[i] = rows[i]
      /\ j \in 1..Len(rows) /\ more[j] = rows[j]
  BY <1>1
<1>3. CASE k # Len(rows) + 1
  <2>1. k \in 1..Len(rows)
    BY <1>1, <1>3, Len(rows) \in Nat
  <2>2. more[k] = rows[k]
    BY <1>1, <2>1
  <2>. QED BY <1>2, <2>1, <2>2 DEF Log!Contiguous
<1>4. CASE k = Len(rows) + 1
  <2>1. rows[i].ex = t.ex /\ rows[i].agent = t.agent
    BY <1>1, <1>2, <1>4
  <2>2. PICK l \in 1..Len(rows) :
              /\ rows[l].ex = t.ex
              /\ \A m \in 1..Len(rows) : m > l => rows[m].agent # t.agent
    BY <1>2, <2>1
  <2>3. CASE j > l
    BY <1>2, <2>1, <2>2, <2>3
  <2>4. CASE j = l
    BY <1>2, <2>1, <2>2, <2>4
  <2>5. CASE j < l
    BY <1>2, <2>1, <2>2, <2>5 DEF Log!Contiguous
  <2>. QED BY <2>3, <2>4, <2>5
<1>. QED BY <1>3, <1>4

(* The types the steps below use, without the rest of TypeOK. *)
Shape ==
  /\ db \in Seq(Turn) /\ turnCount \in [AgentIds -> Nat]
  /\ owner \in [AgentIds -> Actors \cup {NoOne}]
  /\ on \in [Actors -> AgentIds]
  /\ pc \in [Actors -> Places] /\ cur \in [Actors -> Nat]
  /\ nextEx \in Nat \ {0}

Exclusion == HolderOwns /\ ExchangesOwned /\ OpenExchangeLast /\ CountFollowsTurn

Counting == {"heardAsleep", "murmured", "replied"}

LEMMA ShapeOfType == TypeOK => Shape
BY DEF TypeOK, Shape

(* Who is inside holds the lock of its agent, and nobody else any.         *)
LEMMA HolderInside ==
  ASSUME Locked, Exclusion, NEW b \in Actors
  PROVE  pc[b] \in Inside <=> Holder(b) = b
BY DEF Exclusion, HolderOwns, InLock

LEMMA NotOwner ==
  ASSUME Locked, Shape, Exclusion, NEW b \in Actors, pc[b] \notin Inside,
         NEW k \in AgentIds
  PROVE  owner[k] # b
<1>1. b # NoOne
  BY DEF Actors
<1>2. Holder(b) # b
  BY HolderInside
<1>. QED BY <1>1, <1>2 DEF Exclusion, HolderOwns, Holder

(* Two threads that work for one agent are not inside together.            *)
LEMMA OtherAgent ==
  ASSUME Locked, Shape, Exclusion, NEW a \in Actors, NEW b \in Actors, a # b,
         pc[a] \in Inside \/ Holder(a) = NoOne, pc[b] \in Inside
  PROVE  on[a] # on[b]
<1>1. b # NoOne
  BY DEF Actors
<1>2. Holder(b) = b /\ Holder(a) # b
  BY <1>1, HolderInside
<1>. QED BY <1>2 DEF Holder

(* A thread that has written in its exchange holds the lock of its agent   *)
(* and wrote its last row.                                                 *)
LEMMA WriterIsOwner ==
  ASSUME Locked, Exclusion, NEW b \in Actors, cur[b] # 0, ~Unwritten(cur[b])
  PROVE  /\ Holder(b) = b /\ pc[b] \in Inside
         /\ \E i \in 1..Len(db) : IsLast(on[b], i) /\ db[i].ex = cur[b]
<1>1. Holder(b) = b /\ \E i \in 1..Len(db) : IsLast(on[b], i) /\ db[i].ex = cur[b]
  BY DEF Exclusion, OpenExchangeLast
<1>. QED BY <1>1, HolderInside

LEMMA FreshExchange ==
  ASSUME Shape, Exclusion PROVE Unwritten(nextEx) /\ \A b \in Actors : cur[b] # nextEx
<1>1. ASSUME NEW i \in 1..Len(db) PROVE db[i].ex \in Nat
  <2>1. db[i] \in Turn
    BY DEF Shape
  <2>. QED BY <2>1 DEF Turn
<1>. QED BY <1>1 DEF Unwritten, Exclusion, ExchangesOwned, Shape

(* Steps that leave the conversation alone keep the invariant when they    *)
(* keep the ownership parts of it, open no exchange that is already        *)
(* written, and send nobody to count.                                      *)
LEMMA QuietStep ==
  ASSUME Locked, Shape, Exclusion, HolderOwns', ExchangesOwned', db' = db,
         \A b \in Actors :
           /\ cur'[b] # cur[b] => cur'[b] = 0 \/ Unwritten(cur'[b])
           /\ cur'[b] = cur[b] /\ cur[b] # 0 /\ ~Unwritten(cur[b])
                => on'[b] = on[b] /\ owner'[on[b]] = owner[on[b]]
           /\ pc'[b] \in Counting =>
                /\ pc'[b] = pc[b] /\ cur'[b] = cur[b] /\ on'[b] = on[b]
                /\ turnCount'[on[b]] = turnCount[on[b]]
  PROVE  Exclusion'
<1>1. OpenExchangeLast'
  <2> SUFFICES ASSUME NEW b \in Actors, cur'[b] # 0, ~Unwritten(cur[b])'
               PROVE  /\ Holder(b)' = b
                      /\ \E i \in 1..Len(db') : IsLast(on[b], i)' /\ db'[i].ex = cur'[b]
    BY DEF OpenExchangeLast
  <2>1. ~Unwritten(cur'[b])
    BY DEF Unwritten
  <2>2. cur'[b] = cur[b]
    BY <2>1
  <2>3. on'[b] = on[b] /\ owner'[on[b]] = owner[on[b]]
    BY <2>1, <2>2
  <2>4. /\ Holder(b) = b
        /\ \E i \in 1..Len(db) : IsLast(on[b], i) /\ db[i].ex = cur[b]
    BY <2>1, <2>2, WriterIsOwner
  <2>. QED BY <2>2, <2>3, <2>4 DEF Holder, IsLast
<1>2. CountFollowsTurn'
  <2> SUFFICES ASSUME NEW b \in Actors, pc'[b] \in Counting
               PROVE  \E i \in 1..Len(db') : /\ IsLast(on[b], i)' /\ db'[i].ex = cur'[b]
                                             /\ db'[i].no = turnCount'[on'[b]]
    BY DEF CountFollowsTurn, Counting
  <2>1. \E i \in 1..Len(db) :
          IsLast(on[b], i) /\ db[i].ex = cur[b] /\ db[i].no = turnCount[on[b]]
    BY DEF Exclusion, CountFollowsTurn, Counting
  <2>. QED BY <2>1 DEF IsLast
<1>. QED BY <1>1, <1>2 DEF Exclusion

(* One thread moves on inside the lock. *)
LEMMA MoveStep ==
  ASSUME Locked, Shape, Exclusion, NEW a \in Actors, pc[a] \in Inside \ {"deciding"},
         NEW p \in Inside \ ({"deciding"} \cup Counting),
         pc' = [pc EXCEPT ![a] = p],
         UNCHANGED <<db, turnCount, on, cur, nextEx, owner>>
  PROVE  Exclusion'
<1>1. ASSUME NEW b \in Actors
      PROVE  /\ pc'[b] \in Inside <=> pc[b] \in Inside
             /\ pc'[b] \in {"idle", "chosen", "deciding"}
                  <=> pc[b] \in {"idle", "chosen", "deciding"}
             /\ pc'[b] \in Counting => pc'[b] = pc[b]
  BY DEF Shape, Inside
<1>2. HolderOwns'
  BY <1>1 DEF HolderOwns, InLock, Exclusion, Holder
<1>3. ExchangesOwned'
  BY <1>1 DEF ExchangesOwned, Exclusion
<1>. QED BY <1>1, <1>2, <1>3, QuietStep

(* A user message arrives, or the driver's sleep flag flips. *)
LEMMA OpenStep ==
  ASSUME Locked, Shape, Exclusion, NEW a \in Actors, pc[a] = "idle",
         NEW p \in {"waiting", "announcing"}, pc' = [pc EXCEPT ![a] = p],
         StartExchange(a), NEW k \in AgentIds, on' = [on EXCEPT ![a] = k],
         UNCHANGED <<db, turnCount, owner>>
  PROVE  Exclusion'
<1>1. /\ cur' = [cur EXCEPT ![a] = nextEx] /\ nextEx' = nextEx + 1
      /\ cur[a] = 0
  BY DEF StartExchange, Exclusion, ExchangesOwned
<1>2. Unwritten(nextEx) /\ \A b \in Actors : cur[b] # nextEx
  BY FreshExchange
<1>3. pc[a] \notin Inside /\ p \notin Inside
  BY DEF Inside
<1>4. HolderOwns'
  <2>1. ASSUME NEW b \in Actors PROVE pc'[b] \in Inside <=> owner'[on'[b]] = b
    <3>1. CASE b = a
      BY <1>3, <3>1, NotOwner DEF Shape
    <3>2. CASE b # a
      BY <3>2, HolderInside DEF Holder, Shape
    <3>. QED BY <3>1, <3>2
  <2>2. ASSUME NEW j \in AgentIds, owner'[j] # NoOne PROVE on'[owner'[j]] = j
    <3>1. owner[j] # a /\ owner[j] \in Actors
      BY <1>3, <2>2, NotOwner DEF Shape
    <3>. QED BY <2>2, <3>1 DEF Exclusion, HolderOwns, Shape
  <2>. QED BY <2>1, <2>2 DEF HolderOwns, InLock, Holder
<1>5. ExchangesOwned'
  <2>1. ASSUME NEW b \in Actors
        PROVE  /\ cur'[b] < nextEx'
               /\ pc'[b] \in {"idle", "chosen", "deciding"} <=> cur'[b] = 0
    BY <1>1 DEF Exclusion, ExchangesOwned, Shape
  <2>2. ASSUME NEW b \in Actors, NEW c \in Actors, cur'[b] = cur'[c], cur'[b] # 0
        PROVE  b = c
    BY <1>1, <1>2, <2>2 DEF Exclusion, ExchangesOwned, Shape
  <2>3. ASSUME NEW b \in Actors, NEW i \in 1..Len(db'), cur'[b] = db'[i].ex
        PROVE  db'[i].agent = on'[b]
    BY <1>1, <1>2, <2>3 DEF Exclusion, ExchangesOwned, Shape, Unwritten
  <2>4. ASSUME NEW i \in 1..Len(db') PROVE db'[i].ex # 0 /\ db'[i].ex < nextEx'
    <3>1. db[i] \in Turn
      BY DEF Shape
    <3>. QED BY <1>1, <3>1 DEF Exclusion, ExchangesOwned, Shape, Turn
  <2>. QED BY <2>1, <2>2, <2>3, <2>4 DEF ExchangesOwned
<1>6. ASSUME NEW b \in Actors
      PROVE  /\ cur'[b] # cur[b] => cur'[b] = 0 \/ Unwritten(cur'[b])
             /\ cur'[b] = cur[b] /\ cur[b] # 0 /\ ~Unwritten(cur[b])
                  => on'[b] = on[b] /\ owner'[on[b]] = owner[on[b]]
             /\ pc'[b] \in Counting =>
                  /\ pc'[b] = pc[b] /\ cur'[b] = cur[b] /\ on'[b] = on[b]
                  /\ turnCount'[on[b]] = turnCount[on[b]]
  BY <1>1, <1>2 DEF Shape, Counting
<1>. QED BY <1>4, <1>5, <1>6, QuietStep

(* A thread finds the lock of its agent free and takes it, in the exchange *)
(* it carries, in a new one, or in none to decide whether to speak.        *)
LEMMA TakeStep ==
  ASSUME Locked, Shape, Exclusion, NEW a \in Actors, pc[a] \notin Inside,
         Free(a), Take(a),
         NEW p \in Inside \ Counting, pc' = [pc EXCEPT ![a] = p],
         \/ /\ UNCHANGED <<cur, nextEx>>
            /\ p = "deciding" <=> cur[a] = 0
         \/ /\ StartExchange(a) /\ cur[a] = 0 /\ p # "deciding",
         UNCHANGED <<db, turnCount, on>>
  PROVE  Exclusion'
<1>0. /\ owner' = [owner EXCEPT ![on[a]] = a] /\ owner[on[a]] = NoOne
      /\ a # NoOne /\ on[a] \in AgentIds
  BY DEF Free, Take, Holder, Actors, Shape
<1>1. HolderOwns'
  <2>1. ASSUME NEW b \in Actors PROVE pc'[b] \in Inside <=> owner'[on'[b]] = b
    <3>1. CASE b = a
      BY <1>0, <3>1 DEF Shape
    <3>2. CASE b # a
      <4>1. b # NoOne /\ on[b] \in AgentIds
        BY DEF Actors, Shape
      <4>2. pc'[b] = pc[b]
        BY <3>2 DEF Shape
      <4>. QED BY <1>0, <3>2, <4>1, <4>2, HolderInside DEF Holder, Shape
    <3>. QED BY <3>1, <3>2
  <2>2. ASSUME NEW j \in AgentIds, owner'[j] # NoOne PROVE on'[owner'[j]] = j
    BY <1>0, <2>2 DEF Exclusion, HolderOwns, Shape
  <2>. QED BY <2>1, <2>2 DEF HolderOwns, InLock, Holder
<1>2. Unwritten(nextEx) /\ \A b \in Actors : cur[b] # nextEx
  BY FreshExchange
<1>3. /\ nextEx' >= nextEx /\ nextEx \in Nat /\ nextEx' \in Nat
      /\ \/ cur' = cur /\ (p = "deciding" <=> cur[a] = 0)
         \/ /\ cur' = [cur EXCEPT ![a] = nextEx]
            /\ nextEx' = nextEx + 1 /\ p # "deciding" /\ nextEx # 0
  BY DEF StartExchange, Shape
<1>4. ExchangesOwned'
  <2>1. ASSUME NEW b \in Actors
        PROVE  /\ cur'[b] < nextEx'
               /\ pc'[b] \in {"idle", "chosen", "deciding"} <=> cur'[b] = 0
    <3>1. cur[b] \in Nat /\ cur[b] < nextEx
          /\ (pc[b] \in {"idle", "chosen", "deciding"} <=> cur[b] = 0)
      BY DEF Exclusion, ExchangesOwned, Shape
    <3>2. CASE b = a
      <4>1. pc'[b] = p /\ p \notin {"idle", "chosen"}
        BY <3>2 DEF Shape, Inside
      <4>. QED BY <1>3, <3>1, <3>2, <4>1 DEF Shape
    <3>3. CASE b # a
      BY <1>3, <3>1, <3>3 DEF Shape
    <3>. QED BY <3>2, <3>3
  <2>2. ASSUME NEW b \in Actors, NEW c \in Actors, cur'[b] = cur'[c], cur'[b] # 0
        PROVE  b = c
    BY <1>2, <1>3, <2>2 DEF Exclusion, ExchangesOwned, Shape
  <2>3. ASSUME NEW b \in Actors, NEW i \in 1..Len(db'), cur'[b] = db'[i].ex
        PROVE  db'[i].agent = on'[b]
    BY <1>2, <1>3, <2>3 DEF Exclusion, ExchangesOwned, Shape, Unwritten
  <2>4. ASSUME NEW i \in 1..Len(db') PROVE db'[i].ex # 0 /\ db'[i].ex < nextEx'
    <3>1. db[i] \in Turn
      BY DEF Shape
    <3>. QED BY <1>3, <3>1 DEF Exclusion, ExchangesOwned, Shape, Turn
  <2>. QED BY <2>1, <2>2, <2>3, <2>4 DEF ExchangesOwned
<1>5. ASSUME NEW b \in Actors
      PROVE  /\ cur'[b] # cur[b] => cur'[b] = 0 \/ Unwritten(cur'[b])
             /\ cur'[b] = cur[b] /\ cur[b] # 0 /\ ~Unwritten(cur[b])
                  => on'[b] = on[b] /\ owner'[on[b]] = owner[on[b]]
             /\ pc'[b] \in Counting =>
                  /\ pc'[b] = pc[b] /\ cur'[b] = cur[b] /\ on'[b] = on[b]
                  /\ turnCount'[on[b]] = turnCount[on[b]]
  <2>1. cur[b] # 0 /\ ~Unwritten(cur[b]) => owner[on[b]] = b
    BY WriterIsOwner DEF Holder
  <2>2. b # NoOne /\ on[b] \in AgentIds
    BY DEF Actors, Shape
  <2>3. cur[b] # 0 /\ ~Unwritten(cur[b]) => owner'[on[b]] = owner[on[b]]
    BY <1>0, <2>1, <2>2 DEF Shape
  <2>4. cur'[b] # cur[b] => Unwritten(cur'[b])
    BY <1>2, <1>3 DEF Shape
  <2>5. pc'[b] \in Counting => b # a
    BY DEF Shape
  <2>6. pc'[b] \in Counting => pc'[b] = pc[b] /\ cur'[b] = cur[b]
    BY <1>3, <2>5 DEF Shape
  <2>. QED BY <2>3, <2>4, <2>6
<1>. QED BY <1>1, <1>4, <1>5, QuietStep

(* A thread is done with its exchange, or with a decision, and lets go of  *)
(* the lock it holds.                                                      *)
LEMMA LetGoStep ==
  ASSUME Locked, Shape, Exclusion, NEW a \in Actors,
         NEW p \in {"idle", "chosen"}, pc' = [pc EXCEPT ![a] = p],
         cur' = [cur EXCEPT ![a] = 0],
         \/ pc[a] \in Inside /\ Release(a)
         \/ pc[a] = "announcing" /\ owner' = owner,
         UNCHANGED <<db, turnCount, on, nextEx>>
  PROVE  Exclusion'
<1>0. p \notin Inside /\ "announcing" \notin Inside /\ a # NoOne /\ on[a] \in AgentIds
  BY DEF Inside, Actors, Shape
<1>1. /\ pc[a] \in Inside => owner[on[a]] = a
      /\ \/ pc[a] \in Inside /\ owner' = [owner EXCEPT ![on[a]] = NoOne]
         \/ pc[a] \notin Inside /\ owner' = owner
  BY <1>0, HolderInside DEF Release, Holder
<1>2. HolderOwns'
  <2>1. ASSUME NEW b \in Actors PROVE pc'[b] \in Inside <=> owner'[on'[b]] = b
    <3>0. b # NoOne /\ on[b] \in AgentIds /\ (pc[b] \in Inside <=> owner[on[b]] = b)
      BY HolderInside DEF Actors, Shape, Holder
    <3>1. CASE b = a
      BY <1>0, <1>1, <3>0, <3>1 DEF Shape
    <3>2. CASE b # a
      <4>1. pc'[b] = pc[b]
        BY <3>2 DEF Shape
      <4>2. owner'[on[b]] = b <=> owner[on[b]] = b
        BY <1>0, <1>1, <3>0, <3>2 DEF Shape
      <4>. QED BY <3>0, <4>1, <4>2
    <3>. QED BY <3>1, <3>2
  <2>2. ASSUME NEW j \in AgentIds, owner'[j] # NoOne PROVE on'[owner'[j]] = j
    BY <1>0, <1>1, <2>2 DEF Exclusion, HolderOwns, Shape
  <2>. QED BY <2>1, <2>2 DEF HolderOwns, InLock, Holder
<1>3. ExchangesOwned'
  <2>1. ASSUME NEW b \in Actors
        PROVE  /\ cur'[b] < nextEx'
               /\ pc'[b] \in {"idle", "chosen", "deciding"} <=> cur'[b] = 0
    BY DEF Exclusion, ExchangesOwned, Shape
  <2>2. ASSUME NEW b \in Actors, NEW c \in Actors, cur'[b] = cur'[c], cur'[b] # 0
        PROVE  b = c
    BY <2>2 DEF Exclusion, ExchangesOwned, Shape
  <2>3. ASSUME NEW b \in Actors, NEW i \in 1..Len(db'), cur'[b] = db'[i].ex
        PROVE  db'[i].agent = on'[b]
    BY <2>3 DEF Exclusion, ExchangesOwned, Shape
  <2>. QED BY <2>1, <2>2, <2>3 DEF ExchangesOwned, Exclusion
<1>4. ASSUME NEW b \in Actors
      PROVE  /\ cur'[b] # cur[b] => cur'[b] = 0
             /\ cur'[b] = cur[b] /\ cur[b] # 0 /\ ~Unwritten(cur[b])
                  => on'[b] = on[b] /\ owner'[on[b]] = owner[on[b]]
             /\ pc'[b] \in Counting =>
                  /\ pc'[b] = pc[b] /\ cur'[b] = cur[b] /\ on'[b] = on[b]
                  /\ turnCount'[on[b]] = turnCount[on[b]]
  <2>1. cur[b] # 0 /\ ~Unwritten(cur[b]) => owner[on[b]] = b
    BY WriterIsOwner DEF Holder
  <2>2. on[b] \in AgentIds
    BY DEF Shape
  <2>3. cur'[b] = cur[b] /\ cur[b] # 0 => b # a
    BY DEF Shape
  <2>4. cur'[b] = cur[b] /\ cur[b] # 0 /\ ~Unwritten(cur[b])
          => owner'[on[b]] = owner[on[b]]
    BY <1>0, <1>1, <2>1, <2>2, <2>3 DEF Shape
  <2>5. cur'[b] # cur[b] => cur'[b] = 0
    BY DEF Shape
  <2>6. pc'[b] \in Counting => pc'[b] = pc[b] /\ cur'[b] = cur[b]
    BY DEF Shape, Counting
  <2>. QED BY <2>4, <2>5, <2>6
<1>. QED BY <1>2, <1>3, <1>4, QuietStep

(* A turn is appended by a thread that holds the lock, or finds it free;   *)
(* it goes on inside the lock, or is done with its exchange.               *)
LEMMA WriteStep ==
  ASSUME Locked, Shape, Exclusion, NEW a \in Actors,
         UNCHANGED <<owner, on, nextEx>>,
         NEW t \in Turn, t.ex = cur[a], t.no = turnCount[on[a]], t.agent = on[a],
         db' = Append(db, t),
         turnCount' \in {turnCount, Counted(a)},
         NEW p \in Places, pc' = [pc EXCEPT ![a] = p],
         \/ /\ pc[a] \in Inside \ {"deciding"} /\ p \in Inside \ {"deciding"}
            /\ cur' = cur
            /\ p \in Counting => turnCount' = turnCount
         \/ /\ pc[a] = "announcing" /\ p = "idle" /\ Free(a)
            /\ cur' = [cur EXCEPT ![a] = 0]
  PROVE  Exclusion'
<1>1. cur[a] # 0 /\ cur[a] < nextEx /\ cur[a] \in Nat /\ on[a] \in AgentIds
  BY DEF Exclusion, ExchangesOwned, Shape, Inside
<1>2. pc[a] \in Inside \/ Holder(a) = NoOne
  BY DEF Free
<1>3. /\ Len(db) \in Nat /\ Len(db') = Len(db) + 1
      /\ db'[Len(db) + 1] = t
      /\ \A i \in 1..Len(db) : db'[i] = db[i]
  BY DEF Shape
<1>4. HolderOwns'
  <2>1. ASSUME NEW b \in Actors PROVE pc'[b] \in Inside <=> pc[b] \in Inside
    BY DEF Shape, Inside
  <2>. QED BY <2>1 DEF Exclusion, HolderOwns, InLock, Holder
<1>5. ExchangesOwned'
  <2>0. ASSUME NEW i \in 1..Len(db') PROVE i = Len(db) + 1 \/ i \in 1..Len(db)
    BY <1>3
  <2>1. ASSUME NEW b \in Actors
        PROVE  /\ cur'[b] < nextEx'
               /\ pc'[b] \in {"idle", "chosen", "deciding"} <=> cur'[b] = 0
    BY DEF Exclusion, ExchangesOwned, Shape, Inside
  <2>2. ASSUME NEW b \in Actors, NEW c \in Actors, cur'[b] = cur'[c], cur'[b] # 0
        PROVE  b = c
    BY <2>2 DEF Exclusion, ExchangesOwned, Shape
  <2>3. ASSUME NEW i \in 1..Len(db') PROVE db'[i].ex # 0 /\ db'[i].ex < nextEx'
    BY <1>1, <1>3, <2>0 DEF Exclusion, ExchangesOwned
  <2>4. ASSUME NEW b \in Actors, NEW i \in 1..Len(db'), cur'[b] = db'[i].ex
        PROVE  db'[i].agent = on'[b]
    <3>0. cur'[b] # 0
      BY <2>3, <2>4
    <3>1. cur'[b] = cur[b]
      BY <3>0 DEF Shape
    <3>2. CASE i = Len(db) + 1
      <4>1. cur[b] = cur[a]
        BY <1>3, <2>4, <3>1, <3>2
      <4>2. b = a
        BY <1>1, <4>1 DEF Exclusion, ExchangesOwned
      <4>. QED BY <1>3, <3>2, <4>2
    <3>3. CASE i \in 1..Len(db)
      <4>1. db'[i] = db[i]
        BY <1>3, <3>3
      <4>2. cur[b] = db[i].ex
        BY <2>4, <3>1, <4>1
      <4>3. db[i].agent = on[b]
        BY <3>3, <4>2 DEF Exclusion, ExchangesOwned
      <4>. QED BY <4>1, <4>3
    <3>4. i = Len(db) + 1 \/ i \in 1..Len(db)
      BY <2>0
    <3>. QED BY <3>2, <3>3, <3>4
  <2>. QED BY <2>1, <2>2, <2>3, <2>4 DEF ExchangesOwned
<1>6. ASSUME NEW b \in Actors, b # a, NEW i \in 1..Len(db), IsLast(on[b], i),
             on[a] # on[b]
      PROVE  i \in 1..Len(db') /\ IsLast(on[b], i)' /\ db'[i] = db[i]
  <2>1. i \in 1..Len(db') /\ db'[i] = db[i]
    BY <1>3
  <2>2. ASSUME NEW j \in 1..Len(db'), j > i PROVE db'[j].agent # on[b]
    <3>1. CASE j = Len(db) + 1
      BY <1>3, <1>6, <3>1
    <3>2. CASE j # Len(db) + 1
      <4>1. j \in 1..Len(db)
        BY <1>3, <3>2
      <4>. QED BY <1>3, <1>6, <2>2, <4>1 DEF IsLast
    <3>. QED BY <3>1, <3>2
  <2>. QED BY <1>6, <2>1, <2>2 DEF IsLast
<1>7. ASSUME NEW b \in Actors, b # a, pc[b] \in Inside PROVE on[a] # on[b]
  BY <1>2, <1>7, OtherAgent
<1>a. PICK n \in 1..Len(db') : n = Len(db')
  BY <1>3
<1>8. db'[n] = t /\ IsLast(on[a], n)'
  BY <1>3, <1>a DEF IsLast
<1>9. OpenExchangeLast'
  <2> SUFFICES ASSUME NEW b \in Actors, cur'[b] # 0, ~Unwritten(cur[b])'
               PROVE  /\ Holder(b)' = b
                      /\ \E i \in 1..Len(db') : IsLast(on[b], i)' /\ db'[i].ex = cur'[b]
    BY DEF OpenExchangeLast
  <2>1. CASE b = a
    <3>1. cur' = cur /\ pc[a] \in Inside
      BY <2>1 DEF Shape
    <3>2. Holder(a)' = a
      BY <3>1, HolderInside DEF Holder
    <3>3. db'[n].ex = cur'[a]
      BY <1>8, <3>1
    <3>. QED BY <1>8, <2>1, <3>2, <3>3
  <2>2. CASE b # a
    <3>1. cur'[b] = cur[b]
      BY <2>2 DEF Shape
    <3>2. cur[b] # cur[a]
      BY <2>2, <3>1 DEF Exclusion, ExchangesOwned
    <3>3. PICK i \in 1..Len(db') : db'[i].ex = cur[b]
      BY <3>1 DEF Unwritten
    <3>4. i # Len(db) + 1
      BY <1>3, <3>2, <3>3
    <3>5. i \in 1..Len(db) /\ db[i].ex = cur[b]
      BY <1>3, <3>3, <3>4
    <3>6. cur[b] # 0 /\ ~Unwritten(cur[b])
      BY <3>1, <3>5 DEF Unwritten
    <3>7. /\ Holder(b) = b /\ pc[b] \in Inside
          /\ \E l \in 1..Len(db) : IsLast(on[b], l) /\ db[l].ex = cur[b]
      BY <3>6, WriterIsOwner
    <3>8. PICK l \in 1..Len(db) : IsLast(on[b], l) /\ db[l].ex = cur[b]
      BY <3>7
    <3>9. l \in 1..Len(db') /\ IsLast(on[b], l)' /\ db'[l] = db[l]
      BY <1>6, <1>7, <2>2, <3>7, <3>8
    <3>10. Holder(b)' = b
      BY <3>7 DEF Holder
    <3>. QED BY <3>1, <3>8, <3>9, <3>10
  <2>. QED BY <2>1, <2>2
<1>10. CountFollowsTurn'
  <2> SUFFICES ASSUME NEW b \in Actors, pc'[b] \in Counting
               PROVE  \E i \in 1..Len(db') : /\ IsLast(on[b], i)' /\ db'[i].ex = cur'[b]
                                             /\ db'[i].no = turnCount'[on'[b]]
    BY DEF CountFollowsTurn, Counting
  <2>1. CASE b = a
    <3>1. cur'[a] = cur[a] /\ turnCount' = turnCount
      BY <2>1 DEF Shape, Counting
    <3>2. db'[n].ex = cur'[a] /\ db'[n].no = turnCount'[on'[a]]
      BY <1>8, <3>1
    <3>. QED BY <1>8, <2>1, <3>2
  <2>2. CASE b # a
    <3>1. pc[b] \in Counting /\ pc[b] \in Inside /\ cur'[b] = cur[b]
      BY <2>2 DEF Shape, Counting, Inside, Places
    <3>2. PICK l \in 1..Len(db) :
            IsLast(on[b], l) /\ db[l].ex = cur[b] /\ db[l].no = turnCount[on[b]]
      BY <3>1 DEF Exclusion, CountFollowsTurn, Counting
    <3>3. on[a] # on[b] /\ on[b] \in AgentIds
      BY <1>7, <2>2, <3>1 DEF Shape
    <3>4. turnCount'[on[b]] = turnCount[on[b]]
      BY <1>1, <3>3 DEF Shape, Counted
    <3>5. l \in 1..Len(db') /\ IsLast(on[b], l)' /\ db'[l] = db[l]
      BY <1>6, <2>2, <3>2, <3>3
    <3>. QED BY <3>1, <3>2, <3>4, <3>5
  <2>. QED BY <2>1, <2>2
<1>. QED BY <1>4, <1>5, <1>9, <1>10 DEF Exclusion

LEMMA WriteContiguous ==
  ASSUME Locked, Shape, Exclusion, ExchangesContiguous, NEW a \in Actors, cur[a] # 0,
         NEW t \in Turn, t.ex = cur[a], t.agent = on[a], db' = Append(db, t)
  PROVE  ExchangesContiguous'
<1>1. \A i \in 1..Len(db) : db[i].ex = t.ex => db[i].agent = t.agent
  BY DEF Exclusion, ExchangesOwned
<1>2. \/ \A i \in 1..Len(db) : db[i].ex # t.ex
      \/ \E l \in 1..Len(db) :
           /\ db[l].ex = t.ex
           /\ \A j \in 1..Len(db) : j > l => db[j].agent # t.agent
  <2>1. CASE Unwritten(cur[a])
    BY <2>1 DEF Unwritten
  <2>2. CASE ~Unwritten(cur[a])
    BY <2>2, WriterIsOwner DEF IsLast
  <2>. QED BY <2>1, <2>2
<1>3. Log!Contiguous(Append(db, t))
  BY <1>1, <1>2, ContiguousAppend DEF Shape, ExchangesContiguous
<1>. QED BY <1>3 DEF ExchangesContiguous, Log!Contiguous

(* The turn just written is counted. *)
LEMMA CountStep ==
  ASSUME Locked, Shape, Exclusion, NEW a \in Actors, pc[a] \in Counting,
         turnCount' = Counted(a),
         UNCHANGED <<db, on, cur, nextEx, owner>>,
         NEW p \in Inside \ ({"deciding"} \cup Counting),
         pc' = [pc EXCEPT ![a] = p]
  PROVE  Exclusion'
<1>1. Counting \subseteq Inside \ {"deciding"}
  BY DEF Inside, Places, Counting
<1>2. ASSUME NEW b \in Actors
      PROVE  /\ pc'[b] \in Inside <=> pc[b] \in Inside
             /\ pc'[b] \in {"idle", "chosen", "deciding"}
                  <=> pc[b] \in {"idle", "chosen", "deciding"}
  BY <1>1 DEF Shape, Inside
<1>3. HolderOwns'
  BY <1>2 DEF HolderOwns, InLock, Exclusion, Holder
<1>4. ExchangesOwned'
  BY <1>2 DEF ExchangesOwned, Exclusion
<1>5. ASSUME NEW b \in Actors, pc'[b] \in Counting
      PROVE  pc'[b] = pc[b] /\ turnCount'[on[b]] = turnCount[on[b]]
  <2>1. b # a /\ pc'[b] = pc[b]
    BY <1>5 DEF Shape
  <2>2. on[a] # on[b]
    BY <1>1, <1>5, <2>1, OtherAgent
  <2>3. on[a] \in AgentIds /\ on[b] \in AgentIds
    BY DEF Shape
  <2>. QED BY <2>1, <2>2, <2>3 DEF Counted, Shape
<1>. QED BY <1>3, <1>4, <1>5, QuietStep

(* The driver is cancelled or another started, or an agent is built: a     *)
(* thread that carries nothing may drop a decision and change its agent.   *)
LEMMA ShiftStep ==
  ASSUME Locked, Shape, Exclusion, UNCHANGED <<db, cur, nextEx, owner>>,
         \A b \in Actors :
           /\ pc'[b] = pc[b] \/ (pc[b] = "chosen" /\ pc'[b] = "idle")
           /\ on'[b] = on[b] \/ (pc[b] = "idle" /\ on'[b] \in AgentIds)
           /\ turnCount'[on[b]] = turnCount[on[b]]
  PROVE  Exclusion'
<1>1. ASSUME NEW b \in Actors
      PROVE  /\ pc'[b] \in Inside <=> pc[b] \in Inside
             /\ pc'[b] \in {"idle", "chosen", "deciding"}
                  <=> pc[b] \in {"idle", "chosen", "deciding"}
             /\ pc'[b] \in Counting => pc'[b] = pc[b] /\ pc[b] # "idle"
  BY DEF Inside, Counting
<1>2. HolderOwns'
  <2>1. ASSUME NEW b \in Actors PROVE pc'[b] \in Inside <=> owner'[on'[b]] = b
    <3>1. CASE on'[b] = on[b]
      BY <1>1, <3>1, HolderInside DEF Holder
    <3>2. CASE pc[b] = "idle" /\ on'[b] \in AgentIds
      <4>1. pc[b] \notin Inside
        BY <3>2 DEF Inside
      <4>. QED BY <1>1, <3>2, <4>1, NotOwner
    <3>. QED BY <3>1, <3>2
  <2>2. ASSUME NEW j \in AgentIds, owner'[j] # NoOne PROVE on'[owner'[j]] = j
    <3>1. owner[j] \in Actors /\ on[owner[j]] = j
      BY <2>2 DEF Exclusion, HolderOwns, Shape
    <3>2. pc[owner[j]] # "idle"
      BY <3>1, NotOwner DEF Inside
    <3>. QED BY <3>1, <3>2
  <2>. QED BY <2>1, <2>2 DEF HolderOwns, InLock, Holder
<1>3. ExchangesOwned'
  <2>1. ASSUME NEW b \in Actors, NEW i \in 1..Len(db'), cur'[b] = db'[i].ex
        PROVE  db'[i].agent = on'[b]
    <3>1. cur[b] # 0 /\ db[i].agent = on[b]
      BY <2>1 DEF Exclusion, ExchangesOwned
    <3>2. pc[b] # "idle"
      BY <3>1 DEF Exclusion, ExchangesOwned
    <3>. QED BY <3>1, <3>2
  <2>. QED BY <1>1, <2>1 DEF ExchangesOwned, Exclusion
<1>4. ASSUME NEW b \in Actors
      PROVE  /\ cur[b] # 0 => on'[b] = on[b]
             /\ pc'[b] \in Counting =>
                  /\ pc'[b] = pc[b] /\ on'[b] = on[b]
                  /\ turnCount'[on[b]] = turnCount[on[b]]
  BY <1>1 DEF Exclusion, ExchangesOwned
<1>. QED BY <1>2, <1>3, <1>4, QuietStep

(* A restart leaves nobody in a lock and no exchange open. *)
LEMMA RestartStep ==
  ASSUME Shape, Exclusion, Restart
  PROVE  Exclusion'
<1>1. /\ pc' = [a \in Actors |-> "idle"] /\ cur' = [a \in Actors |-> 0]
      /\ db' = db /\ nextEx' = nextEx /\ owner' = [k \in AgentIds |-> NoOne]
      /\ on' = [a \in Actors |-> agent + 1] /\ agent + 1 \in AgentIds
  BY DEF Restart, NewAgent
<1>2. HolderOwns'
  <2>1. NoOne \notin Actors
    BY DEF Actors
  <2>. QED BY <1>1, <2>1 DEF HolderOwns, InLock, Inside, Holder
<1>3. ExchangesOwned'
  BY <1>1 DEF ExchangesOwned, Exclusion, Shape
<1>4. OpenExchangeLast' /\ CountFollowsTurn'
  BY <1>1 DEF OpenExchangeLast, CountFollowsTurn
<1>. QED BY <1>2, <1>3, <1>4 DEF Exclusion

LEMMA SameRows ==
  ASSUME ExchangesContiguous, db' = db PROVE ExchangesContiguous'
BY DEF ExchangesContiguous, Log!Contiguous

LEMMA AddTurnStep ==
  ASSUME Locked, TypeOK, Exclusion, ExchangesContiguous, NEW a \in Actors,
         NEW role \in Roles,
         NEW then \in Inside \ {"deciding"}, pc[a] \in Inside \ {"deciding"},
         AddTurn(a, role, then)
  PROVE  Exclusion' /\ ExchangesContiguous'
<1>0. Shape
  BY ShapeOfType
<1> DEFINE t == NewTurn(a, role)
<1>1. t \in Turn /\ t.ex = cur[a] /\ t.no = turnCount[on[a]] /\ t.agent = on[a]
  BY NewTurnType DEF NewTurn
<1>2. UNCHANGED <<turnCount, owner, on, cur, nextEx>>
  BY DEF AddTurn
<1>3. cur[a] # 0
  BY DEF Exclusion, ExchangesOwned, Inside
<1>4. \/ db' = Append(db, t) /\ pc' = [pc EXCEPT ![a] = then]
      \/ db' = Append(db, t) /\ pc' = [pc EXCEPT ![a] = "leaving"]
      \/ db' = db /\ pc' = [pc EXCEPT ![a] = "leaving"]
  BY DEF AddTurn, Goto
<1> HIDE DEF t
<1>5. ASSUME NEW p \in Inside \ {"deciding"}, db' = Append(db, t),
             pc' = [pc EXCEPT ![a] = p]
      PROVE  Exclusion' /\ ExchangesContiguous'
  <2>1. p \in Places
    BY DEF Inside
  <2>2. Exclusion'
    BY <1>0, <1>1, <1>2, <1>5, <2>1, WriteStep
  <2>3. ExchangesContiguous'
    BY <1>0, <1>1, <1>3, <1>5, WriteContiguous
  <2>. QED BY <2>2, <2>3
<1>6. "leaving" \in Inside \ ({"deciding"} \cup Counting)
  BY DEF Inside, Places, Counting
<1>7. CASE db' = db /\ pc' = [pc EXCEPT ![a] = "leaving"]
  BY <1>0, <1>2, <1>6, <1>7, MoveStep, SameRows
<1>. QED BY <1>4, <1>5, <1>6, <1>7

LEMMA ExclusionCarry ==
  ASSUME Locked, TypeOK, Exclusion, ExchangesContiguous,
         NEW a \in Actors, Carry(a)
  PROVE  Exclusion' /\ ExchangesContiguous'
<1>0. Shape
  BY ShapeOfType
<1> DEFINE Walk == {"dozing", "hearing", "thinking", "leaving"}
<1>a. /\ Walk \subseteq Inside \ ({"deciding"} \cup Counting)
      /\ {"feeling", "murmur"} \subseteq Inside \ ({"deciding"} \cup Counting)
      /\ Counting \subseteq Inside \ {"deciding"}
  BY DEF Inside, Places, Counting
<1>b. \A b \in Actors : (pc[b] \in {"idle", "chosen", "deciding"}) <=> cur[b] = 0
  BY DEF Exclusion, ExchangesOwned
<1>t. /\ NewTurn(a, "assistant") \in Turn
      /\ NewTurn(a, "assistant").ex = cur[a]
      /\ NewTurn(a, "assistant").no = turnCount[on[a]]
      /\ NewTurn(a, "assistant").agent = on[a]
  BY NewTurnType DEF NewTurn, Roles
<1>1. CASE CheckSleeping(a)
  <2>1. pc[a] \in Inside \ {"deciding"}
    BY <1>1 DEF CheckSleeping, Inside, Places
  <2>2. PICK p \in Walk : pc' = [pc EXCEPT ![a] = p]
    BY <1>1 DEF CheckSleeping, Goto
  <2>3. UNCHANGED <<db, turnCount, on, cur, nextEx, owner>>
    BY <1>1 DEF CheckSleeping, log
  <2>. QED BY <1>0, <1>a, <2>1, <2>2, <2>3, MoveStep, SameRows
<1>2. CASE HearAsleep(a)
  BY <1>2, AddTurnStep DEF HearAsleep, Inside, Places, Roles
<1>3. CASE Murmur(a)
  BY <1>3, AddTurnStep DEF Murmur, Inside, Places, Roles
<1>4. CASE Hear(a)
  BY <1>4, AddTurnStep DEF Hear, Inside, Places, Roles
<1>5. CASE Reply(a)
  BY <1>5, AddTurnStep DEF Reply, Inside, Places, Roles
<1>6. CASE GiveUp(a)
  <2>1. pc[a] \in Inside \ {"deciding"}
    BY <1>6 DEF GiveUp, Inside, Places
  <2>2. UNCHANGED <<db, turnCount, on, cur, nextEx, owner>>
    BY <1>6 DEF GiveUp, log
  <2>. QED BY <1>0, <1>6, <1>a, <2>1, <2>2, MoveStep, SameRows DEF GiveUp, Goto
<1>7. CASE Count(a)
  <2>1. pc[a] \in Counting
    BY <1>7 DEF Count, Counting
  <2>2. AfterCount(a) \in Inside \ ({"deciding"} \cup Counting)
    BY <1>a, <2>1 DEF AfterCount, Counting
  <2>. QED BY <1>0, <1>7, <2>1, <2>2, CountStep, SameRows DEF Count, Goto
<1>8. CASE Feel(a)
  <2>1. pc[a] \in Inside \ {"deciding"}
    BY <1>8 DEF Feel, Inside, Places
  <2>2. PICK p \in Walk : pc' = [pc EXCEPT ![a] = p]
    BY <1>8 DEF Feel, Goto
  <2>3. UNCHANGED <<db, turnCount, on, cur, nextEx, owner>>
    BY <1>8 DEF Feel, log
  <2>. QED BY <1>0, <1>a, <2>1, <2>2, <2>3, MoveStep, SameRows
<1>9. CASE Leave(a)
  <2>1. pc[a] \in Inside
    BY <1>9 DEF Leave, Inside, Places
  <2>2. UNCHANGED <<db, turnCount, on, nextEx>>
    BY <1>9 DEF Leave, log
  <2>. QED BY <1>0, <1>9, <2>1, <2>2, LetGoStep, SameRows DEF Leave, Goto
<1>10. CASE Announce(a)
  <2>1. cur[a] # 0
    BY <1>10, <1>b DEF Announce
  <2>2. "idle" \in Places
    BY DEF Places
  <2>3. /\ pc[a] = "announcing" /\ Free(a)
        /\ db' = Append(db, NewTurn(a, "assistant"))
        /\ turnCount' = Counted(a)
        /\ cur' = [cur EXCEPT ![a] = 0] /\ pc' = [pc EXCEPT ![a] = "idle"]
        /\ UNCHANGED <<owner, on, nextEx>>
    BY <1>10 DEF Announce, Goto
  <2>4. Exclusion'
    BY <1>0, <1>t, <2>2, <2>3, WriteStep
  <2>5. ExchangesContiguous'
    BY <1>0, <1>t, <2>1, <2>3, WriteContiguous
  <2>. QED BY <2>4, <2>5
<1>11. CASE LoseAnnouncement(a)
  <2>1. cur[a] # 0
    BY <1>11, <1>b DEF LoseAnnouncement
  <2>2. "idle" \in Places
    BY DEF Places
  <2>3. /\ pc[a] = "announcing"
        /\ db' = db \/ (Free(a) /\ db' = Append(db, NewTurn(a, "assistant")))
        /\ cur' = [cur EXCEPT ![a] = 0] /\ pc' = [pc EXCEPT ![a] = "idle"]
        /\ UNCHANGED <<turnCount, owner, on, nextEx>>
    BY <1>11 DEF LoseAnnouncement, Goto
  <2>4. CASE db' = db
    BY <1>0, <2>3, <2>4, LetGoStep, SameRows
  <2>5. CASE Free(a) /\ db' = Append(db, NewTurn(a, "assistant"))
    <3>1. Exclusion'
      BY <1>0, <1>t, <2>2, <2>3, <2>5, WriteStep
    <3>2. ExchangesContiguous'
      BY <1>0, <1>t, <2>1, <2>5, WriteContiguous
    <3>. QED BY <3>1, <3>2
  <2>. QED BY <2>3, <2>4, <2>5
<1>12. CASE Decided(a)
  <2>1. pc[a] \in Inside /\ cur[a] = 0
    BY <1>12, <1>b DEF Decided, Inside, Places
  <2>2. cur' = [cur EXCEPT ![a] = 0] /\ UNCHANGED <<db, turnCount, on, nextEx>>
    BY <1>0, <1>12, <2>1 DEF Decided, Shape, log
  <2>3. PICK p \in {"idle", "chosen"} : pc' = [pc EXCEPT ![a] = p]
    BY <1>12 DEF Decided, Goto
  <2>. QED BY <1>0, <1>12, <2>1, <2>2, <2>3, LetGoStep, SameRows DEF Decided
<1>13. CASE Speak(a)
  <2>1. /\ pc[a] \notin Inside /\ cur[a] = 0
        /\ "thinking" \in Inside \ Counting
    BY <1>13, <1>b DEF Speak, Inside, Places, Counting
  <2>2. /\ Free(a) /\ Take(a) /\ StartExchange(a)
        /\ pc' = [pc EXCEPT ![a] = "thinking"]
        /\ UNCHANGED <<db, turnCount, on>>
    BY <1>13 DEF Speak, Goto, log
  <2>3. Exclusion'
    BY <1>0, <2>1, <2>2, TakeStep
  <2>. QED BY <2>2, <2>3, SameRows
<1>. QED
  BY <1>1, <1>2, <1>3, <1>4, <1>5, <1>6, <1>7, <1>8, <1>9, <1>10, <1>11,
     <1>12, <1>13 DEF Carry

LEMMA ExclusionNext ==
  ASSUME Locked, TypeOK, AgentsKnown, Exclusion, ExchangesContiguous, [Next]_vars
  PROVE  Exclusion' /\ ExchangesContiguous'
<1>0. Shape
  BY ShapeOfType
<1>a. \A b \in Actors : (pc[b] \in {"idle", "chosen", "deciding"}) <=> cur[b] = 0
  BY DEF Exclusion, ExchangesOwned
<1>b. /\ agent \in AgentIds /\ Users \subseteq Actors /\ Drivers \subseteq Actors
      /\ on \in [Actors -> AgentIds]
  BY DEF TypeOK, Actors
<1>c. /\ {"entered", "deciding"} \subseteq Inside \ Counting
      /\ {"waiting", "idle"} \cap Inside = {}
  BY DEF Inside, Places, Counting
<1>1. ASSUME NEW u \in Users, Arrive(u)
      PROVE  Exclusion' /\ ExchangesContiguous'
  <2>1. /\ u \in Actors /\ pc[u] = "idle" /\ pc' = [pc EXCEPT ![u] = "waiting"]
        /\ StartExchange(u) /\ on' = [on EXCEPT ![u] = agent]
        /\ UNCHANGED <<db, turnCount, owner>>
    BY <1>1, <1>b DEF Arrive, Goto, log
  <2>2. Exclusion'
    BY <1>0, <1>b, <2>1, OpenStep
  <2>. QED BY <2>1, <2>2, SameRows
<1>2. ASSUME NEW u \in Users, Enter(u)
      PROVE  Exclusion' /\ ExchangesContiguous'
  <2>1. /\ u \in Actors /\ pc[u] = "waiting" /\ pc' = [pc EXCEPT ![u] = "entered"]
        /\ Free(u) /\ Take(u) /\ cur[u] # 0
        /\ UNCHANGED <<db, turnCount, on, cur, nextEx>>
    BY <1>2, <1>a, <1>b DEF Enter, Goto, log
  <2>2. Exclusion'
    BY <1>0, <1>c, <2>1, TakeStep
  <2>. QED BY <2>1, <2>2, SameRows
<1>3. ASSUME NEW d \in Drivers, FlipSleep(d)
      PROVE  Exclusion' /\ ExchangesContiguous'
  <2>1. /\ d \in Actors /\ pc[d] = "idle" /\ pc' = [pc EXCEPT ![d] = "announcing"]
        /\ StartExchange(d) /\ on' = [on EXCEPT ![d] = on[d]] /\ on[d] \in AgentIds
        /\ UNCHANGED <<db, turnCount, owner>>
    BY <1>3, <1>b DEF FlipSleep, Goto, log
  <2>2. Exclusion'
    BY <1>0, <2>1, OpenStep
  <2>. QED BY <2>1, <2>2, SameRows
<1>4. ASSUME NEW d \in Drivers, Decide(d)
      PROVE  Exclusion' /\ ExchangesContiguous'
  <2>1. /\ d \in Actors /\ pc[d] = "idle" /\ pc' = [pc EXCEPT ![d] = "deciding"]
        /\ Free(d) /\ Take(d) /\ cur[d] = 0
        /\ UNCHANGED <<db, turnCount, on, cur, nextEx>>
    BY <1>4, <1>a, <1>b DEF Decide, Goto, log
  <2>2. Exclusion'
    BY <1>0, <1>c, <2>1, TakeStep
  <2>. QED BY <2>1, <2>2, SameRows
<1>5. ASSUME NEW d \in Drivers, StartDriver(d)
      PROVE  Exclusion' /\ ExchangesContiguous'
  <2>1. ASSUME NEW b \in Actors
        PROVE  /\ pc'[b] = pc[b] \/ (pc[b] = "chosen" /\ pc'[b] = "idle")
               /\ on'[b] = on[b] \/ (pc[b] = "idle" /\ on'[b] \in AgentIds)
    BY <1>5, <1>b DEF StartDriver, CancelDriver
  <2>2. UNCHANGED <<db, turnCount, cur, nextEx, owner>>
    BY <1>5 DEF StartDriver, log
  <2>. QED BY <1>0, <2>1, <2>2, ShiftStep, SameRows
<1>6. CASE Rebuild
  <2>1. UNCHANGED <<db, on, cur, nextEx, owner>>
    BY <1>6 DEF Rebuild
  <2>2. ASSUME NEW b \in Actors
        PROVE  /\ pc'[b] = pc[b] \/ (pc[b] = "chosen" /\ pc'[b] = "idle")
               /\ turnCount'[on[b]] = turnCount[on[b]]
    <3>1. pc'[b] = pc[b] \/ (pc[b] = "chosen" /\ pc'[b] = "idle")
      BY <1>6 DEF Rebuild, CancelDriver
    <3>2. on[b] # agent + 1
      BY DEF AgentsKnown, TypeOK, AgentIds
    <3>3. PICK n : turnCount' = [turnCount EXCEPT ![agent + 1] = n]
      BY <1>6 DEF Rebuild, NewAgent
    <3>. QED BY <1>0, <3>1, <3>2, <3>3 DEF Shape
  <2>. QED BY <1>0, <2>1, <2>2, ShiftStep, SameRows
<1>7. CASE Restart
  BY <1>0, <1>7, RestartStep, SameRows DEF Restart
<1>8. CASE UNCHANGED vars
  BY <1>8 DEF vars, log, Exclusion, HolderOwns, InLock, Holder, ExchangesOwned,
              OpenExchangeLast, Unwritten, IsLast, CountFollowsTurn,
              ExchangesContiguous, Log!Contiguous
<1>9. ~Forget
  BY DEF Forget
<1>. QED BY <1>1, <1>2, <1>3, <1>4, <1>5, <1>6, <1>7, <1>8, <1>9, ExclusionCarry
         DEF Next

LEMMA ExclusionInit == Init => Exclusion /\ ExchangesContiguous
<1> SUFFICES ASSUME Init PROVE Exclusion /\ ExchangesContiguous
  OBVIOUS
<1>1. HolderOwns
  BY DEF Init, HolderOwns, InLock, Inside, Holder, Actors, AgentIds
<1>2. ExchangesOwned
  BY DEF Init, ExchangesOwned
<1>3. OpenExchangeLast /\ CountFollowsTurn
  BY DEF Init, OpenExchangeLast, CountFollowsTurn
<1>4. ExchangesContiguous
  BY DEF Init, ExchangesContiguous, Log!Contiguous
<1>. QED BY <1>1, <1>2, <1>3, <1>4 DEF Exclusion

(* On the Web, whatever the interleaving, the agents rebuilt while threads *)
(* still work for older ones, and the restarts: of the turns one agent     *)
(* stores, none of another exchange, a user's or the agent's own, stands   *)
(* between the turns of one exchange. The promise of                       *)
(* Agent.process_message, process_proactive and process_explore.           *)
THEOREM ExchangesExclude ==
  ASSUME Locked
  PROVE  Spec => []ExchangesContiguous
<1> DEFINE Inv == TypeOK /\ Numbers /\ Exclusion /\ ExchangesContiguous
<1>1. Init => Inv
  BY TypeInit, NumbersInit, ExclusionInit
<1>2. Inv /\ [Next]_vars => Inv'
  BY TypeNext, NumbersNext, ExclusionNext DEF Numbers
<1>3. Inv => ExchangesContiguous
  OBVIOUS
<1>. QED BY <1>1, <1>2, <1>3, PTL DEF Spec
-----------------------------------------------------------------------------
(* The Web's conversation implements Transcript, each step one of its      *)
(* steps or a stutter.                                                     *)
Speaking == [k \in AgentIds |-> IF owner[k] = NoOne THEN 0 ELSE cur[owner[k]]]

LEMMA SpeakingIs ==
  ASSUME Shape, NEW k \in AgentIds
  PROVE  /\ Speaking[k] = IF owner[k] = NoOne THEN 0 ELSE cur[owner[k]]
         /\ Speaking[k] \in Nat
BY DEF Speaking, Shape

(* The exchange of one agent's log changes, or of none. *)
LEMMA OneSpeaks ==
  ASSUME NEW k \in AgentIds, NEW e, Speaking'[k] = e,
         \A j \in AgentIds : j # k => Speaking'[j] = Speaking[j]
  PROVE  Speaking' = [Speaking EXCEPT ![k] = e]
BY DEF Speaking

LEMMA SameSpeaks ==
  ASSUME \A j \in AgentIds : Speaking'[j] = Speaking[j]
  PROVE  Speaking' = Speaking
BY DEF Speaking

(* A log whose lock stays with its holder goes on with its exchange.       *)
LEMMA SpeakingKept ==
  ASSUME Shape, NEW a \in Actors,
         \A b \in Actors : b # a => cur'[b] = cur[b],
         NEW j \in AgentIds, owner'[j] = owner[j],
         owner[j] # a \/ cur'[a] = cur[a]
  PROVE  Speaking'[j] = Speaking[j]
<1>1. owner[j] = NoOne \/ owner[j] \in Actors
  BY DEF Shape
<1>2. owner[j] = NoOne \/ cur'[owner[j]] = cur[owner[j]]
  BY <1>1
<1>. QED BY <1>2 DEF Speaking

LEMMA StepStutter ==
  ASSUME UNCHANGED <<db, turnCount, agent>>, Speaking' = Speaking
  PROVE  [Log!Next]_(Log!vars)
BY DEF Log!vars, Speaking

LEMMA StepBegin ==
  ASSUME UNCHANGED <<db, turnCount, agent>>, NEW k \in AgentIds, k \in 1..agent,
         NEW e \in Nat \ {0}, Unwritten(e), \A j \in AgentIds : Speaking[j] # e,
         Speaking[k] = 0, Speaking' = [Speaking EXCEPT ![k] = e]
  PROVE  [Log!Next]_(Log!vars)
<1>1. Speaking'[k] = e
  BY DEF Speaking
<1>2. Log!Begin(k)
  BY <1>1 DEF Log!Begin, Log!Fresh, Unwritten, Speaking
<1>. QED BY <1>2 DEF Log!Next

LEMMA StepEnd ==
  ASSUME UNCHANGED <<db, turnCount, agent>>, NEW k \in AgentIds, k \in 1..agent,
         Speaking[k] # 0, Speaking' = [Speaking EXCEPT ![k] = 0]
  PROVE  [Log!Next]_(Log!vars)
<1>1. Log!End(k)
  BY DEF Log!End, Speaking
<1>. QED BY <1>1 DEF Log!Next

LEMMA StepSay ==
  ASSUME Shape, NEW k \in AgentIds, k \in 1..agent,
         NEW t \in Turn, db' = Append(db, t), t.ex = Speaking[k], t.agent = k,
         t.no = turnCount[k], UNCHANGED <<turnCount, agent>>,
         Speaking[k] # 0, Speaking' = Speaking
  PROVE  [Log!Next]_(Log!vars)
<1>1. Len(db') = Len(db) + 1 /\ db'[Len(db')] = t
  BY DEF Shape
<1>2. Log!Say(k)
  BY <1>1 DEF Log!Say, Log!Appended, Log!Newest, Speaking
<1>. QED BY <1>2 DEF Log!Next

LEMMA StepAnnounce ==
  ASSUME Shape, NEW k \in AgentIds, k \in 1..agent,
         NEW t \in Turn, db' = Append(db, t), t.agent = k, t.no = turnCount[k],
         Unwritten(t.ex), \A j \in AgentIds : Speaking[j] # t.ex,
         turnCount' \in {turnCount, [turnCount EXCEPT ![k] = @ + 1]},
         agent' = agent, Speaking[k] = 0, Speaking' = Speaking
  PROVE  [Log!Next]_(Log!vars)
<1>1. Len(db') = Len(db) + 1 /\ db'[Len(db')] = t
  BY DEF Shape
<1>2. Log!Appended(k, Log!Newest.ex)
  BY <1>1 DEF Log!Appended, Log!Newest
<1>3. Log!Fresh(Log!Newest.ex)
  BY <1>1 DEF Log!Fresh, Log!Newest, Unwritten, Speaking
<1>4. Log!Announce(k)
  BY <1>2, <1>3 DEF Log!Announce, Speaking
<1>. QED BY <1>4 DEF Log!Next

LEMMA StepAdvance ==
  ASSUME Locked, Shape, Exclusion, NEW a \in Actors, on[a] \in 1..agent,
         pc[a] \in Counting, turnCount' = Counted(a), UNCHANGED <<db, agent>>,
         Speaking' = Speaking
  PROVE  [Log!Next]_(Log!vars)
<1>0. pc[a] \in Inside /\ on[a] \in AgentIds /\ a # NoOne
  BY DEF Counting, Inside, Places, Shape, Actors
<1>1. owner[on[a]] = a /\ cur[a] # 0
  BY <1>0, HolderInside DEF Holder, Exclusion, ExchangesOwned, Counting
<1>2. Speaking[on[a]] = cur[a]
  BY <1>0, <1>1, SpeakingIs
<1>3. PICK i \in 1..Len(db) :
        IsLast(on[a], i) /\ db[i].ex = cur[a] /\ db[i].no = turnCount[on[a]]
  BY DEF Exclusion, CountFollowsTurn, Counting
<1>4. Log!Advance(on[a])
  BY <1>1, <1>2, <1>3 DEF Log!Advance, IsLast, Speaking, Counted
<1>. QED BY <1>4 DEF Log!Next

LEMMA StepResume ==
  ASSUME TypeOK, HasTop, NewAgent(agent + 1), db' = db,
         Speaking' \in {Speaking, [k \in AgentIds |-> 0]}
  PROVE  [Log!Next]_(Log!vars)
<1>1. agent' = agent + 1 /\ agent + 1 \in AgentIds
  BY DEF NewAgent
<1>2. PICK n \in {0, MaxNumber(db)} : turnCount' = [turnCount EXCEPT ![agent + 1] = n]
  BY DEF NewAgent
<1>3. turnCount'[agent'] = n /\ turnCount' = [turnCount EXCEPT ![agent'] = turnCount'[agent']]
  BY <1>1, <1>2 DEF TypeOK
<1>4. Log!Largest(MaxNumber(db))
  BY MaxNumberIs DEF Log!Largest
<1>5. turnCount'[agent'] = 0 \/ Log!Largest(turnCount'[agent'])
  BY <1>2, <1>3, <1>4
<1>6. Log!Resume
  BY <1>1, <1>3, <1>5 DEF Log!Resume, Speaking
<1>. QED BY <1>6 DEF Log!Next

(* A thread in the lock writes the exchange of its agent's log; one that   *)
(* is not holds no lock, and what it carries is not being written.         *)
LEMMA InsideSpeaks ==
  ASSUME Locked, Shape, Exclusion, NEW a \in Actors, pc[a] \in Inside
  PROVE  Speaking[on[a]] = cur[a] /\ \A j \in AgentIds : j # on[a] => owner[j] # a
<1>1. a # NoOne /\ on[a] \in AgentIds
  BY DEF Actors, Shape
<1>2. owner[on[a]] = a
  BY HolderInside DEF Holder
<1>3. \A j \in AgentIds : owner[j] # NoOne => on[owner[j]] = j
  BY DEF Exclusion, HolderOwns
<1>. QED BY <1>1, <1>2, <1>3, SpeakingIs

LEMMA OutsideFresh ==
  ASSUME Locked, Shape, Exclusion, NEW a \in Actors, pc[a] \notin Inside, cur[a] # 0
  PROVE  Unwritten(cur[a]) /\ \A j \in AgentIds : Speaking[j] # cur[a]
<1>1. Unwritten(cur[a])
  BY WriterIsOwner
<1>2. ASSUME NEW j \in AgentIds, Speaking[j] = cur[a] PROVE FALSE
  <2>1. owner[j] # a /\ owner[j] # NoOne
    BY <1>2, NotOwner, SpeakingIs
  <2>2. owner[j] \in Actors /\ cur[owner[j]] = cur[a]
    BY <1>2, <2>1, SpeakingIs DEF Shape
  <2>. QED BY <2>1, <2>2 DEF Exclusion, ExchangesOwned
<1>. QED BY <1>1, <1>2

LEMMA FreeSilent ==
  ASSUME Shape, NEW a \in Actors, Free(a)
  PROVE  Speaking[on[a]] = 0
<1>1. on[a] \in AgentIds
  BY DEF Shape
<1>. QED BY <1>1, SpeakingIs DEF Free, Holder

LEMMA AddTurnSays ==
  ASSUME Locked, TypeOK, AgentsKnown, Exclusion, NEW a \in Actors,
         NEW role \in Roles, NEW then,
         pc[a] \in Inside \ {"deciding"}, AddTurn(a, role, then)
  PROVE  [Log!Next]_(Log!vars)
<1>0. Shape /\ on[a] \in AgentIds /\ on[a] \in 1..agent
  <2>1. Shape
    BY ShapeOfType
  <2>2. on[a] \in AgentIds /\ agent \in Nat /\ on[a] <= agent
    BY DEF TypeOK, AgentsKnown, AgentIds
  <2>. QED BY <2>1, <2>2 DEF AgentIds
<1> DEFINE t == NewTurn(a, role)
<1>1. t \in Turn /\ t.ex = cur[a] /\ t.no = turnCount[on[a]] /\ t.agent = on[a]
  BY NewTurnType DEF NewTurn
<1>2. Speaking[on[a]] = cur[a] /\ cur[a] # 0
  BY <1>0, InsideSpeaks DEF Inside, Exclusion, ExchangesOwned
<1>3. Speaking' = Speaking /\ UNCHANGED <<turnCount, agent>>
  BY DEF AddTurn, Speaking, host
<1>4. db' = db \/ db' = Append(db, t)
  BY DEF AddTurn
<1> HIDE DEF t
<1>5. CASE db' = db
  BY <1>3, <1>5, StepStutter
<1>6. CASE db' = Append(db, t)
  BY <1>0, <1>1, <1>2, <1>3, <1>6, StepSay
<1>. QED BY <1>4, <1>5, <1>6

LEMMA CarryImplements ==
  ASSUME Locked, TypeOK, AgentsKnown, Exclusion, NEW a \in Actors, Carry(a)
  PROVE  [Log!Next]_(Log!vars)
<1>0. Shape /\ on[a] \in AgentIds /\ on[a] \in 1..agent
  <2>1. Shape
    BY ShapeOfType
  <2>2. on[a] \in AgentIds /\ agent \in Nat /\ on[a] <= agent
    BY DEF TypeOK, AgentsKnown, AgentIds
  <2>. QED BY <2>1, <2>2 DEF AgentIds
<1>b. (pc[a] \in {"idle", "chosen", "deciding"}) <=> cur[a] = 0
  BY DEF Exclusion, ExchangesOwned
<1>1. CASE CheckSleeping(a) \/ GiveUp(a) \/ Feel(a)
  <2>1. UNCHANGED <<db, turnCount, agent>> /\ UNCHANGED <<owner, cur>>
    BY <1>1 DEF CheckSleeping, GiveUp, Feel, log, host
  <2>. QED BY <2>1, StepStutter DEF Speaking
<1>2. CASE HearAsleep(a)
  BY <1>2, AddTurnSays DEF HearAsleep, Inside, Places, Roles
<1>3. CASE Murmur(a)
  BY <1>3, AddTurnSays DEF Murmur, Inside, Places, Roles
<1>4. CASE Hear(a)
  BY <1>4, AddTurnSays DEF Hear, Inside, Places, Roles
<1>5. CASE Reply(a)
  BY <1>5, AddTurnSays DEF Reply, Inside, Places, Roles
<1>6. CASE Count(a)
  <2>1. pc[a] \in Counting /\ turnCount' = Counted(a) /\ UNCHANGED <<db, agent>>
    BY <1>6 DEF Count, Counting, host
  <2>2. Speaking' = Speaking
    BY <1>6 DEF Count, Speaking
  <2>. QED BY <1>0, <2>1, <2>2, StepAdvance
<1>7. CASE Leave(a)
  <2>1. pc[a] \in Inside /\ cur[a] # 0 /\ a # NoOne
    BY <1>7, <1>b DEF Leave, Inside, Places, Actors
  <2>2. Speaking[on[a]] = cur[a] /\ \A j \in AgentIds : j # on[a] => owner[j] # a
    BY <1>0, <2>1, InsideSpeaks
  <2>3. owner[on[a]] = a
    BY <2>1, HolderInside DEF Holder
  <2>4. owner' = [owner EXCEPT ![on[a]] = NoOne] /\ cur' = [cur EXCEPT ![a] = 0]
    BY <1>7, <2>3 DEF Leave, Release
  <2>5. Speaking'[on[a]] = 0
    BY <1>0, <2>4 DEF Speaking, Shape
  <2>6. ASSUME NEW j \in AgentIds, j # on[a] PROVE Speaking'[j] = Speaking[j]
    <3>1. owner'[j] = owner[j] /\ owner[j] # a
      BY <1>0, <2>2, <2>4, <2>6 DEF Shape
    <3>2. \A b \in Actors : b # a => cur'[b] = cur[b]
      BY <1>0, <2>4 DEF Shape
    <3>. QED BY <1>0, <3>1, <3>2, SpeakingKept
  <2>7. Speaking' = [Speaking EXCEPT ![on[a]] = 0]
    BY <1>0, <2>5, <2>6, OneSpeaks
  <2>8. UNCHANGED <<db, turnCount, agent>>
    BY <1>7 DEF Leave, log, host
  <2>. QED BY <1>0, <2>1, <2>2, <2>7, <2>8, StepEnd
<1>8. CASE Announce(a) \/ LoseAnnouncement(a)
  <2> DEFINE t == NewTurn(a, "assistant")
  <2>1. t \in Turn /\ t.ex = cur[a] /\ t.no = turnCount[on[a]] /\ t.agent = on[a]
    BY NewTurnType DEF NewTurn, Roles
  <2>2. /\ pc[a] \notin Inside /\ cur[a] # 0
        /\ cur' = [cur EXCEPT ![a] = 0] /\ owner' = owner /\ agent' = agent
    BY <1>8, <1>b DEF Announce, LoseAnnouncement, Inside, host
  <2>3. Unwritten(t.ex) /\ \A j \in AgentIds : Speaking[j] # t.ex
    BY <1>0, <2>1, <2>2, OutsideFresh
  <2>4. \A j \in AgentIds : Speaking'[j] = Speaking[j]
    <3>1. \A b \in Actors : b # a => cur'[b] = cur[b]
      BY <1>0, <2>2 DEF Shape
    <3>2. \A j \in AgentIds : owner[j] # a
      BY <1>0, <2>2, NotOwner
    <3>. QED BY <1>0, <2>2, <3>1, <3>2, SpeakingKept
  <2>5. Speaking' = Speaking
    BY <2>4, SameSpeaks
  <2>6. \/ db' = db /\ turnCount' = turnCount
        \/ /\ Free(a) /\ db' = Append(db, t)
           /\ turnCount' \in {turnCount, [turnCount EXCEPT ![on[a]] = @ + 1]}
    BY <1>8 DEF Announce, LoseAnnouncement, Counted
  <2> HIDE DEF t
  <2>7. CASE db' = db /\ turnCount' = turnCount
    BY <2>2, <2>5, <2>7, StepStutter
  <2>8. CASE /\ Free(a) /\ db' = Append(db, t)
             /\ turnCount' \in {turnCount, [turnCount EXCEPT ![on[a]] = @ + 1]}
    <3>1. Speaking[on[a]] = 0
      BY <1>0, <2>8, FreeSilent
    <3>. QED BY <1>0, <2>1, <2>2, <2>3, <2>5, <2>8, <3>1, StepAnnounce
  <2>. QED BY <2>6, <2>7, <2>8
<1>9. CASE Decided(a)
  <2>1. pc[a] \in Inside /\ cur[a] = 0 /\ a # NoOne
    BY <1>9, <1>b DEF Decided, Inside, Places, Actors
  <2>2. Speaking[on[a]] = 0 /\ \A j \in AgentIds : j # on[a] => owner[j] # a
    BY <1>0, <2>1, InsideSpeaks
  <2>3. owner[on[a]] = a
    BY <2>1, HolderInside DEF Holder
  <2>4. /\ owner' = [owner EXCEPT ![on[a]] = NoOne] /\ cur' = cur
        /\ UNCHANGED <<db, turnCount, agent>>
    BY <1>9, <2>3 DEF Decided, Release, log, host
  <2>5. Speaking'[on[a]] = 0
    BY <1>0, <2>4 DEF Speaking, Shape
  <2>6. ASSUME NEW j \in AgentIds, j # on[a] PROVE Speaking'[j] = Speaking[j]
    BY <1>0, <2>4, <2>6 DEF Speaking, Shape
  <2>7. Speaking' = Speaking
    BY <2>2, <2>5, <2>6, SameSpeaks
  <2>. QED BY <2>4, <2>7, StepStutter
<1>10. CASE Speak(a)
  <2>1. /\ pc[a] \notin Inside /\ Free(a) /\ a # NoOne
        /\ owner' = [owner EXCEPT ![on[a]] = a]
        /\ cur' = [cur EXCEPT ![a] = nextEx] /\ nextEx \in Nat \ {0}
        /\ UNCHANGED <<db, turnCount, agent>>
    BY <1>0, <1>10 DEF Speak, Take, StartExchange, Inside, Shape, Actors, log, host
  <2>2. Unwritten(nextEx) /\ \A b \in Actors : cur[b] # nextEx
    BY <1>0, FreshExchange
  <2>3. ASSUME NEW j \in AgentIds PROVE Speaking[j] # nextEx
    BY <1>0, <2>1, <2>2, SpeakingIs DEF Shape
  <2>4. Speaking[on[a]] = 0
    BY <1>0, <2>1, FreeSilent
  <2>5. Speaking'[on[a]] = nextEx
    BY <1>0, <2>1 DEF Speaking, Shape
  <2>6. ASSUME NEW j \in AgentIds, j # on[a] PROVE Speaking'[j] = Speaking[j]
    <3>1. owner'[j] = owner[j] /\ owner[j] # a
      BY <1>0, <2>1, <2>6, NotOwner DEF Shape
    <3>2. \A b \in Actors : b # a => cur'[b] = cur[b]
      BY <1>0, <2>1 DEF Shape
    <3>. QED BY <1>0, <3>1, <3>2, SpeakingKept
  <2>7. Speaking' = [Speaking EXCEPT ![on[a]] = nextEx]
    BY <1>0, <2>5, <2>6, OneSpeaks
  <2>8. PICK e \in Nat \ {0} : e = nextEx
    BY <2>1
  <2>9. /\ Unwritten(e) /\ \A j \in AgentIds : Speaking[j] # e
        /\ Speaking' = [Speaking EXCEPT ![on[a]] = e]
    BY <2>2, <2>3, <2>7, <2>8
  <2>. QED BY <1>0, <2>1, <2>4, <2>9, StepBegin
<1>. QED
  BY <1>1, <1>2, <1>3, <1>4, <1>5, <1>6, <1>7, <1>8, <1>9, <1>10 DEF Carry

LEMMA NextImplements ==
  ASSUME Locked, TypeOK, AgentsKnown, HasTop, Exclusion, [Next]_vars
  PROVE  [Log!Next]_(Log!vars)
<1>0. Shape
  BY ShapeOfType
<1>a. /\ Users \subseteq Actors /\ Drivers \subseteq Actors
      /\ \A a \in Actors : a # NoOne /\ on[a] \in AgentIds /\ on[a] \in 1..agent
  BY <1>0 DEF Actors, Shape, AgentsKnown, AgentIds
<1>1. ASSUME NEW a \in Actors, pc[a] = "idle", StartExchange(a),
             UNCHANGED <<db, turnCount, agent, owner>>
      PROVE  [Log!Next]_(Log!vars)
  <2>1. pc[a] \notin Inside /\ cur' = [cur EXCEPT ![a] = nextEx]
    BY <1>1 DEF Inside, StartExchange
  <2>2. \A b \in Actors : b # a => cur'[b] = cur[b]
    BY <1>0, <2>1 DEF Shape
  <2>3. \A j \in AgentIds : owner[j] # a
    BY <1>0, <2>1, NotOwner
  <2>4. \A j \in AgentIds : Speaking'[j] = Speaking[j]
    BY <1>0, <1>1, <2>2, <2>3, SpeakingKept
  <2>5. Speaking' = Speaking
    BY <2>4, SameSpeaks
  <2>. QED BY <1>1, <2>5, StepStutter
<1>2. ASSUME NEW u \in Users, Arrive(u) PROVE [Log!Next]_(Log!vars)
  BY <1>1, <1>2, <1>a DEF Arrive, log, host
<1>3. ASSUME NEW d \in Drivers, FlipSleep(d) PROVE [Log!Next]_(Log!vars)
  BY <1>1, <1>3, <1>a DEF FlipSleep, log, host
<1>4. ASSUME NEW u \in Users, Enter(u) PROVE [Log!Next]_(Log!vars)
  <2>1. /\ u \in Actors /\ pc[u] \notin Inside /\ cur[u] # 0 /\ Free(u)
        /\ owner' = [owner EXCEPT ![on[u]] = u] /\ cur' = cur
        /\ UNCHANGED <<db, turnCount, agent>>
    BY <1>4, <1>a DEF Enter, Take, Inside, Exclusion, ExchangesOwned, log, host
  <2>2. Unwritten(cur[u]) /\ \A j \in AgentIds : Speaking[j] # cur[u]
    BY <1>0, <2>1, OutsideFresh
  <2>3. Speaking[on[u]] = 0
    BY <1>0, <2>1, FreeSilent
  <2>4. Speaking'[on[u]] = cur[u]
    BY <1>0, <1>a, <2>1 DEF Speaking, Shape
  <2>5. ASSUME NEW j \in AgentIds, j # on[u] PROVE Speaking'[j] = Speaking[j]
    BY <1>0, <1>a, <2>1, <2>5 DEF Speaking, Shape
  <2>6. Speaking' = [Speaking EXCEPT ![on[u]] = cur[u]]
    BY <1>a, <2>1, <2>4, <2>5, OneSpeaks
  <2>7. PICK e \in Nat \ {0} : e = cur[u]
    BY <1>0, <2>1 DEF Shape
  <2>8. /\ Unwritten(e) /\ \A j \in AgentIds : Speaking[j] # e
        /\ Speaking' = [Speaking EXCEPT ![on[u]] = e]
    BY <2>2, <2>6, <2>7
  <2>. QED BY <1>a, <2>1, <2>3, <2>8, StepBegin
<1>5. ASSUME NEW d \in Drivers, Decide(d) PROVE [Log!Next]_(Log!vars)
  <2>1. /\ d \in Actors /\ cur[d] = 0 /\ Free(d)
        /\ owner' = [owner EXCEPT ![on[d]] = d] /\ cur' = cur
        /\ UNCHANGED <<db, turnCount, agent>>
    BY <1>5, <1>a DEF Decide, Take, Exclusion, ExchangesOwned, log, host
  <2>2. Speaking[on[d]] = 0
    BY <1>0, <2>1, FreeSilent
  <2>3. Speaking'[on[d]] = 0
    BY <1>0, <1>a, <2>1 DEF Speaking, Shape
  <2>4. ASSUME NEW j \in AgentIds, j # on[d] PROVE Speaking'[j] = Speaking[j]
    BY <1>0, <1>a, <2>1, <2>4 DEF Speaking, Shape
  <2>5. Speaking' = Speaking
    BY <2>2, <2>3, <2>4, SameSpeaks
  <2>. QED BY <2>1, <2>5, StepStutter
<1>6. ASSUME NEW d \in Drivers, StartDriver(d) PROVE [Log!Next]_(Log!vars)
  <2>1. UNCHANGED <<db, turnCount, agent>> /\ UNCHANGED <<owner, cur>>
    BY <1>6 DEF StartDriver, log, host
  <2>. QED BY <2>1, StepStutter DEF Speaking
<1>7. CASE Rebuild
  <2>1. NewAgent(agent + 1) /\ db' = db /\ UNCHANGED <<owner, cur>>
    BY <1>7 DEF Rebuild
  <2>2. Speaking' = Speaking
    BY <2>1 DEF Speaking
  <2>. QED BY <2>1, <2>2, StepResume
<1>8. CASE Restart
  <2>1. NewAgent(agent + 1) /\ db' = db /\ owner' = [k \in AgentIds |-> NoOne]
    BY <1>8 DEF Restart
  <2>2. Speaking' = [k \in AgentIds |-> 0]
    BY <2>1 DEF Speaking
  <2>. QED BY <2>1, <2>2, StepResume
<1>9. CASE UNCHANGED vars
  <2>1. UNCHANGED <<db, turnCount, agent>> /\ UNCHANGED <<owner, cur>>
    BY <1>9 DEF vars, log, host
  <2>. QED BY <2>1, StepStutter DEF Speaking
<1>10. ~Forget
  BY DEF Forget
<1>. QED BY <1>2, <1>3, <1>4, <1>5, <1>6, <1>7, <1>8, <1>9, <1>10, CarryImplements
         DEF Next

(* On the Web, the log readers see is a Transcript: turns only appended,   *)
(* each agent of the role writing one whole exchange at a time, numbered   *)
(* by a counter that moves on only behind the turn that carries its value. *)
THEOREM LogIsTranscript ==
  ASSUME Locked
  PROVE  Spec => ImplementsTranscript
<1> DEFINE Inv == TypeOK /\ Numbers /\ Exclusion /\ ExchangesContiguous
<1>1. Init => Inv
  BY TypeInit, NumbersInit, ExclusionInit
<1>2. Inv /\ [Next]_vars => Inv'
  BY TypeNext, NumbersNext, ExclusionNext DEF Numbers
<1>3. Init => Log!Init
  BY DEF Init, Log!Init
<1>4. Inv /\ [Next]_vars => [Log!Next]_(Log!vars)
  BY NextImplements DEF Numbers
<1>. QED BY <1>1, <1>2, <1>3, <1>4, PTL DEF Spec, ImplementsTranscript, Log!Spec
-----------------------------------------------------------------------------
(* Short-term memory on either host. *)
LEMMA RememberRows ==
  ASSUME NEW m \in Seq(Turn), Len(m) <= MemLen, NEW entry \in Turn
  PROVE  \E s \in {0, 1} :
           /\ Len(m) - s \in Nat
           /\ Len(Remember(m, entry)) = Len(m) - s + 1
           /\ Remember(m, entry)[Len(m) - s + 1] = entry
           /\ \A i \in 1..(Len(m) - s) : Remember(m, entry)[i] = m[i + s]
<1>1. CASE Len(m) < MemLen
  <2>1. /\ Len(m) - 0 \in Nat
        /\ Len(Remember(m, entry)) = Len(m) - 0 + 1
        /\ Remember(m, entry)[Len(m) - 0 + 1] = entry
        /\ \A i \in 1..(Len(m) - 0) : Remember(m, entry)[i] = m[i + 0]
    BY <1>1 DEF Remember
  <2>. QED BY <2>1
<1>2. CASE ~(Len(m) < MemLen)
  <2>1. m # << >> /\ Len(m) = MemLen
    BY <1>2
  <2>2. /\ Tail(m) \in Seq(Turn) /\ Len(Tail(m)) = Len(m) - 1
        /\ \A i \in 1..(Len(m) - 1) : Tail(m)[i] = m[i + 1]
    BY <2>1
  <2>3. Remember(m, entry) = Append(Tail(m), entry)
    BY <1>2 DEF Remember
  <2>4. /\ Len(m) - 1 \in Nat
        /\ Len(Remember(m, entry)) = Len(m) - 1 + 1
        /\ Remember(m, entry)[Len(m) - 1 + 1] = entry
        /\ \A i \in 1..(Len(m) - 1) : Remember(m, entry)[i] = m[i + 1]
    BY <2>1, <2>2, <2>3
  <2>. QED BY <2>4
<1>. QED BY <1>1, <1>2

(* A buffer of stored rows, in the order they were stored.                 *)
Stored(m) ==
  /\ \A i \in 1..Len(m) : m[i].id \in 1..Len(db) /\ db[m[i].id] = m[i]
  /\ \A i, j \in 1..Len(m) : i < j => m[i].id < m[j].id

(* Rows are only appended, so what is stored stays stored. *)
LEMMA StoredKept ==
  ASSUME TypeOK, NEW m, Stored(m), db' = db \/ \E t \in Turn : db' = Append(db, t)
  PROVE  Stored(m)'
<1>1. ASSUME NEW j \in 1..Len(db) PROVE j \in 1..Len(db') /\ db'[j] = db[j]
  <2>1. CASE db' = db
    BY <2>1
  <2>2. ASSUME NEW t \in Turn, db' = Append(db, t)
        PROVE  j \in 1..Len(db') /\ db'[j] = db[j]
    BY <2>2 DEF TypeOK
  <2>. QED BY <2>1, <2>2
<1>. QED BY <1>1 DEF Stored

LEMMA StoredWritten ==
  ASSUME TypeOK, NEW m \in Seq(Turn), Len(m) <= MemLen, Stored(m), NEW t \in Turn,
         t.id = Len(db) + 1, db' = Append(db, t)
  PROVE  Stored(Remember(m, t))'
<1>1. PICK r : r = Remember(m, t)
  OBVIOUS
<1>2. PICK s \in {0, 1} :
        /\ Len(m) - s \in Nat
        /\ Len(Remember(m, t)) = Len(m) - s + 1
        /\ Remember(m, t)[Len(m) - s + 1] = t
        /\ \A i \in 1..(Len(m) - s) : Remember(m, t)[i] = m[i + s]
  BY RememberRows, Zenon
<1>3. /\ Len(m) - s \in Nat /\ Len(r) = Len(m) - s + 1
      /\ r[Len(r)] = t
      /\ \A i \in 1..(Len(m) - s) : r[i] = m[i + s]
  BY <1>1, <1>2
<1>4. /\ \A j \in 1..Len(db) : j \in 1..Len(db') /\ db'[j] = db[j]
      /\ Len(db) + 1 \in 1..Len(db') /\ db'[Len(db) + 1] = t
  BY DEF TypeOK
<1>5. ASSUME NEW i \in 1..Len(r)
      PROVE  \/ i = Len(r) /\ r[i] = t
             \/ i < Len(r) /\ i + s \in 1..Len(m) /\ r[i] = m[i + s]
  <2>1. CASE i = Len(r)
    BY <1>3, <2>1
  <2>2. CASE i # Len(r)
    BY <1>3, <2>2
  <2>. QED BY <2>1, <2>2
<1>6. ASSUME NEW i \in 1..Len(r)
      PROVE  r[i].id \in 1..Len(db') /\ db'[r[i].id] = r[i]
  <2>1. CASE i = Len(r)
    BY <1>3, <1>4, <2>1
  <2>2. CASE i # Len(r)
    <3>1. i + s \in 1..Len(m) /\ r[i] = m[i + s]
      BY <1>5, <2>2
    <3>2. r[i].id \in 1..Len(db) /\ db[r[i].id] = r[i]
      BY <3>1 DEF Stored
    <3>. QED BY <1>4, <3>2
  <2>. QED BY <2>1, <2>2
<1>7. ASSUME NEW i \in 1..Len(r), NEW j \in 1..Len(r), i < j
      PROVE  r[i].id < r[j].id
  <2>1. i + s \in 1..Len(m) /\ r[i] = m[i + s]
    BY <1>3, <1>5, <1>7
  <2>2. CASE j = Len(r)
    <3>1. r[j].id = Len(db) + 1 /\ Len(db) \in Nat
      BY <1>3, <2>2 DEF TypeOK
    <3>2. r[i].id \in 1..Len(db)
      BY <2>1 DEF Stored
    <3>. QED BY <3>1, <3>2
  <2>3. CASE j # Len(r)
    <3>1. j + s \in 1..Len(m) /\ r[j] = m[j + s] /\ i + s < j + s
      BY <1>5, <1>7, <2>3
    <3>. QED BY <2>1, <3>1 DEF Stored
  <2>. QED BY <2>2, <2>3
<1>8. Stored(r)'
  BY <1>6, <1>7 DEF Stored
<1>. QED BY <1>1, <1>8

(* The last rows, read back in order. *)
LEMMA StoredReloaded ==
  ASSUME TypeOK, AgentsKnown
  PROVE  Stored(Reloaded(db, Restored))
<1> DEFINE kept == IF Restored < MemLen THEN Restored ELSE MemLen
           from == IF Len(db) > kept THEN Len(db) - kept ELSE 0
           n == Len(db) - from
           r == Reloaded(db, Restored)
<1>1. r = [i \in 1..n |-> db[i + from]]
  BY DEF Reloaded
<1>2. from \in Nat /\ n \in Nat
  BY DEF TypeOK
<1>3. ASSUME NEW i \in 1..n PROVE i + from \in 1..Len(db)
  BY <1>2 DEF TypeOK
<1> HIDE DEF from, n, r
<1>4. Len(r) = n /\ \A i \in 1..n : r[i] = db[i + from]
  BY <1>1, <1>2
<1>5. ASSUME NEW i \in 1..n PROVE r[i].id = i + from /\ r[i] = db[i + from]
  BY <1>3, <1>4 DEF AgentsKnown
<1>6. ASSUME NEW i \in 1..n PROVE r[i].id \in 1..Len(db) /\ db[r[i].id] = r[i]
  BY <1>3, <1>5
<1>7. ASSUME NEW i \in 1..n, NEW j \in 1..n, i < j PROVE r[i].id < r[j].id
  BY <1>2, <1>5, <1>7
<1>8. Stored(r)
  BY <1>4, <1>6, <1>7 DEF Stored
<1>. QED BY <1>8 DEF r

LEMMA MemIsStored == MemOnDisk <=> \A k \in AgentIds : Stored(mem[k])
BY DEF MemOnDisk, Stored

LEMMA MemKept ==
  ASSUME TypeOK, MemOnDisk, mem' = mem,
         db' = db \/ \E t \in Turn : db' = Append(db, t)
  PROVE  MemOnDisk'
<1>1. ASSUME NEW k \in AgentIds PROVE Stored(mem[k])'
  <2>1. PICK m : m = mem[k]
    OBVIOUS
  <2>2. Stored(m)
    BY <2>1, MemIsStored
  <2>3. Stored(m)'
    BY <2>2, StoredKept
  <2>. QED BY <2>1, <2>3
<1>. QED BY <1>1 DEF MemOnDisk, Stored

(* One buffer gets another content. *)
LEMMA MemChanged ==
  ASSUME TypeOK, MemOnDisk, NEW k \in AgentIds, NEW m, Stored(m)',
         mem' = [mem EXCEPT ![k] = m],
         db' = db \/ \E t \in Turn : db' = Append(db, t)
  PROVE  MemOnDisk'
<1>1. ASSUME NEW j \in AgentIds PROVE Stored(mem[j])'
  <2>1. CASE j = k
    <3>1. mem'[j] = m
      BY <2>1 DEF TypeOK
    <3>. QED BY <3>1
  <2>2. CASE j # k
    <3>1. PICK old : old = mem[j]
      OBVIOUS
    <3>2. mem'[j] = old
      BY <2>2, <3>1 DEF TypeOK
    <3>3. Stored(old)
      BY <3>1, MemIsStored
    <3>4. Stored(old)'
      BY <3>3, StoredKept
    <3>. QED BY <3>2, <3>4
  <2>. QED BY <2>1, <2>2
<1>. QED BY <1>1 DEF MemOnDisk, Stored

LEMMA MemWritten ==
  ASSUME TypeOK, MemOnDisk, NEW a \in Actors, NEW t \in Turn,
         t.id = Len(db) + 1, db' = Append(db, t), mem' = Remembered(a, t)
  PROVE  MemOnDisk'
<1>1. on[a] \in AgentIds
  BY DEF TypeOK
<1>2. PICK m \in Seq(Turn) : m = mem[on[a]] /\ Len(m) <= MemLen
  BY <1>1 DEF TypeOK
<1>3. PICK r : r = Remember(m, t)
  OBVIOUS
<1>4. Stored(m)
  BY <1>1, <1>2, MemIsStored
<1>5. Stored(r)'
  BY <1>2, <1>3, <1>4, StoredWritten
<1>6. mem' = [mem EXCEPT ![on[a]] = r]
  BY <1>2, <1>3 DEF Remembered
<1>. QED BY <1>1, <1>5, <1>6, MemChanged

LEMMA MemNext ==
  ASSUME TypeOK, AgentsKnown, MemOnDisk, [Next]_vars
  PROVE  MemOnDisk'
<1>1. ASSUME NEW a \in Actors, NEW role \in Roles, NEW then,
             AddTurn(a, role, then)
      PROVE  MemOnDisk'
  <2>1. NewTurn(a, role) \in Turn /\ NewTurn(a, role).id = Len(db) + 1
    BY NewTurnType DEF NewTurn
  <2>. QED BY <1>1, <2>1, MemKept, MemWritten DEF AddTurn
<1>2. ASSUME NEW a \in Actors, Carry(a) PROVE MemOnDisk'
  <2>1. CASE HearAsleep(a) \/ Murmur(a) \/ Hear(a) \/ Reply(a)
    BY <1>1, <2>1 DEF HearAsleep, Murmur, Hear, Reply, Roles
  <2>2. CASE Announce(a) \/ LoseAnnouncement(a)
    <3>1. /\ NewTurn(a, "assistant") \in Turn
          /\ NewTurn(a, "assistant").id = Len(db) + 1
      BY NewTurnType DEF NewTurn, Roles
    <3>. QED BY <2>2, <3>1, MemKept, MemWritten DEF Announce, LoseAnnouncement
  <2>3. CASE CheckSleeping(a) \/ GiveUp(a) \/ Count(a) \/ Feel(a) \/ Leave(a)
             \/ Decided(a) \/ Speak(a)
    BY <2>3, MemKept
       DEF CheckSleeping, GiveUp, Count, Feel, Leave, Decided, Speak, log
  <2>. QED BY <1>2, <2>1, <2>2, <2>3 DEF Carry
<1>3. ASSUME \/ \E u \in Users : Arrive(u) \/ Enter(u)
             \/ \E d \in Drivers : FlipSleep(d) \/ Decide(d) \/ StartDriver(d)
             \/ UNCHANGED vars
      PROVE  MemOnDisk'
  BY <1>3, MemKept DEF Arrive, Enter, FlipSleep, Decide, StartDriver, vars, log
<1>4. ASSUME NEW m, m = << >> PROVE Stored(m)'
  BY <1>4 DEF Stored
<1>5. CASE Forget
  <2>1. agent \in AgentIds /\ mem' = [mem EXCEPT ![agent] = << >>] /\ db' = db
    BY <1>5 DEF Forget, TypeOK
  <2>. QED BY <1>4, <2>1, MemChanged
<1>6. PICK r : r = Reloaded(db, Restored)
  OBVIOUS
<1>7. db' = db => Stored(r)'
  BY <1>6, StoredReloaded, StoredKept
<1>8. CASE Rebuild
  <2>1. agent + 1 \in AgentIds /\ mem' = [mem EXCEPT ![agent + 1] = r] /\ db' = db
    BY <1>6, <1>8 DEF Rebuild, NewAgent
  <2>. QED BY <1>7, <2>1, MemChanged
<1>9. CASE Restart
  <2>1. /\ mem' = [k \in AgentIds |-> IF k = agent + 1 THEN r ELSE << >>]
        /\ db' = db
    BY <1>6, <1>9 DEF Restart
  <2>2. ASSUME NEW k \in AgentIds PROVE Stored(mem[k])'
    <3>1. mem'[k] = r \/ mem'[k] = << >>
      BY <2>1
    <3>2. PICK m : m = mem'[k]
      OBVIOUS
    <3>3. Stored(m)'
      BY <1>4, <1>7, <2>1, <3>1, <3>2
    <3>. QED BY <3>2, <3>3
  <2>. QED BY <2>2 DEF MemOnDisk, Stored
<1>. QED BY <1>2, <1>3, <1>5, <1>8, <1>9 DEF Next

(* On either host, short-term memory never holds a turn the database lost: *)
(* every turn in the buffer of any agent is a stored row, once, in the     *)
(* order they were stored, whatever insert fails, wherever the process     *)
(* dies and however often the agent is built again.                        *)
THEOREM MemoryOnDisk == Spec => []MemOnDisk
<1>1. Init => TypeOK /\ Numbers /\ MemOnDisk
  <2>1. Init => MemOnDisk
    BY DEF Init, MemOnDisk
  <2>. QED BY <2>1, TypeInit, NumbersInit
<1>2. TypeOK /\ Numbers /\ MemOnDisk /\ [Next]_vars
        => (TypeOK /\ Numbers /\ MemOnDisk)'
  BY TypeNext, NumbersNext, MemNext DEF Numbers
<1>. QED BY <1>1, <1>2, PTL DEF Spec
-----------------------------------------------------------------------------
(* The replies under an agent's current number, on the Web: whoever wrote  *)
(* one is about to count it, or its exchange was cut short. Rows of other  *)
(* agents are no concern of this one.                                      *)
AboutToCount == {"murmured", "replied"}

RepliesCounted ==
  \A i \in 1..Len(db) :
    db[i].role = "assistant" /\ db[i].no = turnCount[db[i].agent]
    => \/ db[i].ex \in cut
       \/ \E a \in Actors : /\ on[a] = db[i].agent /\ cur[a] = db[i].ex
                            /\ pc[a] \in AboutToCount

ReplyInv == ReplyNumbersUnique /\ RepliesCounted

LEMMA OwnBehind ==
  ASSUME TypeOK, Numbers, NEW i \in 1..Len(db)
  PROVE  /\ db[i].no \in Nat /\ db[i].no <= turnCount[db[i].agent]
         /\ db[i].agent \in AgentIds /\ db[i].agent <= agent
<1>1. db[i].agent \in 1..agent /\ agent \in AgentIds
  BY DEF Numbers, AgentsKnown, TypeOK
<1>2. db[i].no <= turnCount[db[i].agent]
  BY <1>1 DEF Numbers, NumbersAscend, Known
<1>3. db[i].no \in Nat
  BY RowTypes
<1>. QED BY <1>1, <1>2, <1>3 DEF AgentIds

LEMMA ReplyQuiet ==
  ASSUME ReplyInv, db' = db, cut \subseteq cut',
         \A i \in 1..Len(db) : turnCount'[db[i].agent] = turnCount[db[i].agent],
         \A a \in Actors : pc[a] \in AboutToCount =>
           \/ pc'[a] = pc[a] /\ cur'[a] = cur[a] /\ on'[a] = on[a]
           \/ cur[a] \in cut'
  PROVE  ReplyInv'
<1>1. ReplyNumbersUnique'
  BY DEF ReplyInv, ReplyNumbersUnique
<1>2. ASSUME NEW i \in 1..Len(db),
             db[i].role = "assistant", db[i].no = turnCount[db[i].agent]
      PROVE  \/ db[i].ex \in cut'
             \/ \E a \in Actors : /\ on'[a] = db[i].agent /\ cur'[a] = db[i].ex
                                  /\ pc'[a] \in AboutToCount
  <2>1. CASE db[i].ex \in cut
    BY <2>1
  <2>2. ASSUME NEW a \in Actors, on[a] = db[i].agent, cur[a] = db[i].ex,
               pc[a] \in AboutToCount
        PROVE  \/ db[i].ex \in cut'
               \/ /\ on'[a] = db[i].agent /\ cur'[a] = db[i].ex
                  /\ pc'[a] \in AboutToCount
    BY <2>2
  <2>. QED BY <1>2, <2>1, <2>2 DEF ReplyInv, RepliesCounted
<1>3. RepliesCounted'
  BY <1>2 DEF RepliesCounted
<1>. QED BY <1>1, <1>3 DEF ReplyInv

LEMMA ReplyCount ==
  ASSUME TypeOK, Numbers, ReplyInv, db' = db, cut' = cut, on' = on, cur' = cur,
         NEW a \in Actors, turnCount' = Counted(a),
         \A b \in Actors : b # a => pc'[b] = pc[b]
  PROVE  ReplyInv'
<1>1. ReplyNumbersUnique'
  BY DEF ReplyInv, ReplyNumbersUnique
<1>2. ASSUME NEW i \in 1..Len(db),
             db[i].role = "assistant", db[i].no = turnCount'[db[i].agent]
      PROVE  \/ db[i].ex \in cut
             \/ \E b \in Actors : /\ on[b] = db[i].agent /\ cur[b] = db[i].ex
                                  /\ pc'[b] \in AboutToCount
  <2>0. /\ db[i].no \in Nat /\ db[i].no <= turnCount[db[i].agent]
        /\ db[i].agent \in AgentIds
        /\ turnCount \in [AgentIds -> Nat] /\ on[a] \in AgentIds
    BY OwnBehind DEF TypeOK
  <2>1. turnCount' = [turnCount EXCEPT ![on[a]] = turnCount[on[a]] + 1]
    BY DEF Counted
  <2>2. db[i].agent # on[a]
    BY <1>2, <2>0, <2>1
  <2>3. turnCount'[db[i].agent] = turnCount[db[i].agent]
    BY <2>0, <2>1, <2>2
  <2>. QED BY <1>2, <2>2, <2>3 DEF ReplyInv, RepliesCounted
<1>3. RepliesCounted'
  BY <1>2 DEF RepliesCounted
<1>. QED BY <1>1, <1>3 DEF ReplyInv

(* A turn is written while nobody is about to count for its agent.         *)
LEMMA ReplyWrite ==
  ASSUME TypeOK, Numbers, ReplyInv, NEW a \in Actors, NEW t \in Turn,
         t.no = turnCount[on[a]], t.agent = on[a],
         db' = Append(db, t), on' = on,
         turnCount' \in {turnCount, Counted(a)}, cut \subseteq cut',
         \A b \in Actors : pc[b] \in AboutToCount =>
           on[b] # on[a] /\ pc'[b] = pc[b] /\ cur'[b] = cur[b],
         \/ turnCount' = Counted(a)
         \/ t.role # "assistant"
         \/ t.ex \in cut'
         \/ \E b \in Actors : /\ on[b] = on[a] /\ cur'[b] = t.ex
                              /\ pc'[b] \in AboutToCount
  PROVE  ReplyInv'
<1>0. /\ db \in Seq(Turn) /\ turnCount \in [AgentIds -> Nat]
      /\ t.no \in Nat /\ on[a] \in AgentIds
  BY DEF TypeOK, Turn
<1>1. /\ Len(db) \in Nat /\ Len(db') = Len(db) + 1
      /\ db'[Len(db) + 1] = t
      /\ \A i \in 1..Len(db) : db'[i] = db[i]
  BY <1>0
<1>2. ASSUME NEW i \in 1..Len(db), db[i].role = "assistant",
             db[i].no = turnCount[db[i].agent]
      PROVE  \/ db[i].ex \in cut
             \/ \E b \in Actors : /\ on[b] = db[i].agent /\ on[b] # on[a]
                                  /\ cur'[b] = db[i].ex /\ pc'[b] \in AboutToCount
  BY <1>2 DEF ReplyInv, RepliesCounted
<1>3. ReplyNumbersUnique'
  <2> SUFFICES ASSUME NEW i \in 1..Len(db'), NEW j \in 1..Len(db'), i < j,
                      db'[i].role = "assistant", db'[j].role = "assistant",
                      db'[i].agent = db'[j].agent, db'[i].no = db'[j].no
               PROVE  db'[i].ex \in cut'
    BY DEF ReplyNumbersUnique
  <2>1. i \in 1..Len(db) /\ db'[i] = db[i]
    BY <1>1
  <2>2. CASE j = Len(db) + 1
    <3>1. db[i].agent = on[a] /\ db[i].no = turnCount[db[i].agent]
      BY <1>1, <2>1, <2>2
    <3>2. db[i].ex \in cut
      BY <1>2, <2>1, <3>1
    <3>. QED BY <2>1, <3>2
  <2>3. CASE j # Len(db) + 1
    <3>1. j \in 1..Len(db) /\ db'[j] = db[j]
      BY <1>1, <2>3
    <3>2. db[i].ex \in cut
      BY <2>1, <3>1 DEF ReplyInv, ReplyNumbersUnique
    <3>. QED BY <2>1, <3>2
  <2>. QED BY <2>2, <2>3
<1>4. ASSUME NEW i \in 1..Len(db'), db'[i].role = "assistant",
             db'[i].no = turnCount'[db'[i].agent]
      PROVE  \/ db'[i].ex \in cut'
             \/ \E b \in Actors : /\ on[b] = db'[i].agent /\ cur'[b] = db'[i].ex
                                  /\ pc'[b] \in AboutToCount
  <2>1. CASE i = Len(db) + 1
    <3>1. turnCount' # Counted(a)
      <4>1. db'[i] = t
        BY <1>1, <2>1
      <4>2. turnCount'[on[a]] = turnCount[on[a]]
        BY <1>4, <4>1
      <4>3. turnCount[on[a]] \in Nat
        BY <1>0
      <4>4. turnCount' = Counted(a) => turnCount'[on[a]] = turnCount[on[a]] + 1
        BY <1>0 DEF Counted
      <4>. QED BY <4>2, <4>3, <4>4
    <3>. QED BY <1>1, <1>4, <2>1, <3>1
  <2>2. CASE i # Len(db) + 1
    <3>1. i \in 1..Len(db) /\ db'[i] = db[i]
      BY <1>1, <2>2
    <3>2. /\ db[i].no \in Nat /\ db[i].no <= turnCount[db[i].agent]
          /\ db[i].agent \in AgentIds
      BY <3>1, OwnBehind
    <3>3. turnCount'[db[i].agent] = turnCount[db[i].agent]
          \/ turnCount'[db[i].agent] = turnCount[db[i].agent] + 1
      BY <1>0, <3>2 DEF Counted
    <3>4. db[i].no = turnCount[db[i].agent]
      BY <1>0, <1>4, <3>1, <3>2, <3>3
    <3>. QED BY <1>2, <1>4, <3>1, <3>4
  <2>. QED BY <2>1, <2>2
<1>5. RepliesCounted'
  BY <1>4 DEF RepliesCounted
<1>. QED BY <1>3, <1>5 DEF ReplyInv

(* Whoever is about to count holds the lock of its agent, so nobody else   *)
(* writes for that agent.                                                  *)
LEMMA CounterAlone ==
  ASSUME Locked, TypeOK, Exclusion, NEW a \in Actors, pc[a] \notin AboutToCount,
         pc[a] \in Inside \/ Free(a), NEW b \in Actors, pc[b] \in AboutToCount
  PROVE  on[b] # on[a] /\ b # a
<1>1. pc[b] \in Inside
  BY DEF AboutToCount, Inside, Places
<1>. QED BY <1>1, OtherAgent, ShapeOfType DEF Free

LEMMA ReplyAddTurn ==
  ASSUME Locked, TypeOK, Numbers, Exclusion, ReplyInv, NEW a \in Actors,
         NEW role \in Roles, NEW then,
         pc[a] \in Inside \ AboutToCount, AddTurn(a, role, then),
         role = "assistant" => then \in AboutToCount
  PROVE  ReplyInv'
<1> DEFINE t == NewTurn(a, role)
<1>1. /\ t \in Turn /\ t.no = turnCount[on[a]] /\ t.agent = on[a]
      /\ t.ex = cur[a] /\ t.role = role
  BY NewTurnType DEF NewTurn
<1>2. UNCHANGED <<turnCount, on, cur>>
  BY DEF AddTurn
<1>3. \/ db' = Append(db, t) /\ pc' = [pc EXCEPT ![a] = then] /\ cut' = cut
      \/ /\ db' \in {db, Append(db, t)} /\ cut' = cut \cup {cur[a]}
         /\ pc' = [pc EXCEPT ![a] = "leaving"]
  BY DEF AddTurn, Goto
<1>4. pc \in [Actors -> Places]
  BY DEF TypeOK
<1>5. ASSUME NEW b \in Actors, pc[b] \in AboutToCount
      PROVE  on[b] # on[a] /\ pc'[b] = pc[b] /\ cur'[b] = cur[b]
  BY <1>2, <1>3, <1>4, <1>5, CounterAlone
<1> HIDE DEF t
<1>6. CASE db' = Append(db, t) /\ pc' = [pc EXCEPT ![a] = then] /\ cut' = cut
  <2>1. pc'[a] = then /\ cur'[a] = t.ex
    BY <1>1, <1>2, <1>4, <1>6
  <2>2. t.role # "assistant" \/ \E b \in Actors : /\ on[b] = on[a] /\ cur'[b] = t.ex
                                                  /\ pc'[b] \in AboutToCount
    BY <1>1, <2>1
  <2>. QED BY <1>1, <1>2, <1>5, <1>6, <2>2, ReplyWrite
<1>7. CASE db' = db /\ cut' = cut \cup {cur[a]}
  BY <1>2, <1>5, <1>7, ReplyQuiet
<1>8. CASE db' = Append(db, t) /\ cut' = cut \cup {cur[a]}
  <2>1. t.ex \in cut'
    BY <1>1, <1>8
  <2>. QED BY <1>1, <1>2, <1>5, <1>8, <2>1, ReplyWrite
<1>. QED BY <1>3, <1>6, <1>7, <1>8

LEMMA ReplyCarry ==
  ASSUME Locked, TypeOK, Numbers, Exclusion, ReplyInv,
         NEW a \in Actors, Carry(a)
  PROVE  ReplyInv'
<1>0. pc \in [Actors -> Places] /\ cur \in [Actors -> Nat]
  BY DEF TypeOK
<1>1. ASSUME pc[a] \in {"dozing", "murmur", "hearing", "thinking"}
      PROVE  pc[a] \in Inside \ AboutToCount
  BY <1>1 DEF Inside, Places, AboutToCount
<1>2. CASE HearAsleep(a) \/ Hear(a)
  BY <1>1, <1>2, ReplyAddTurn DEF HearAsleep, Hear, Roles
<1>3. CASE Murmur(a) \/ Reply(a)
  BY <1>1, <1>3, ReplyAddTurn DEF Murmur, Reply, Roles, AboutToCount
<1>4. CASE Count(a)
  <2>1. /\ turnCount' = Counted(a) /\ UNCHANGED <<db, on, cur, cut>>
        /\ pc' = [pc EXCEPT ![a] = AfterCount(a)]
    BY <1>4 DEF Count, Goto
  <2>2. \A b \in Actors : b # a => pc'[b] = pc[b]
    BY <1>0, <2>1
  <2>. QED BY <2>1, <2>2, ReplyCount
<1>5. ASSUME NEW place, pc[a] \notin AboutToCount,
             pc' = [pc EXCEPT ![a] = place], UNCHANGED <<db, turnCount, on>>,
             cut \subseteq cut', \A b \in Actors \ {a} : cur'[b] = cur[b]
      PROVE  ReplyInv'
  <2>1. \A b \in Actors : pc[b] \in AboutToCount => pc'[b] = pc[b] /\ cur'[b] = cur[b]
    BY <1>0, <1>5
  <2>. QED BY <1>5, <2>1, ReplyQuiet
<1>6. CASE CheckSleeping(a) \/ GiveUp(a) \/ Feel(a) \/ Decided(a)
  <2>1. /\ pc[a] \notin AboutToCount /\ cur' = cur /\ cut \subseteq cut'
        /\ UNCHANGED <<db, turnCount, on>>
        /\ \E place : pc' = [pc EXCEPT ![a] = place]
    BY <1>6 DEF CheckSleeping, GiveUp, Feel, Decided, Goto, AboutToCount, log
  <2>. QED BY <1>5, <2>1
<1>7. CASE Leave(a) \/ Speak(a)
  <2>1. /\ pc[a] \notin AboutToCount /\ cut' = cut
        /\ UNCHANGED <<db, turnCount, on>>
        /\ \E place : pc' = [pc EXCEPT ![a] = place]
        /\ \E e : cur' = [cur EXCEPT ![a] = e]
    BY <1>7 DEF Leave, Speak, StartExchange, Goto, AboutToCount, log
  <2>2. \A b \in Actors \ {a} : cur'[b] = cur[b]
    BY <1>0, <2>1
  <2>. QED BY <1>5, <2>1, <2>2
<1> DEFINE t == NewTurn(a, "assistant")
<1>8. /\ t \in Turn /\ t.no = turnCount[on[a]] /\ t.agent = on[a] /\ t.ex = cur[a]
  BY NewTurnType DEF NewTurn, Roles
<1>9. CASE Announce(a) \/ LoseAnnouncement(a)
  <2>1. /\ pc[a] \notin AboutToCount /\ on' = on
        /\ pc' = [pc EXCEPT ![a] = "idle"] /\ cur' = [cur EXCEPT ![a] = 0]
        /\ \/ /\ Free(a) /\ db' = Append(db, t)
              /\ turnCount' = Counted(a) /\ cut' = cut
           \/ /\ Free(a) /\ db' = Append(db, t)
              /\ turnCount' = turnCount /\ cut' = cut \cup {cur[a]}
           \/ UNCHANGED <<db, turnCount>> /\ cut' = cut \cup {cur[a]}
    BY <1>9 DEF Announce, LoseAnnouncement, Goto, AboutToCount
  <2>2. \A b \in Actors \ {a} : cur'[b] = cur[b] /\ pc'[b] = pc[b]
    BY <1>0, <2>1
  <2> HIDE DEF t
  <2>3. CASE UNCHANGED <<db, turnCount>> /\ cut' = cut \cup {cur[a]}
    BY <1>5, <2>1, <2>2, <2>3
  <2>4. CASE Free(a) /\ db' = Append(db, t)
    <3>1. ASSUME NEW b \in Actors, pc[b] \in AboutToCount
          PROVE  on[b] # on[a] /\ pc'[b] = pc[b] /\ cur'[b] = cur[b]
      BY <2>1, <2>2, <2>4, <3>1, CounterAlone
    <3>2. \/ turnCount' = Counted(a)
          \/ turnCount' = turnCount /\ t.ex \in cut'
      BY <1>8, <2>1, <2>4, <2>3
    <3>3. cut \subseteq cut'
      BY <2>1
    <3>. QED BY <1>8, <2>1, <2>4, <3>1, <3>2, <3>3, ReplyWrite
  <2>. QED BY <2>1, <2>3, <2>4
<1>. QED BY <1>2, <1>3, <1>4, <1>6, <1>7, <1>9 DEF Carry

LEMMA ReplyNext ==
  ASSUME Locked, TypeOK, Numbers, Exclusion, ReplyInv, [Next]_vars
  PROVE  ReplyInv'
<1>0. pc \in [Actors -> Places] /\ cur \in [Actors -> Nat] /\ Users \cup Drivers = Actors
      /\ on \in [Actors -> AgentIds] /\ turnCount \in [AgentIds -> Nat]
  BY DEF TypeOK, Actors
<1>1. ASSUME NEW a \in Actors, pc[a] \notin AboutToCount,
             UNCHANGED <<db, turnCount, cut>>,
             \E place : pc' = [pc EXCEPT ![a] = place],
             cur' = cur \/ \E e : cur' = [cur EXCEPT ![a] = e],
             on' = on \/ \E k : on' = [on EXCEPT ![a] = k]
      PROVE  ReplyInv'
  <2>1. \A b \in Actors : pc[b] \in AboutToCount =>
          pc'[b] = pc[b] /\ cur'[b] = cur[b] /\ on'[b] = on[b]
    BY <1>0, <1>1
  <2>. QED BY <1>1, <2>1, ReplyQuiet
<1>2. ASSUME NEW u \in Users, Arrive(u) \/ Enter(u) PROVE ReplyInv'
  BY <1>0, <1>1, <1>2 DEF Arrive, Enter, StartExchange, Goto, AboutToCount, log
<1>3. ASSUME NEW d \in Drivers, FlipSleep(d) \/ Decide(d) PROVE ReplyInv'
  BY <1>0, <1>1, <1>3 DEF FlipSleep, Decide, StartExchange, Goto, AboutToCount, log
<1>4. ASSUME NEW d \in Drivers, StartDriver(d) PROVE ReplyInv'
  <2>1. \A b \in Actors : pc[b] \in AboutToCount => pc'[b] = pc[b] /\ on'[b] = on[b]
    BY <1>0, <1>4 DEF StartDriver, CancelDriver, AboutToCount
  <2>. QED BY <1>4, <2>1, ReplyQuiet DEF StartDriver, log
<1>5. ASSUME NEW a \in Actors, Carry(a) PROVE ReplyInv'
  BY <1>5, ReplyCarry
<1>6. ASSUME NewAgent(agent + 1), NEW i \in 1..Len(db)
      PROVE  turnCount'[db[i].agent] = turnCount[db[i].agent]
  <2>1. PICK n : turnCount' = [turnCount EXCEPT ![agent + 1] = n]
    BY <1>6 DEF NewAgent
  <2>2. db[i].agent \in AgentIds /\ db[i].agent # agent + 1
    <3>1. db[i].agent \in AgentIds /\ db[i].agent <= agent
      BY OwnBehind
    <3>2. agent \in Nat /\ db[i].agent \in Nat
      BY <3>1 DEF TypeOK, AgentIds
    <3>. QED BY <3>1, <3>2
  <2>. QED BY <1>0, <2>1, <2>2
<1>7. CASE Rebuild
  <2>1. \A b \in Actors : pc[b] \in AboutToCount => pc'[b] = pc[b]
    BY <1>7 DEF Rebuild, CancelDriver, AboutToCount
  <2>. QED BY <1>6, <1>7, <2>1, ReplyQuiet DEF Rebuild
<1>8. CASE Restart
  <2>1. /\ NewAgent(agent + 1) /\ db' = db /\ cut \subseteq cut'
        /\ \A b \in Actors : cur[b] # 0 => cur[b] \in cut'
    BY <1>8 DEF Restart
  <2>2. \A b \in Actors : pc[b] \in AboutToCount => cur[b] # 0
    BY DEF AboutToCount, Exclusion, ExchangesOwned
  <2>. QED BY <1>6, <2>1, <2>2, ReplyQuiet
<1>9. CASE UNCHANGED vars
  BY <1>9, ReplyQuiet DEF vars, log
<1>10. ~Forget
  BY DEF Forget
<1>. QED BY <1>2, <1>3, <1>4, <1>5, <1>7, <1>8, <1>9, <1>10 DEF Next

(* On the Web, two replies of one agent share a turn number only when the  *)
(* exchange of the earlier one was cut short: Agent's increment_turn_count *)
(* is never lost between two replies that both came through, whoever wrote *)
(* them. Agents of a role may share numbers: one that is rebuilt while a   *)
(* thread works for the old one starts from a number that thread is using. *)
THEOREM RepliesNumbered ==
  ASSUME Locked
  PROVE  Spec => []ReplyNumbersUnique
<1> DEFINE Inv == /\ TypeOK /\ Numbers /\ Exclusion /\ ExchangesContiguous
                  /\ ReplyInv
<1>1. Init => Inv
  <2>1. Init => ReplyInv
    BY DEF Init, ReplyInv, ReplyNumbersUnique, RepliesCounted
  <2>. QED BY <2>1, TypeInit, NumbersInit, ExclusionInit
<1>2. Inv /\ [Next]_vars => Inv'
  BY TypeNext, NumbersNext, ExclusionNext, ReplyNext DEF Numbers
<1>3. Inv => ReplyNumbersUnique
  BY DEF ReplyInv
<1>. QED BY <1>1, <1>2, <1>3, PTL DEF Spec
-----------------------------------------------------------------------------
(* While a user's message is answered, the latest user turn in the buffer  *)
(* of the thread's agent is that message's own, at most as many turns from *)
(* the end as replies were given to it: a buffer longer than those never   *)
(* drops it.                                                               *)
Latest(m, e, n) ==
  \E i \in 1..Len(m) :
    /\ m[i].role = "user" /\ m[i].ex = e /\ Len(m) - i <= n
    /\ \A j \in 1..Len(m) : i < j => m[j].role # "user"

Answering == {"thinking", "replied", "feeling"}

(* The replies given so far, the one not yet weighed included.             *)
Given(a) == IF pc[a] = "thinking" THEN loops[a] ELSE loops[a] + 1

Heard(a) == Latest(mem[on[a]], cur[a], Given(a))

HeardLast ==
  \A a \in Actors :
    /\ pc[a] = "feeling" => a \in Users
    /\ a \in Users /\ pc[a] \in Answering => Heard(a)

LEMMA LatestIs ==
  ASSUME NEW m \in Seq(Turn), NEW e \in Nat, NEW n, Latest(m, e, n)
  PROVE  LastUserEx(m) = e
<1> DEFINE said == {i \in 1..Len(m) : m[i].role = "user"}
           late == CHOOSE i \in said : \A j \in said : j <= i
<1>1. PICK i \in said : m[i].ex = e /\ \A j \in 1..Len(m) : i < j => m[j].role # "user"
  BY DEF Latest
<1>2. ASSUME NEW j \in said PROVE j <= i
  BY <1>1
<1>3. late \in said /\ \A j \in said : j <= late
  BY <1>1, <1>2
<1>4. late = i
  <2> HIDE DEF late
  <2>1. late <= i /\ i <= late
    BY <1>1, <1>2, <1>3
  <2>. QED BY <1>1, <1>3, <2>1
<1>5. LastUserEx(m) = m[late].ex
  BY <1>1 DEF LastUserEx
<1>. QED BY <1>1, <1>4, <1>5

LEMMA LatestFresh ==
  ASSUME NEW m \in Seq(Turn), Len(m) <= MemLen, NEW t \in Turn,
         t.role = "user", NEW n \in Nat
  PROVE  Latest(Remember(m, t), t.ex, n)
<1> DEFINE kept == IF Len(m) < MemLen THEN m ELSE Tail(m)
<1>1. kept \in Seq(Turn) /\ Remember(m, t) = Append(kept, t)
  <2>1. ~(Len(m) < MemLen) => m # << >>
    OBVIOUS
  <2>. QED BY <2>1 DEF Remember
<1> HIDE DEF kept
<1>2. /\ Len(Remember(m, t)) = Len(kept) + 1 /\ Len(kept) \in Nat
      /\ Remember(m, t)[Len(kept) + 1] = t
  BY <1>1
<1>. QED BY <1>2 DEF Latest

LEMMA LatestMore ==
  ASSUME NEW m \in Seq(Turn), Len(m) <= MemLen, NEW t \in Turn,
         t.role # "user", NEW e, NEW n \in 0..MaxLoops, Latest(m, e, n)
  PROVE  Latest(Remember(m, t), e, n + 1)
<1>1. PICK i \in 1..Len(m) :
        /\ m[i].role = "user" /\ m[i].ex = e /\ Len(m) - i <= n
        /\ \A j \in 1..Len(m) : i < j => m[j].role # "user"
  BY DEF Latest
<1> DEFINE r == Remember(m, t)
<1>2. CASE Len(m) < MemLen
  <2>1. /\ Len(r) = Len(m) + 1 /\ r[Len(m) + 1] = t
        /\ \A j \in 1..Len(m) : r[j] = m[j]
    BY <1>2 DEF Remember
  <2> HIDE DEF r
  <2>2. ASSUME NEW j \in 1..Len(r), i < j PROVE r[j].role # "user"
    <3>1. j \in 1..Len(m) \/ j = Len(m) + 1
      BY <2>1
    <3>. QED BY <1>1, <2>1, <2>2, <3>1
  <2>3. i \in 1..Len(r) /\ r[i] = m[i] /\ Len(r) - i <= n + 1
    BY <1>1, <2>1
  <2>4. Latest(r, e, n + 1)
    BY <1>1, <2>2, <2>3 DEF Latest
  <2>. QED BY <2>4 DEF r
<1>3. CASE ~(Len(m) < MemLen)
  <2>1. m # << >> /\ Len(m) = MemLen /\ i > 1
    BY <1>1, <1>3
  <2> DEFINE rest == Tail(m)
  <2>2. /\ rest \in Seq(Turn) /\ Len(rest) = Len(m) - 1
        /\ \A j \in 1..Len(rest) : rest[j] = m[j + 1]
    BY <2>1
  <2>3. r = Append(rest, t)
    BY <1>3 DEF Remember
  <2> HIDE DEF rest
  <2>4. /\ Len(r) = Len(m) /\ r[Len(m)] = t
        /\ \A j \in 1..Len(rest) : r[j] = m[j + 1]
    BY <2>2, <2>3
  <2> HIDE DEF r
  <2>5. ASSUME NEW j \in 1..Len(r), i - 1 < j PROVE r[j].role # "user"
    <3>1. CASE j = Len(m)
      BY <2>4, <3>1
    <3>2. CASE j # Len(m)
      <4>1. j \in 1..Len(rest) /\ j + 1 \in 1..Len(m) /\ i < j + 1
        BY <2>2, <2>4, <2>5, <3>2
      <4>. QED BY <1>1, <2>4, <4>1
    <3>. QED BY <3>1, <3>2
  <2>6. i - 1 \in 1..Len(r) /\ i - 1 \in 1..Len(rest) /\ Len(r) - (i - 1) <= n + 1
    BY <1>1, <2>1, <2>2, <2>4
  <2>7. r[i - 1] = m[i]
    BY <2>4, <2>6
  <2>8. Latest(r, e, n + 1)
    BY <1>1, <2>5, <2>6, <2>7 DEF Latest
  <2>. QED BY <2>8 DEF r
<1>. QED BY <1>2, <1>3

(* A step that is not thread b's, and writes nothing to its agent's buffer. *)
Undisturbed(b) ==
  /\ cur'[b] = cur[b] /\ loops'[b] = loops[b] /\ on'[b] = on[b]
  /\ mem'[on[b]] = mem[on[b]]

LEMMA HeardKept ==
  ASSUME NEW b \in Actors, Heard(b), Undisturbed(b), Given(b)' = Given(b)
  PROVE  Heard(b)'
BY DEF Heard, Undisturbed, Latest

LEMMA HeardQuiet ==
  ASSUME HeardLast,
         \A b \in Actors : pc'[b] \in Answering =>
           pc'[b] = pc[b] /\ (b \in Users => Undisturbed(b))
  PROVE  HeardLast'
<1> SUFFICES ASSUME NEW b \in Actors, pc'[b] \in Answering
             PROVE  (pc'[b] = "feeling" => b \in Users) /\ (b \in Users => Heard(b)')
  BY DEF HeardLast, Answering
<1>1. pc'[b] = pc[b] /\ pc[b] \in Answering
  OBVIOUS
<1>2. ASSUME b \in Users PROVE Heard(b)'
  <2>1. Undisturbed(b) /\ Heard(b)
    BY <1>1, <1>2 DEF HeardLast
  <2>2. Given(b)' = Given(b)
    BY <1>1, <2>1 DEF Given, Undisturbed
  <2>. QED BY <2>1, <2>2, HeardKept
<1>. QED BY <1>1, <1>2 DEF HeardLast

(* A step of one thread. *)
LEMMA HeardMove ==
  ASSUME TypeOK, HeardLast, NEW a \in Actors, NEW place,
         pc' = [pc EXCEPT ![a] = place],
         \A b \in Users : b # a /\ pc[b] \in Answering => Undisturbed(b),
         place \in Answering =>
           (a \in Users => Heard(a)') /\ (place = "feeling" => a \in Users)
  PROVE  HeardLast'
<1>0. pc \in [Actors -> Places]
  BY DEF TypeOK
<1> SUFFICES ASSUME NEW b \in Actors, pc'[b] \in Answering
             PROVE  (pc'[b] = "feeling" => b \in Users) /\ (b \in Users => Heard(b)')
  BY DEF HeardLast, Answering
<1>1. CASE b = a
  <2>1. pc'[b] = place
    BY <1>0, <1>1
  <2>. QED BY <1>1, <2>1
<1>2. CASE b # a
  <2>1. pc'[b] = pc[b] /\ pc[b] \in Answering
    BY <1>0, <1>2
  <2>2. ASSUME b \in Users PROVE Heard(b)'
    <3>1. Undisturbed(b) /\ Heard(b)
      BY <1>2, <2>1, <2>2 DEF HeardLast
    <3>2. Given(b)' = Given(b)
      BY <2>1, <3>1 DEF Given, Undisturbed
    <3>. QED BY <3>1, <3>2, HeardKept
  <2>. QED BY <2>1, <2>2 DEF HeardLast
<1>. QED BY <1>1, <1>2

LEMMA AnswererInside ==
  ASSUME NEW b, pc[b] \in Answering PROVE pc[b] \in Inside
BY DEF Answering, Inside, Places

(* A turn written to one buffer leaves those of other holders alone. *)
LEMMA OthersUndisturbed ==
  ASSUME Locked, TypeOK, Exclusion, NEW a \in Actors,
         pc[a] \in Inside \/ Holder(a) = NoOne,
         UNCHANGED <<loops, on>>, \A b \in Actors : b # a => cur'[b] = cur[b],
         NEW m, mem' = [mem EXCEPT ![on[a]] = m]
  PROVE  \A b \in Users : b # a /\ pc[b] \in Answering => Undisturbed(b)
<1> SUFFICES ASSUME NEW b \in Users, b # a, pc[b] \in Answering
             PROVE  Undisturbed(b)
  OBVIOUS
<1>1. b \in Actors /\ pc[b] \in Inside
  BY AnswererInside DEF Actors
<1>2. on[a] # on[b]
  BY <1>1, ShapeOfType, OtherAgent
<1>3. on[a] \in AgentIds /\ on[b] \in AgentIds /\ mem \in [AgentIds -> Seq(Turn)]
  BY <1>1 DEF TypeOK
<1>4. mem'[on[b]] = mem[on[b]]
  BY <1>2, <1>3
<1>. QED BY <1>1, <1>4 DEF Undisturbed

LEMMA HeardAddTurn ==
  ASSUME Locked, TypeOK, Exclusion, HeardLast, NEW a \in Actors,
         NEW role \in Roles, NEW then, pc[a] \in Inside,
         AddTurn(a, role, then), then # "feeling",
         then \in Answering /\ a \in Users =>
           \/ then = "thinking" /\ role = "user"
           \/ then = "replied" /\ role = "assistant" /\ pc[a] = "thinking"
  PROVE  HeardLast'
<1>1. PICK t \in Turn : t = NewTurn(a, role) /\ t.ex = cur[a] /\ t.role = role
  BY NewTurnType DEF NewTurn
<1>2. PICK k \in AgentIds : k = on[a]
  BY DEF TypeOK
<1>3. /\ pc \in [Actors -> Places] /\ loops[a] \in 0..MaxLoops
      /\ mem \in [AgentIds -> Seq(Turn)]
      /\ mem[k] \in Seq(Turn) /\ Len(mem[k]) <= MemLen
  BY DEF TypeOK
<1>4. /\ UNCHANGED <<cur, loops, on>>
      /\ \/ mem' = Remembered(a, t) /\ pc' = [pc EXCEPT ![a] = then]
         \/ mem' = mem /\ pc' = [pc EXCEPT ![a] = "leaving"]
  BY <1>1 DEF AddTurn, Goto
<1>5. CASE mem' = mem /\ pc' = [pc EXCEPT ![a] = "leaving"]
  <2>1. "leaving" \notin Answering /\ \A b \in Users : Undisturbed(b)
    BY <1>4, <1>5 DEF Answering, Undisturbed
  <2>. QED BY <1>5, <2>1, HeardMove
<1>6. CASE mem' = Remembered(a, t) /\ pc' = [pc EXCEPT ![a] = then]
  <2>0. PICK r : r = Remember(mem[k], t)
    OBVIOUS
  <2>1. mem' = [mem EXCEPT ![on[a]] = r]
    BY <1>2, <1>6, <2>0 DEF Remembered
  <2>2. mem'[on'[a]] = r /\ pc'[a] = then /\ cur'[a] = cur[a] /\ loops'[a] = loops[a]
    BY <1>2, <1>3, <1>4, <1>6, <2>1
  <2>3. \A b \in Users : b # a /\ pc[b] \in Answering => Undisturbed(b)
    BY <1>4, <2>1, OthersUndisturbed
  <2>4. ASSUME then \in Answering, a \in Users PROVE Heard(a)'
    <3>1. CASE then = "thinking" /\ role = "user"
      <4>1. Given(a)' = loops[a]
        BY <2>2, <3>1 DEF Given
      <4>2. Latest(r, cur[a], loops[a])
        BY <1>1, <1>3, <2>0, <3>1, LatestFresh
      <4>. QED BY <2>2, <4>1, <4>2 DEF Heard, Latest
    <3>2. CASE then = "replied" /\ role = "assistant" /\ pc[a] = "thinking"
      <4>1. Given(a)' = loops[a] + 1
        BY <2>2, <3>2 DEF Given
      <4>2. Latest(mem[k], cur[a], loops[a])
        BY <1>2, <2>4, <3>2 DEF HeardLast, Answering, Given, Heard
      <4>3. Latest(r, cur[a], loops[a] + 1)
        BY <1>1, <1>3, <2>0, <3>2, <4>2, LatestMore
      <4>. QED BY <2>2, <4>1, <4>3 DEF Heard, Latest
    <3>. QED BY <2>4, <3>1, <3>2
  <2>. QED BY <1>6, <2>3, <2>4, HeardMove
<1>. QED BY <1>4, <1>5, <1>6

(* Only drivers decide whether to speak up.                                *)
DriversDecide == \A u \in Users : pc[u] \notin {"deciding", "chosen"}

LEMMA DecideKept ==
  ASSUME TypeOK, DriversDecide, [Next]_vars
  PROVE  DriversDecide'
<1>0. pc \in [Actors -> Places] /\ \A u \in Users : u \in Actors /\ u \notin Drivers
  BY DEF TypeOK, Actors
<1>1. ASSUME NEW a \in Actors, NEW place, pc' = [pc EXCEPT ![a] = place],
             place \notin {"deciding", "chosen"} \/ a \notin Users
      PROVE  DriversDecide'
  BY <1>0, <1>1 DEF DriversDecide
<1>2. ASSUME NEW a \in Actors, Carry(a) PROVE DriversDecide'
  <2>1. ASSUME NEW role, NEW then, then \notin {"deciding", "chosen"},
               AddTurn(a, role, then)
        PROVE  DriversDecide'
    BY <1>1, <2>1 DEF AddTurn, Goto
  <2>2. CASE HearAsleep(a) \/ Murmur(a) \/ Hear(a) \/ Reply(a)
    BY <2>1, <2>2 DEF HearAsleep, Murmur, Hear, Reply
  <2>3. CASE CheckSleeping(a) \/ GiveUp(a) \/ Feel(a) \/ Leave(a)
             \/ Announce(a) \/ LoseAnnouncement(a) \/ Speak(a)
    BY <1>1, <2>3 DEF CheckSleeping, GiveUp, Feel, Leave, Announce,
                      LoseAnnouncement, Speak, Goto
  <2>4. CASE Count(a)
    BY <1>1, <2>4 DEF Count, AfterCount, Goto
  <2>5. CASE Decided(a)
    <3>1. a \notin Users
      BY <2>5 DEF Decided, DriversDecide
    <3>. QED BY <1>1, <2>5, <3>1 DEF Decided, Goto
  <2>. QED BY <1>2, <2>2, <2>3, <2>4, <2>5 DEF Carry
<1>3. ASSUME NEW u \in Users, Arrive(u) \/ Enter(u) PROVE DriversDecide'
  BY <1>0, <1>1, <1>3 DEF Arrive, Enter, Goto
<1>4. ASSUME NEW d \in Drivers, FlipSleep(d) \/ Decide(d) PROVE DriversDecide'
  BY <1>0, <1>1, <1>4 DEF FlipSleep, Decide, Goto, Actors
<1>5. CASE CancelDriver
  BY <1>0, <1>5 DEF CancelDriver, DriversDecide
<1>6. CASE Forget \/ Restart \/ UNCHANGED vars
  BY <1>0, <1>6 DEF Forget, Restart, vars, DriversDecide
<1>7. CASE Rebuild
  <2>1. CASE UNCHANGED pc
    BY <2>1 DEF DriversDecide
  <2>. QED BY <1>5, <1>7, <2>1 DEF Rebuild
<1>8. ASSUME NEW d \in Drivers, StartDriver(d) PROVE DriversDecide'
  BY <1>5, <1>8 DEF StartDriver
<1>. QED BY <1>2, <1>3, <1>4, <1>6, <1>7, <1>8 DEF Next

LEMMA HeardCarry ==
  ASSUME Locked, TypeOK, Exclusion, DriversDecide, HeardLast,
         NEW a \in Actors, Carry(a)
  PROVE  HeardLast'
<1>0. /\ pc \in [Actors -> Places] /\ loops \in [Actors -> 0..MaxLoops]
      /\ cur \in [Actors -> Nat]
  BY DEF TypeOK
<1>1. ASSUME pc[a] \in {"dozing", "murmur", "hearing", "thinking"}
      PROVE  pc[a] \in Inside
  BY <1>1 DEF Inside, Places
<1>2. CASE HearAsleep(a)
  BY <1>1, <1>2, HeardAddTurn DEF HearAsleep, Roles, Answering
<1>3. CASE Murmur(a)
  BY <1>1, <1>3, HeardAddTurn DEF Murmur, Roles, Answering
<1>4. CASE Hear(a)
  BY <1>1, <1>4, HeardAddTurn DEF Hear, Roles, Answering
<1>5. CASE Reply(a)
  BY <1>1, <1>5, HeardAddTurn DEF Reply, Roles, Answering
<1>6. ASSUME NEW place, pc' = [pc EXCEPT ![a] = place],
             place \in Answering => place = "thinking" /\ a \notin Users,
             UNCHANGED <<mem, on>>,
             \A b \in Actors \ {a} : cur'[b] = cur[b] /\ loops'[b] = loops[b]
      PROVE  HeardLast'
  <2>1. \A b \in Users : b # a => Undisturbed(b)
    BY <1>6 DEF Undisturbed, Actors
  <2>. QED BY <1>6, <2>1, HeardMove
<1>7. CASE CheckSleeping(a) \/ GiveUp(a) \/ Decided(a)
  <2>1. /\ UNCHANGED <<mem, on, cur, loops>>
        /\ \E place : pc' = [pc EXCEPT ![a] = place] /\ place \notin Answering
    BY <1>7 DEF CheckSleeping, GiveUp, Decided, Goto, Answering, log
  <2>. QED BY <1>6, <2>1
<1>8. CASE Leave(a)
  <2>1. /\ UNCHANGED <<mem, on>>
        /\ cur' = [cur EXCEPT ![a] = 0] /\ loops' = [loops EXCEPT ![a] = 0]
        /\ pc' = [pc EXCEPT ![a] = "idle"]
    BY <1>8 DEF Leave, Goto, log
  <2>2. \A b \in Actors \ {a} : cur'[b] = cur[b] /\ loops'[b] = loops[b]
    BY <1>0, <2>1
  <2>. QED BY <1>6, <2>1, <2>2 DEF Answering
<1>9. CASE Speak(a)
  <2>1. /\ a \notin Users /\ UNCHANGED <<mem, on, loops>>
        /\ pc' = [pc EXCEPT ![a] = "thinking"]
        /\ \E e : cur' = [cur EXCEPT ![a] = e]
    BY <1>9 DEF Speak, StartExchange, Goto, DriversDecide, log
  <2>2. \A b \in Actors \ {a} : cur'[b] = cur[b] /\ loops'[b] = loops[b]
    BY <1>0, <2>1
  <2>. QED BY <1>6, <2>1, <2>2
<1>10. CASE Count(a)
  <2>0. UNCHANGED <<mem, on, cur, loops>>
    BY <1>10 DEF Count
  <2>1. CASE pc[a] = "replied" /\ a \in Users
    <3>1. pc' = [pc EXCEPT ![a] = "feeling"]
      BY <1>10, <2>1 DEF Count, AfterCount, Goto
    <3>2. Given(a)' = Given(a) /\ pc[a] \in Answering
      BY <1>0, <2>0, <2>1, <3>1 DEF Given, Answering
    <3>3. \A b \in Users : Undisturbed(b)
      BY <2>0 DEF Undisturbed
    <3>4. Heard(a)'
      BY <2>1, <3>2, <3>3, HeardKept DEF HeardLast
    <3>. QED BY <2>1, <3>1, <3>3, <3>4, HeardMove
  <2>2. CASE ~(pc[a] = "replied" /\ a \in Users)
    <3>1. AfterCount(a) \in {"murmur", "leaving"}
      BY <1>10, <2>2 DEF Count, AfterCount
    <3>2. pc' = [pc EXCEPT ![a] = AfterCount(a)]
      BY <1>10 DEF Count, Goto
    <3>. QED BY <1>6, <2>0, <3>1, <3>2 DEF Answering
  <2>. QED BY <2>1, <2>2
<1>11. CASE Feel(a)
  <2>0. /\ pc[a] = "feeling" /\ UNCHANGED <<mem, on, cur>>
        /\ \/ pc' = [pc EXCEPT ![a] = "leaving"] /\ UNCHANGED loops
           \/ /\ loops' = [loops EXCEPT ![a] = @ + 1]
              /\ pc' = [pc EXCEPT ![a] = "thinking"]
    BY <1>11 DEF Feel, Goto, log
  <2>1. CASE pc' = [pc EXCEPT ![a] = "leaving"] /\ UNCHANGED loops
    BY <1>6, <2>0, <2>1 DEF Answering
  <2>2. CASE /\ loops' = [loops EXCEPT ![a] = @ + 1]
             /\ pc' = [pc EXCEPT ![a] = "thinking"]
    <3>1. Given(a)' = Given(a) /\ pc[a] \in Answering /\ a \in Users
      BY <1>0, <2>0, <2>2 DEF Given, Answering, HeardLast
    <3>2. Heard(a)'
      BY <2>0, <3>1 DEF HeardLast, Heard, Latest
    <3>3. \A b \in Users : b # a => Undisturbed(b)
      BY <1>0, <2>0, <2>2 DEF Undisturbed
    <3>. QED BY <2>2, <3>1, <3>2, <3>3, HeardMove
  <2>. QED BY <2>0, <2>1, <2>2
<1>12. CASE Announce(a)
  <2>1. /\ pc' = [pc EXCEPT ![a] = "idle"] /\ UNCHANGED <<loops, on>>
        /\ cur' = [cur EXCEPT ![a] = 0] /\ Holder(a) = NoOne
        /\ mem' = Remembered(a, NewTurn(a, "assistant"))
    BY <1>12 DEF Announce, Goto, Free
  <2>2. PICK m : mem' = [mem EXCEPT ![on[a]] = m]
    BY <2>1 DEF Remembered
  <2>3. \A b \in Actors : b # a => cur'[b] = cur[b]
    BY <1>0, <2>1
  <2>4. \A b \in Users : b # a /\ pc[b] \in Answering => Undisturbed(b)
    BY <2>1, <2>2, <2>3, OthersUndisturbed
  <2>. QED BY <2>1, <2>4, HeardMove DEF Answering
<1>13. CASE LoseAnnouncement(a)
  <2>1. /\ pc' = [pc EXCEPT ![a] = "idle"] /\ UNCHANGED <<mem, loops, on>>
        /\ cur' = [cur EXCEPT ![a] = 0]
    BY <1>13 DEF LoseAnnouncement, Goto
  <2>2. \A b \in Actors \ {a} : cur'[b] = cur[b] /\ loops'[b] = loops[b]
    BY <1>0, <2>1
  <2>. QED BY <1>6, <2>1, <2>2 DEF Answering
<1>. QED
  BY <1>2, <1>3, <1>4, <1>5, <1>7, <1>8, <1>9, <1>10, <1>11, <1>12, <1>13 DEF Carry

LEMMA HeardNext ==
  ASSUME Locked, TypeOK, AgentsKnown, Exclusion, DriversDecide, HeardLast, [Next]_vars
  PROVE  HeardLast'
<1>0. /\ pc \in [Actors -> Places] /\ cur \in [Actors -> Nat]
      /\ on \in [Actors -> AgentIds] /\ mem \in [AgentIds -> Seq(Turn)]
      /\ Users \cup Drivers = Actors
  BY DEF TypeOK, Actors
<1>1. ASSUME NEW a \in Actors, pc[a] \notin Answering, UNCHANGED <<mem, loops>>,
             \E place : pc' = [pc EXCEPT ![a] = place] /\ place \notin Answering,
             cur' = cur \/ \E e : cur' = [cur EXCEPT ![a] = e],
             on' = on \/ \E k : on' = [on EXCEPT ![a] = k]
      PROVE  HeardLast'
  <2>1. ASSUME NEW b \in Actors, b # a PROVE Undisturbed(b)
    BY <1>0, <1>1, <2>1 DEF Undisturbed
  <2>2. PICK place : pc' = [pc EXCEPT ![a] = place] /\ place \notin Answering
    BY <1>1
  <2>. QED BY <1>0, <2>1, <2>2, HeardMove
<1>2. ASSUME NEW u \in Users, Arrive(u) PROVE HeardLast'
  <2>1. /\ u \in Actors /\ pc[u] = "idle" /\ UNCHANGED <<mem, loops>>
        /\ pc' = [pc EXCEPT ![u] = "waiting"]
        /\ \E e : cur' = [cur EXCEPT ![u] = e]
        /\ \E k : on' = [on EXCEPT ![u] = k]
    BY <1>0, <1>2 DEF Arrive, StartExchange, Goto, log
  <2>2. {"idle", "waiting"} \cap Answering = {}
    BY DEF Answering
  <2>. QED BY <1>1, <2>1, <2>2
<1>3. ASSUME NEW u \in Users, Enter(u) PROVE HeardLast'
  <2>1. /\ u \in Actors /\ pc[u] = "waiting" /\ UNCHANGED <<mem, loops, cur, on>>
        /\ pc' = [pc EXCEPT ![u] = "entered"]
    BY <1>0, <1>3 DEF Enter, Goto, log
  <2>2. {"waiting", "entered"} \cap Answering = {}
    BY DEF Answering
  <2>. QED BY <1>1, <2>1, <2>2
<1>4. ASSUME NEW d \in Drivers, FlipSleep(d) PROVE HeardLast'
  <2>1. /\ d \in Actors /\ pc[d] = "idle" /\ UNCHANGED <<mem, loops, on>>
        /\ pc' = [pc EXCEPT ![d] = "announcing"]
        /\ \E e : cur' = [cur EXCEPT ![d] = e]
    BY <1>0, <1>4 DEF FlipSleep, StartExchange, Goto, log
  <2>2. {"idle", "announcing"} \cap Answering = {}
    BY DEF Answering
  <2>. QED BY <1>1, <2>1, <2>2
<1>5. ASSUME NEW d \in Drivers, Decide(d) PROVE HeardLast'
  <2>1. /\ d \in Actors /\ pc[d] = "idle" /\ UNCHANGED <<mem, loops, cur, on>>
        /\ pc' = [pc EXCEPT ![d] = "deciding"]
    BY <1>0, <1>5 DEF Decide, Goto, log
  <2>2. {"idle", "deciding"} \cap Answering = {}
    BY DEF Answering
  <2>. QED BY <1>1, <2>1, <2>2
<1>6. ASSUME NEW b \in Actors, CancelDriver \/ UNCHANGED pc, pc'[b] \in Answering
      PROVE  pc'[b] = pc[b]
  BY <1>0, <1>6 DEF CancelDriver, Answering
<1>7. ASSUME NEW d \in Drivers, StartDriver(d) PROVE HeardLast'
  <2>1. /\ CancelDriver /\ UNCHANGED <<mem, cur, loops>>
        /\ pc[d] = "idle" /\ d \notin Users /\ on' = [on EXCEPT ![d] = agent]
    BY <1>7 DEF StartDriver, log
  <2>2. ASSUME NEW b \in Actors, b \in Users PROVE Undisturbed(b)
    BY <1>0, <2>1, <2>2 DEF Undisturbed
  <2>. QED BY <1>6, <2>1, <2>2, HeardQuiet
<1>8. ASSUME NEW a \in Actors, Carry(a) PROVE HeardLast'
  BY <1>8, HeardCarry
<1>9. CASE Rebuild
  <2>1. /\ CancelDriver \/ UNCHANGED pc
        /\ UNCHANGED <<cur, loops, on>>
        /\ \E m : mem' = [mem EXCEPT ![agent + 1] = m]
    BY <1>9 DEF Rebuild
  <2>2. agent \in Nat /\ \A b \in Actors : on[b] \in Nat /\ on[b] <= agent
    <3>1. agent \in Nat /\ AgentIds \subseteq Nat
      BY DEF TypeOK, AgentIds
    <3>2. \A b \in Actors : on[b] \in Nat
      BY <1>0, <3>1
    <3>. QED BY <3>1, <3>2 DEF AgentsKnown
  <2>3. ASSUME NEW b \in Actors PROVE Undisturbed(b)
    <3>1. on[b] # agent + 1
      BY <2>2
    <3>2. mem'[on[b]] = mem[on[b]]
      BY <1>0, <2>1, <3>1
    <3>. QED BY <2>1, <3>2 DEF Undisturbed
  <2>. QED BY <1>6, <2>1, <2>3, HeardQuiet
<1>10. CASE Restart
  <2>1. \A b \in Actors : pc'[b] \notin Answering
    BY <1>10 DEF Restart, Answering
  <2>. QED BY <2>1, HeardQuiet
<1>11. CASE UNCHANGED vars
  <2>1. UNCHANGED pc /\ \A b \in Actors : Undisturbed(b)
    BY <1>11 DEF vars, log, Undisturbed
  <2>. QED BY <2>1, HeardQuiet
<1>12. ~Forget
  BY DEF Forget
<1>. QED
  BY <1>2, <1>3, <1>4, <1>5, <1>7, <1>8, <1>9, <1>10, <1>11, <1>12 DEF Next

(* Only Feel changes felt, and it reads the latest user turn.              *)
LEMMA FeelsOwn ==
  ASSUME TypeOK, HeardLast, [Next]_vars, NEW e \in 0..MaxExchanges, felt'[e] # felt[e]
  PROVE  \E u \in Users : pc[u] = "feeling" /\ cur[u] = e
<1>1. PICK a \in Actors : Feel(a)
  BY DEF Next, vars, Arrive, Enter, FlipSleep, Decide, StartDriver, Rebuild, Forget,
         Restart, Carry, CheckSleeping, HearAsleep, Murmur, Hear, Reply, AddTurn,
         GiveUp, Count, Leave, Announce, LoseAnnouncement, Decided, Speak
<1>2. a \in Users /\ pc[a] = "feeling" /\ Latest(mem[on[a]], cur[a], Given(a))
  BY <1>1 DEF Feel, HeardLast, Heard, Answering
<1>3. mem[on[a]] \in Seq(Turn) /\ cur[a] \in Nat
  BY DEF TypeOK
<1>4. LastUserEx(mem[on[a]]) = cur[a]
  <2>1. PICK m : m = mem[on[a]]
    OBVIOUS
  <2>2. PICK n : n = Given(a)
    OBVIOUS
  <2>3. m \in Seq(Turn) /\ Latest(m, cur[a], n)
    BY <1>2, <1>3, <2>1, <2>2
  <2>. QED BY <1>3, <2>1, <2>3, LatestIs
<1>5. felt' = [felt EXCEPT ![cur[a]] = @ + 1] /\ felt \in [0..MaxExchanges -> Nat]
  BY <1>1, <1>4 DEF Feel, TypeOK
<1>6. e = cur[a]
  BY <1>5
<1>. QED BY <1>2, <1>6

(* On the Web, the emotional shift computed for an exchange is computed by *)
(* the thread that carries it, from its own user turn: _process_emotion    *)
(* takes the latest user turn of the buffer, and that is the right one as  *)
(* long as the lock is held and the buffer is longer than the loops of one *)
(* reply.                                                                  *)
THEOREM FeelingsAttributed ==
  ASSUME Locked
  PROVE  Spec => FeelsOwnTurn
<1> DEFINE Inv == /\ TypeOK /\ Numbers /\ Exclusion /\ ExchangesContiguous
                  /\ DriversDecide /\ HeardLast
           Own == \A e \in 0..MaxExchanges :
                    felt'[e] # felt[e] => \E u \in Users : pc[u] = "feeling" /\ cur[u] = e
<1>1. Init => Inv
  <2>1. Init => DriversDecide /\ HeardLast
    BY DEF Init, DriversDecide, HeardLast, Answering, Actors
  <2>. QED BY <2>1, TypeInit, NumbersInit, ExclusionInit
<1>2. Inv /\ [Next]_vars => Inv'
  BY TypeNext, NumbersNext, ExclusionNext, DecideKept, HeardNext DEF Numbers
<1>3. Inv /\ [Next]_vars => [Own]_vars
  BY FeelsOwn
<1> HIDE DEF Inv, Own
<1>4. Spec => [][Own]_vars
  BY <1>1, <1>2, <1>3, PTL DEF Spec
<1>. QED BY <1>4 DEF FeelsOwnTurn, Own
=============================================================================
