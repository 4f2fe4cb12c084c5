--------------------------- MODULE PipelineProofs ---------------------------
(***************************************************************************)
(* Proofs about Pipeline, for any requests and limits: the bounds on       *)
(* rounds, retries and attempts hold, a tool that succeeded is not run     *)
(* again, and its success reaches Agent 3.                                 *)
(***************************************************************************)
EXTENDS Pipeline, TLAPS

(* Which kinds of turn pass through which place. *)
PathsFit ==
  /\ pc = "assess" => path = "message"
  /\ pc \in {"round", "decide"} => path = "tools"
  /\ pc \in {"batch", "judge"} => path \in {"tools", "intent"}
  /\ pc = "intent" => path \in {"message", "intent"}
  /\ pc = "explore" => path = "explore"

(* An attempt of Agent 2 is the first of its round or one of the retries,  *)
(* and only _run_agent2 counts them. *)
Tally ==
  /\ attempts <= round + retries
  /\ path = "tools" => round <= MaxRounds
  /\ path # "tools" => attempts = 0
  /\ pc \in {"idle", "recall", "assess", "explore"} => round = 0 /\ attempts = 0

(* A request that runs has an attempt left. *)
AttemptLeft ==
  pc = "batch" => \A r \in Requests :
    /\ work[r] = "queued" => tries[r] = 0
    /\ work[r] = "running" => tries[r] < MaxTries

(* No batch is left with a future pending, nor does a given-up one outlive *)
(* its round, and only what is in the batch runs. *)
PoolFits ==
  /\ pc # "batch" => awaited = {}
  /\ pc \notin {"batch", "judge", "decide"} => lost = {}
  /\ pc = "batch" => \A r \in Requests : work[r] # "none" => r \in batch

(* The successes of the rounds before this one, and outside the tools all  *)
(* of them, are recorded, cut or given up. *)
Recorded ==
  \A p \in ok :
    \/ Disclosed(p)
    \/ pc \in {"batch", "judge"} /\ p[1] = round

(* The round that runs is the last one that had a success, or a record.    *)
NoneAhead ==
  /\ pc \in {"round", "batch", "judge", "decide"} => \A p \in ok \cup told : p[1] <= round
  /\ pc \in {"idle", "recall", "assess", "explore"} => ok = {} /\ told = {}

(* What has succeeded in this round, and was not given up, belongs to the  *)
(* batch, and its run has ended. *)
DoneIsDone ==
  pc \in {"batch", "judge"} => \A r \in Requests :
    <<round, r>> \in ok \ strays =>
      r \in batch \ lost /\ got[r] = "success" /\ work[r] = "ended"

TurnInv == /\ PathsFit /\ Tally /\ AttemptLeft /\ PoolFits
           /\ Recorded /\ NoneAhead /\ DoneIsDone

IInv == TypeOK /\ TurnInv
-----------------------------------------------------------------------------
USE PipelineAssumption DEF PipelineAssumption

(* The end of a turn restores what a new one starts from.                  *)
LEMMA EndKeeps ==
  ASSUME IInv, NEW why \in {"none", "model", "memory"}, Ends(why), path' \in Paths
  PROVE  IInv'
<1>0. full' \in BOOLEAN
  BY Zenon DEF Ends
<1>1. TypeOK'
  BY <1>0 DEF IInv, TurnInv, TypeOK, Ends, Goes, NoTools, Places, Rank
<1>2. TurnInv'
  BY DEF Ends, Goes, NoTools, PathsFit, Tally, AttemptLeft, PoolFits, Recorded, Disclosed,
         NoneAhead, DoneIsDone, TurnInv
<1> QED BY <1>1, <1>2 DEF IInv, TurnInv

(* Agent 3 takes over when all that succeeded is recorded.                 *)
LEMMA HandOverKeeps ==
  ASSUME IInv, pc \in {"round", "batch", "judge", "decide"}, Agent3Next,
         UNCHANGED <<path, memory, react, cause>>,
         \A p \in ok' : Disclosed(p)', full' \in BOOLEAN,
         ok' \subseteq Pairs, told' \subseteq Pairs, strays' \subseteq Pairs
  PROVE  IInv'
<1>1. TypeOK'
  BY DEF IInv, TurnInv, TypeOK, Agent3Next, Goes, NoTools, Places, Rank, react
<1>2. PathsFit' /\ Tally'
  BY DEF IInv, TurnInv, TypeOK, Agent3Next, Goes, NoTools, PathsFit, Tally, Rank
<1>3. AttemptLeft' /\ PoolFits' /\ Recorded' /\ NoneAhead' /\ DoneIsDone'
  BY DEF Agent3Next, Goes, NoTools, AttemptLeft, PoolFits, Recorded, Disclosed, NoneAhead,
         DoneIsDone
<1> QED BY <1>1, <1>2, <1>3 DEF IInv, TurnInv

LEMMA LaunchTypes ==
  ASSUME NEW rs \in SUBSET Requests, Launch(rs)
  PROVE  /\ pc' = "batch" /\ batch' = rs /\ awaited' = rs /\ lost' = {}
         /\ work' \in [Requests -> {"none", "queued", "running", "ended"}]
         /\ tries' \in [Requests -> 0..MaxTries]
         /\ got' \in [Requests -> {"nothing", "failures", "success"}]
         /\ AttemptLeft' /\ PoolFits'
BY DEF Launch, Goes, AttemptLeft, PoolFits

LEMMA RoundRange == TypeOK => round \in Nat /\ round <= MaxRounds + MaxLoops
BY DEF TypeOK, Rank

LEMMA BeginKeeps ==
  ASSUME IInv, NEW kind \in {"message", "proactive", "explore"}, Begin(kind)
  PROVE  IInv'
<1>1. TypeOK'
  BY DEF IInv, TurnInv, TypeOK, Begin, Goes, Places, Paths, tally, pool, react,
         facts
<1>2. TurnInv'
  BY DEF IInv, TurnInv, TypeOK, Begin, Goes, tally, pool, facts, Rank,
         PathsFit, Tally, AttemptLeft, PoolFits, Recorded, Disclosed, NoneAhead, DoneIsDone
<1> QED BY <1>1, <1>2 DEF IInv, TurnInv

(* Until the tools start there is nothing to be done twice.                *)
LEMMA BeforeToolsKeeps ==
  ASSUME IInv, Recall \/ Explore \/ Assess
  PROVE  IInv'
<1>1. CASE \E why \in {"none", "model", "memory"} : Ends(why) /\ UNCHANGED path
  BY <1>1, EndKeeps DEF IInv, TurnInv, TypeOK
<1>2. ASSUME Recall, ~Ends("memory")  PROVE IInv'
  <2>1. TypeOK'
    BY <1>2 DEF IInv, TurnInv, TypeOK, Recall, Goes, Places, tally, pool, react,
                facts
  <2>2. TurnInv'
    BY <1>2 DEF IInv, TurnInv, Recall, Goes, tally, pool, facts, PathsFit,
                Tally, AttemptLeft, PoolFits, Recorded, Disclosed, NoneAhead, DoneIsDone
  <2> QED BY <2>1, <2>2 DEF IInv, TurnInv
<1>3. ASSUME Explore, ~Ends("model")  PROVE IInv'
  <2>1. TypeOK'
    BY <1>3 DEF IInv, TurnInv, TypeOK, Explore, Goes, Places, tally, pool,
                react, facts
  <2>2. TurnInv'
    BY <1>3 DEF IInv, TurnInv, Explore, Goes, tally, pool, facts, PathsFit,
                Tally, AttemptLeft, PoolFits, Recorded, Disclosed, NoneAhead, DoneIsDone
  <2> QED BY <2>1, <2>2 DEF IInv, TurnInv
<1>4. ASSUME Assess  PROVE IInv'
  <2>1. /\ batch' \subseteq Requests /\ lead' \in Requests
        /\ awaited' \subseteq batch' /\ lost' \subseteq batch'
    BY <1>4 DEF IInv, TurnInv, TypeOK, Assess, Asks, pool, PoolFits
  <2>2. TypeOK'
    BY <1>4, <2>1 DEF IInv, TurnInv, TypeOK, Assess, Goes, Places, Paths, tally,
                      pool, react, facts
  <2>3. awaited' = {} /\ lost' = {}
    BY <1>4 DEF IInv, TurnInv, Assess, pool, PoolFits
  <2>4. TurnInv'
    BY <1>4, <2>3 DEF IInv, TurnInv, TypeOK, Assess, Goes, tally, facts,
                      PathsFit, Tally, AttemptLeft, PoolFits, Recorded, Disclosed,
                      NoneAhead, DoneIsDone
  <2> QED BY <2>2, <2>4 DEF IInv, TurnInv
<1> QED BY <1>1, <1>2, <1>3, <1>4 DEF Recall, Explore

LEMMA AttemptBound ==
  ASSUME NEW a \in Nat, NEW n \in Nat, NEW k \in 0..MaxRetries, a <= n + k, n <= MaxRounds
  PROVE  a \in 0..(MaxRounds + MaxRetries)
OBVIOUS

(* A new batch starts clean: what of this round has succeeded was given    *)
(* up.                                                                     *)
LEMMA LaunchKeeps ==
  ASSUME IInv, NEW rs \in SUBSET Requests, Launch(rs), path' \in {"tools", "intent"},
         UNCHANGED <<memory, deadline, react, cause>>, lead' \in Requests,
         round' \in 0..Rank(MaxRounds, MaxLoops), retries' \in 0..MaxRetries,
         attempts' \in Nat, Tally',
         ok' \subseteq ok, told' \subseteq Pairs, strays' \subseteq Pairs, full' \in BOOLEAN,
         \A p \in ok' \cup told' : p[1] <= round', \A p \in ok' : Disclosed(p)',
         \A r \in Requests : <<round', r>> \in ok' => <<round', r>> \in strays'
  PROVE  IInv'
<1>1. TypeOK'
  <2>1. attempts' \in 0..(MaxRounds + MaxRetries)
    <3>1. CASE path' = "tools"
      <4>1. round' \in Nat
        BY DEF Rank
      <4>2. attempts' <= round' + retries' /\ round' <= MaxRounds
        BY <3>1 DEF Tally
      <4> QED BY <4>1, <4>2, AttemptBound, Zenon
    <3>2. CASE path' # "tools"
      <4>1. attempts' = 0
        BY <3>2 DEF Tally
      <4> QED BY <4>1
    <3> QED BY <3>1, <3>2
  <2> QED BY <2>1, LaunchTypes DEF IInv, TypeOK, Places, Paths, react
<1>2. PathsFit' /\ Tally' /\ AttemptLeft' /\ PoolFits'
  BY LaunchTypes DEF PathsFit
<1>3. Recorded' /\ NoneAhead' /\ DoneIsDone'
  BY LaunchTypes DEF Recorded, Disclosed, NoneAhead, DoneIsDone
<1> QED BY <1>1, <1>2, <1>3 DEF IInv, TurnInv

LEMMA StartRoundKeeps ==
  ASSUME IInv, StartRound
  PROVE  IInv'
<1>1. \A p \in ok : Disclosed(p)
  BY DEF IInv, TurnInv, StartRound, Recorded
<1>2. CASE deadline = "passed" /\ Agent3Next
  BY <1>1, <1>2, HandOverKeeps DEF IInv, TypeOK, StartRound, facts, Disclosed
<1>3. CASE ~(deadline = "passed" /\ Agent3Next)
  <2>1. /\ pc = "round" /\ path = "tools" /\ round < MaxRounds /\ Launch(batch)
        /\ round' = round + 1 /\ attempts' = attempts + 1
        /\ UNCHANGED <<path, memory, retries, deadline, lead, react, cause, ok, told, strays, full>>
    BY <1>3 DEF IInv, TurnInv, PathsFit, StartRound, facts
  <2>2. Tally' /\ attempts' \in Nat
    BY <2>1, LaunchTypes DEF IInv, TypeOK, TurnInv, Tally, Rank
  <2>3. \A p \in ok \cup told : p[1] <= round
    BY <2>1 DEF IInv, TurnInv, NoneAhead
  <2>4. \A p \in ok \cup told : p[1] \in Nat
    BY DEF IInv, TypeOK, Pairs
  <2>5. /\ \A p \in ok' \cup told' : p[1] <= round'
        /\ \A p \in ok' : Disclosed(p)'
    BY <1>1, <2>1, <2>3, <2>4, RoundRange DEF IInv, Disclosed
  <2>6. \A r \in Requests : <<round', r>> \notin ok'
    BY <2>1, <2>3, RoundRange DEF IInv
  <2> QED BY <2>1, <2>2, <2>5, <2>6, LaunchKeeps DEF IInv, TypeOK, Rank
<1> QED BY <1>2, <1>3

LEMMA ExpireKeeps ==
  ASSUME IInv, Expire
  PROVE  IInv'
<1>1. TypeOK'
  BY DEF IInv, TypeOK, Expire, turn, pool, react, facts
<1>2. TurnInv'
  BY DEF IInv, Expire, turn, pool, facts, TurnInv, PathsFit, Tally, AttemptLeft,
         PoolFits, Recorded, Disclosed, NoneAhead, DoneIsDone
<1> QED BY <1>1, <1>2 DEF IInv

-----------------------------------------------------------------------------
(* Steps of the batch that leave the rounds alone.                         *)
LEMMA BatchKeeps ==
  ASSUME IInv, NEW r \in Requests, Take(r) \/ Collect(r) \/ GiveUp(r) \/ Leave
  PROVE  IInv'
<1>1. TypeOK'
  BY DEF IInv, TypeOK, Take, Collect, GiveUp, Leave, Goes, Places, turn, tally,
         react, facts
<1>2. PathsFit' /\ Tally' /\ Recorded' /\ NoneAhead'
  BY DEF IInv, Take, Collect, GiveUp, Leave, Goes, turn, tally, facts, TurnInv,
         PathsFit, Tally, Recorded, Disclosed, NoneAhead
<1>3. AttemptLeft' /\ PoolFits'
  BY DEF IInv, TypeOK, Take, Collect, GiveUp, Leave, Goes, turn, TurnInv,
         AttemptLeft, PoolFits
<1>4. DoneIsDone'
  BY DEF IInv, TypeOK, Take, Collect, GiveUp, Leave, Goes, turn, tally, facts,
         TurnInv, DoneIsDone
<1> QED BY <1>1, <1>2, <1>3, <1>4 DEF IInv, TurnInv

LEMMA TryKeeps ==
  ASSUME IInv, NEW r \in Requests, Try(r)
  PROVE  IInv'
<1>1. <<round, r>> \in Pairs
  BY RoundRange DEF IInv, Pairs
<1>2. tries[r] < MaxTries
  BY DEF IInv, TurnInv, Try, AttemptLeft
<1>3. TypeOK'
  BY <1>1, <1>2 DEF IInv, TypeOK, Try, Finds, Stops, turn, tally, react
<1>4. PathsFit' /\ Tally'
  BY DEF IInv, Try, turn, tally, TurnInv, PathsFit, Tally
<1>5. AttemptLeft' /\ PoolFits'
  BY <1>2 DEF IInv, TypeOK, Try, Stops, turn, TurnInv, AttemptLeft, PoolFits
<1>6. ok' \subseteq ok \cup {<<round, r>>} /\ strays \subseteq strays'
  BY DEF Try
<1>7. Recorded' /\ NoneAhead'
  BY <1>6, RoundRange DEF IInv, Try, turn, tally, TurnInv, Recorded, Disclosed, NoneAhead
<1>8. DoneIsDone'
  <2> SUFFICES ASSUME NEW q \in Requests, <<round, q>> \in ok' \ strays'
               PROVE  q \in batch \ lost /\ got'[q] = "success" /\ work'[q] = "ended"
    BY DEF Try, turn, tally, DoneIsDone
  <2>1. CASE q = r /\ <<round, r>> \notin ok
    <3>1. Finds(r, "success") /\ Stops(r) /\ r \notin lost
      BY <2>1 DEF Try
    <3> QED BY <2>1, <3>1 DEF IInv, TypeOK, Finds, Stops, Try, TurnInv, PoolFits
  <2>2. CASE <<round, q>> \in ok
    <3>1. q \in batch \ lost /\ got[q] = "success" /\ work[q] = "ended"
      BY <2>2, <1>6 DEF IInv, TurnInv, DoneIsDone, Try
    <3>2. q # r
      BY <3>1 DEF Try
    <3> QED BY <3>1, <3>2 DEF IInv, TypeOK, Try, Finds, Stops
  <2> QED BY <2>1, <2>2, <1>6
<1> QED BY <1>3, <1>4, <1>5, <1>7, <1>8 DEF IInv, TurnInv

LEMMA TryFailsKeeps ==
  ASSUME IInv, NEW r \in Requests, TryFails(r)
  PROVE  IInv'
<1>1. CASE Ends("model") /\ UNCHANGED path
  BY <1>1, EndKeeps DEF IInv, TypeOK
<1>2. CASE Inline /\ Agent3Next /\ UNCHANGED <<path, memory, react, cause, facts>>
  <2>1. work[r] = "running" /\ pc = "batch" /\ r \in batch
    BY DEF IInv, TurnInv, TryFails, PoolFits
  <2>2. \A p \in ok : Disclosed(p)
    <3> SUFFICES ASSUME NEW p \in ok, p[1] = round, p \notin strays  PROVE FALSE
      BY DEF IInv, TurnInv, Recorded, Disclosed
    <3>1. p[2] \in Requests /\ p = <<round, p[2]>>
      BY DEF IInv, TypeOK, Pairs
    <3>2. p[2] \in batch /\ work[p[2]] = "ended"
      BY <2>1, <3>1 DEF IInv, TurnInv, DoneIsDone
    <3>3. p[2] = r
      BY <1>2, <2>1, <3>2 DEF Inline
    <3> QED BY <2>1, <3>2, <3>3
  <2> QED BY <1>2, <2>1, <2>2, HandOverKeeps DEF IInv, TypeOK, facts, Disclosed
<1>3. CASE ~Inline /\ Stops(r) /\ Finds(r, "nothing")
  <2>0. /\ pc = "batch" /\ work[r] = "running"
        /\ UNCHANGED <<turn, tally, lead, batch, awaited, lost, tries, react, cause, facts>>
    BY <1>3 DEF TryFails
  <2>1. TypeOK'
    BY <1>3, <2>0 DEF IInv, TypeOK, Finds, Stops, turn, tally, react, facts
  <2>2. PathsFit' /\ Tally' /\ Recorded' /\ NoneAhead'
    BY <2>0 DEF IInv, turn, tally, facts, TurnInv, PathsFit, Tally, Recorded, Disclosed,
                NoneAhead
  <2>3. AttemptLeft' /\ PoolFits'
    BY <1>3, <2>0 DEF IInv, TypeOK, Stops, turn, TurnInv, AttemptLeft, PoolFits
  <2>4. DoneIsDone'
    BY <1>3, <2>0 DEF IInv, TypeOK, Finds, Stops, turn, tally, facts, TurnInv,
                      DoneIsDone
  <2> QED BY <2>1, <2>2, <2>3, <2>4 DEF IInv, TurnInv
<1> QED BY <1>1, <1>2, <1>3 DEF TryFails

-----------------------------------------------------------------------------
LEMMA RetryKeeps ==
  ASSUME IInv, Retry
  PROVE  IInv'
<1>1. /\ pc = "judge" /\ path \in {"tools", "intent"} /\ Succeeded = {}
      /\ retries < MaxRetries /\ retries' = retries + 1 /\ Launch({lead})
      /\ attempts' = IF path = "tools" THEN attempts + 1 ELSE attempts
      /\ UNCHANGED <<path, memory, round, deadline, lead, react, cause, ok, told, strays, full>>
  BY DEF IInv, TurnInv, PathsFit, Retry, Retries, facts
<1>2. Tally' /\ attempts' \in Nat
  BY <1>1, LaunchTypes DEF IInv, TypeOK, TurnInv, Tally, Rank
<1>3. \A r \in Requests : <<round, r>> \in ok => <<round, r>> \in strays
  BY <1>1 DEF IInv, TurnInv, DoneIsDone, Succeeded
<1>4. \A p \in ok : Disclosed(p)
  <2> SUFFICES ASSUME NEW p \in ok  PROVE Disclosed(p)
    OBVIOUS
  <2>1. p[2] \in Requests /\ p = <<p[1], p[2]>>
    BY DEF IInv, TypeOK, Pairs
  <2>2. p[1] <= round
    BY <1>1 DEF IInv, TurnInv, NoneAhead
  <2>3. CASE p[1] = round
    BY <1>3, <2>1, <2>2, <2>3 DEF Disclosed
  <2>4. CASE p[1] # round
    BY <2>2, <2>4 DEF IInv, TurnInv, Recorded
  <2> QED BY <2>3, <2>4
<1>5. \A p \in ok' \cup told' : p[1] <= round'
  BY <1>1 DEF IInv, TurnInv, NoneAhead
<1>6. \A p \in ok' : Disclosed(p)'
  BY <1>1, <1>4 DEF Disclosed
<1> QED BY <1>1, <1>2, <1>3, <1>5, <1>6, LaunchKeeps DEF IInv, TypeOK

LEMMA AppendKeeps ==
  ASSUME IInv, Append
  PROVE  IInv'
<1>1. PICK seen \in SUBSET Succeeded, cut \in BOOLEAN :
        Readable(seen, cut) /\ told' = told \cup ({round} \X seen) /\ full' = cut
  BY DEF Append
<1>2. /\ pc = "judge" /\ full' \in BOOLEAN
      /\ UNCHANGED <<path, memory, react, cause, ok, strays>>
  BY <1>1 DEF Append
<1>3. ok' \subseteq Pairs /\ told' \subseteq Pairs /\ strays' \subseteq Pairs
  BY <1>1, <1>2, RoundRange DEF IInv, TypeOK, Pairs, Succeeded
<1>4. \A q \in ok' \cup told' : q[1] <= round
  BY <1>1, <1>2, RoundRange DEF IInv, TurnInv, NoneAhead
<1>5. \A p \in ok' : Disclosed(p)'
  <2> SUFFICES ASSUME NEW p \in ok, p \notin told', p \notin strays
               PROVE  full' /\ \A q \in told' : q[1] <= p[1]
    BY <1>2 DEF Disclosed
  <2>1. CASE p[1] = round
    <3>1. p[2] \in Requests /\ p = <<round, p[2]>>
      BY <2>1 DEF IInv, TypeOK, Pairs
    <3>2. p[2] \in Succeeded \ seen
      BY <1>1, <1>2, <3>1 DEF IInv, TurnInv, DoneIsDone, Succeeded
    <3> QED BY <1>1, <1>4, <2>1, <3>2 DEF Readable
  <2>2. CASE p[1] # round
    <3>1. full /\ \A q \in told : q[1] <= p[1]
      BY <1>1, <2>2 DEF IInv, TurnInv, Recorded, Disclosed
    <3>2. told' = told /\ full'
      BY <1>1, <3>1 DEF Readable
    <3> QED BY <3>1, <3>2
  <2> QED BY <2>1, <2>2
<1>6. CASE Agent3Next
  BY <1>2, <1>3, <1>5, <1>6, HandOverKeeps
<1>7. CASE path = "tools" /\ Goes("decide") /\ UNCHANGED <<tally, pool>>
  <2>1. TypeOK'
    BY <1>2, <1>3, <1>7 DEF IInv, TypeOK, Goes, Places, tally, pool, react
  <2>2. /\ PathsFit' /\ Tally' /\ AttemptLeft' /\ PoolFits' /\ DoneIsDone'
    BY <1>2, <1>7 DEF IInv, TurnInv, Goes, tally, pool, PathsFit, Tally,
                      AttemptLeft, PoolFits, DoneIsDone
  <2>3. Recorded' /\ NoneAhead'
    BY <1>4, <1>5, <1>7 DEF Goes, tally, Recorded, NoneAhead
  <2> QED BY <2>1, <2>2, <2>3 DEF IInv, TurnInv
<1> QED BY <1>6, <1>7 DEF Append

LEMMA DecideKeeps ==
  ASSUME IInv, Decide
  PROVE  IInv'
<1>1. pc = "decide" /\ \A p \in ok : Disclosed(p)
  BY DEF IInv, TurnInv, Decide, Recorded
<1>2. CASE Agent3Next
  BY <1>1, <1>2, HandOverKeeps DEF IInv, TypeOK, Decide, facts, Disclosed
<1>3. CASE ~Agent3Next
  <2>1. /\ \E rs \in (SUBSET Requests) \ {{}} : Asks(rs)
        /\ pc' = "round" /\ lost' = {} /\ work' = [r \in Requests |-> "none"]
        /\ got' = [r \in Requests |-> "nothing"] /\ awaited' = {}
        /\ UNCHANGED <<tally, tries, path, memory, react, cause, facts>>
    BY <1>3 DEF IInv, TurnInv, PoolFits, Decide, Goes
  <2>2. TypeOK'
    BY <2>1 DEF IInv, TypeOK, Asks, Places, tally, react, facts
  <2>3. TurnInv'
    BY <1>1, <2>1 DEF IInv, TurnInv, tally, facts, PathsFit, Tally, AttemptLeft,
                      PoolFits, Recorded, Disclosed, NoneAhead, DoneIsDone
  <2> QED BY <2>2, <2>3 DEF IInv
<1> QED BY <1>2, <1>3

-----------------------------------------------------------------------------
(* Agent 3 runs no external tool; a turn ends here, or it goes on.         *)
LEMMA Agent3Keeps ==
  ASSUME IInv, Agent3
  PROVE  IInv'
<1>1. CASE \E why \in {"none", "memory"} : Ends(why) /\ UNCHANGED path
  BY <1>1, EndKeeps DEF IInv, TypeOK
<1>2. CASE \/ Express /\ ~Ends("memory")
           \/ Text /\ ~Returns
           \/ Fake
           \/ InnerTools
  <2>1. /\ pc \in {"express", "react"} /\ pc' \in {"react", "intent"}
        /\ pc' = "intent" => path \in {"message", "intent"}
        /\ iter' \in 0..MaxIterations /\ fakes' \in 0..MaxFakes /\ fails' \in 0..Threshold
        /\ UNCHANGED <<path, memory, tally, pool, cause, facts>>
    BY <1>2 DEF IInv, TypeOK, Express, Text, Returns, Proposes, Fake,
                InnerTools, Goes, turn
  <2>2. TypeOK'
    BY <2>1 DEF IInv, TypeOK, Places, tally, pool, facts
  <2>3. TurnInv'
    BY <2>1 DEF IInv, TurnInv, tally, pool, facts, PathsFit, Tally, AttemptLeft,
                PoolFits, Recorded, Disclosed, NoneAhead, DoneIsDone
  <2> QED BY <2>2, <2>3 DEF IInv
<1> QED BY <1>1, <1>2 DEF Agent3, Express, Text, Returns, Falls

LEMMA IntentsKeep ==
  ASSUME IInv, Intents
  PROVE  IInv'
<1>1. CASE Refuse
  BY <1>1, EndKeeps DEF IInv, TypeOK, Refuse, Returns
<1>2. CASE IntentFails
  BY <1>2, EndKeeps DEF IntentFails, Paths
<1>3. CASE Approve
  <2>1. PICK rs \in SUBSET Requests : lead' \in rs /\ Launch(rs)
    BY <1>3 DEF Approve
  <2>2. /\ pc = "intent" /\ round < MaxLoops /\ path' = "intent" /\ round' = round + 1
        /\ retries' = 0 /\ ok' = {} /\ told' = {} /\ strays' = {} /\ full' = FALSE
        /\ UNCHANGED <<memory, attempts, deadline, react, cause>>
    BY <1>3 DEF Approve
  <2>3. attempts = 0
    BY <2>2 DEF IInv, TurnInv, PathsFit, Tally
  <2>4. Tally' /\ attempts' \in Nat
    BY <2>1, <2>2, <2>3, LaunchTypes, RoundRange DEF IInv, Tally
  <2>5. full' \in BOOLEAN
    BY <1>3, Zenon DEF Approve
  <2> QED BY <2>1, <2>2, <2>4, <2>5, LaunchKeeps DEF IInv, TypeOK, Rank
<1> QED BY <1>1, <1>2, <1>3 DEF Intents

LEMMA InvariantHolds == Spec => []IInv
<1>0. Init => full \in BOOLEAN
  BY Zenon DEF Init
<1>1. Init => IInv
  BY <1>0 DEF Init, IInv, TypeOK, Places, Paths, Rank, TurnInv, PathsFit, Tally,
         AttemptLeft, PoolFits, Recorded, Disclosed, NoneAhead, DoneIsDone
<1>2. IInv /\ [Next]_vars => IInv'
  <2> SUFFICES ASSUME IInv, [Next]_vars  PROVE IInv'
    OBVIOUS
  <2>1. CASE UNCHANGED vars
    <3>1. TypeOK'
      BY <2>1 DEF IInv, TypeOK, vars, turn, tally, pool, react, facts
    <3>2. TurnInv'
      BY <2>1 DEF IInv, TurnInv, vars, turn, tally, pool, facts, PathsFit,
                  Tally, AttemptLeft, PoolFits, Recorded, Disclosed, NoneAhead, DoneIsDone
    <3> QED BY <3>1, <3>2 DEF IInv
  <2>2. CASE Recall \/ Explore \/ Assess
    BY <2>2, BeforeToolsKeeps
  <2>3. CASE Rounds
    <3>1. CASE Leave
      BY <3>1, BatchKeeps DEF IInv, TypeOK
    <3> QED BY <2>3, <3>1, StartRoundKeeps, RetryKeeps, AppendKeeps, DecideKeeps DEF Rounds
  <2>4. CASE Agent3
    BY <2>4, Agent3Keeps
  <2>5. CASE Intents
    BY <2>5, IntentsKeep
  <2>6. ASSUME NEW r \in Requests, Agent2(r)  PROVE IInv'
    BY <2>6, BatchKeeps, TryKeeps, TryFailsKeeps DEF Agent2
  <2>7. CASE Expire
    BY <2>7, ExpireKeeps
  <2>8. ASSUME NEW kind \in {"message", "proactive", "explore"}, Begin(kind)  PROVE IInv'
    BY <2>8, BeginKeeps
  <2> QED BY <2>1, <2>2, <2>3, <2>4, <2>5, <2>6, <2>7, <2>8 DEF Next, Step
<1> QED BY <1>1, <1>2, PTL DEF Spec

-----------------------------------------------------------------------------
(* The limits of _run_agent2, run_with_request and the loops are kept,     *)
(* whatever they are set to: in particular, a message has at most          *)
(* MaxRounds + MaxRetries batches.                                         *)
THEOREM LimitsKept == Spec => []TypeOK
<1>1. IInv => TypeOK
  BY DEF IInv
<1> QED BY <1>1, InvariantHolds, PTL

(* Agent 3 is told of each tool that succeeded, unless its request was     *)
(* given up, or that its records are cut: retries, rounds, exceptions and  *)
(* the deadline drop none, and a cut drops only what is later than the     *)
(* records it leaves.                                                      *)
THEOREM AllSuccessTold == Spec => []SuccessTold
<1>1. IInv => SuccessTold
  BY DEF IInv, TurnInv, Recorded, SuccessTold
<1> QED BY <1>1, InvariantHolds, PTL

LEMMA OnlyTryTries ==
  ASSUME IInv, Next, NEW r \in Requests, tries'[r] > tries[r]
  PROVE  Try(r)
<1>1. tries' # tries /\ tries' # [q \in Requests |-> 0]
  BY DEF IInv, TypeOK
<1>2. ~NoTools /\ \A rs \in SUBSET Requests : ~Launch(rs)
  BY <1>1 DEF NoTools, Launch
<1>3. ~Agent3Next /\ \A why \in {"none", "model", "memory"} : ~Ends(why)
  BY <1>2 DEF Agent3Next, Ends
<1>4. batch \in SUBSET Requests /\ {lead} \in SUBSET Requests
  BY DEF IInv, TypeOK
<1>5. ~Rounds
  BY <1>1, <1>2, <1>3, <1>4 DEF Rounds, StartRound, Leave, Retry, Append,
                                Decide, pool
<1>6. ~Agent3
  BY <1>1, <1>3 DEF Agent3, Express, Text, Returns, Proposes, Fake, InnerTools,
                    Falls, pool
<1>7. ~Intents
  BY <1>2, <1>3 DEF Intents, Refuse, Returns, IntentFails, Approve
<1>8. ~(Recall \/ Explore \/ Assess)
  BY <1>1, <1>3 DEF Recall, Explore, Assess, pool
<1>9. ~Expire /\ \A kind \in {"message", "proactive", "explore"} : ~Begin(kind)
  BY <1>1 DEF Expire, Begin, pool
<1>10. PICK q \in Requests : Agent2(q)
  BY <1>5, <1>6, <1>7, <1>8, <1>9 DEF Next, Step
<1>11. Try(q)
  BY <1>1, <1>3, <1>10 DEF Agent2, Take, TryFails, Collect, GiveUp
<1>12. q = r
  BY <1>11 DEF Try, IInv, TypeOK
<1> QED BY <1>11, <1>12

(* A request whose tools succeeded is not run again in its round, unless   *)
(* it was given up, whatever the batches and the retries are.              *)
THEOREM NothingRepeated == Spec => NotRepeated
<1>1. IInv /\ [Next]_vars =>
        [\A r \in Requests : tries'[r] > tries[r] /\ <<round, r>> \in ok =>
           <<round, r>> \in strays]_vars
  <2> SUFFICES ASSUME IInv, Next, NEW r \in Requests, tries'[r] > tries[r]
               PROVE  <<round, r>> \in ok => <<round, r>> \in strays
    BY DEF IInv, TypeOK
  <2>1. Try(r)
    BY OnlyTryTries
  <2> QED BY <2>1 DEF IInv, TurnInv, DoneIsDone, Try
<1> QED BY <1>1, InvariantHolds, PTL DEF Spec, NotRepeated

(* A message whose model calls fail is answered all the same, unless       *)
(* Agent 3 has proposed an action.                                         *)
THEOREM FailuresAnswered == Spec => []ModelFailuresAnswered
<1> DEFINE J == ModelFailuresAnswered /\ (pc # "idle" => cause = "none")
<1>1. Init => J
  BY DEF Init, ModelFailuresAnswered
<1>2. IInv /\ J /\ [Next]_vars => J'
  <2> SUFFICES ASSUME IInv, J, [Next]_vars  PROVE J'
    OBVIOUS
  <2>1. CASE UNCHANGED vars
    BY <2>1 DEF vars, turn, ModelFailuresAnswered
  <2>2. ASSUME Ends("none") \/ Ends("memory")  PROVE J'
    BY <2>2 DEF Ends, Goes, ModelFailuresAnswered
  <2>3. ASSUME Ends("model"), path' \in {"intent", "explore"}  PROVE J'
    BY <2>3 DEF Ends, Goes, ModelFailuresAnswered
  <2>4. ASSUME UNCHANGED cause, pc # "idle"  PROVE J'
    BY <2>4 DEF ModelFailuresAnswered
  <2>5. CASE Recall \/ Explore \/ Assess
    BY <2>2, <2>3, <2>4, <2>5 DEF IInv, TurnInv, PathsFit, Recall, Explore,
                                  Assess
  <2>6. CASE Rounds
    BY <2>4, <2>6 DEF Rounds, StartRound, Leave, Retry, Append, Decide
  <2>7. CASE Agent3
    BY <2>2, <2>4, <2>7 DEF Agent3, Express, Text, Returns, Proposes, Fake,
                            InnerTools, Falls
  <2>8. CASE Intents
    BY <2>2, <2>3, <2>4, <2>8 DEF Intents, Refuse, Returns, IntentFails, Approve
  <2>9. ASSUME NEW r \in Requests, Agent2(r)  PROVE J'
    BY <2>3, <2>4, <2>9 DEF Agent2, Take, Try, TryFails, Collect, GiveUp
  <2>10. CASE Expire
    BY <2>4, <2>10 DEF Expire
  <2>11. ASSUME NEW kind \in {"message", "proactive", "explore"}, Begin(kind)  PROVE J'
    BY <2>11 DEF Begin, ModelFailuresAnswered
  <2> QED BY <2>1, <2>5, <2>6, <2>7, <2>8, <2>9, <2>10, <2>11 DEF Next, Step
<1>3. J => ModelFailuresAnswered
  OBVIOUS
<1> QED BY <1>1, <1>2, <1>3, InvariantHolds, PTL DEF Spec
==============================================================================
