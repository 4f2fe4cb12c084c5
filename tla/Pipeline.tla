------------------------------ MODULE Pipeline ------------------------------
(***************************************************************************)
(* How a reply is made: Agent 1 (inner drive) judges, Agent 2 (tool agent) *)
(* runs tools in rounds, batches and retries, Agent 3 writes the reply and *)
(* may propose an action of its own. One agent's turns, one at a time.     *)
(*                                                                         *)
(* Code: MessageHandler (core/message_handler.py), ToolAgent               *)
(* (core/tool_agent.py), Agent._react_loop (core/agent.py) and             *)
(* InnerDriveAgent (core/inner_drive.py). What models say and tools do is  *)
(* chosen freely, within what each step makes of it.                       *)
(***************************************************************************)
EXTENDS Integers, FiniteSets

CONSTANTS
  Requests,      \* tool requests that Agent 1 may make in a round
  MaxRounds,     \* MAX_AGENT2_ROUNDS
  MaxRetries,    \* of ToolAttemptTracker, and of a single round
  MaxAttempts,   \* of ToolAttemptTracker
  MaxTries,      \* max_retries of run_with_request
  PoolSize,      \* threads of a batch
  MaxLoops,      \* max_loops of _handle_agent3_intent
  MaxIterations, \* max_tool_iterations, of _react_loop and ToolAgent.run
  MaxFakes,      \* max_fake_actions
  Threshold      \* degrade_threshold

ASSUME PipelineAssumption ==
  /\ IsFiniteSet(Requests)
  /\ MaxRounds \in Nat \ {0} /\ MaxRetries \in Nat /\ MaxAttempts \in Nat
  /\ MaxTries \in Nat \ {0} /\ PoolSize \in Nat \ {0} /\ MaxLoops \in Nat
  /\ MaxIterations \in Nat \ {0} /\ MaxFakes \in Nat /\ Threshold \in Nat \ {0}

VARIABLES
  pc,        \* where the turn stands
  path,      \* what kind of turn it is, or has become
  memory,    \* whether a memory summary is at hand
  round,     \* tracker.round_number; on the intent path, loop_count
  retries,   \* tracker.retry_count; on the intent path, retry_count
  attempts,  \* tracker.total_attempts
  deadline,  \* of agent2_total_timeout_seconds
  lead,      \* tool_requests[0]
  batch,     \* the requests being run
  awaited,   \* those whose future has not been collected
  lost,      \* those whose future was given up
  work,      \* where each request's run stands
  tries,     \* attempts of each run
  got,       \* what each run has come to
  iter,      \* of the loop in _react_loop or ToolAgent.run
  fakes,     \* fake_action_count
  fails,     \* _tool_failures
  cause,     \* the exception that ended the last turn
  ok,        \* the rounds and requests whose tools have succeeded
  told,      \* those that are in the records for Agent 3
  strays,    \* those that succeeded after their future was given up
  full       \* the records were cut at TOOL_RECORDS_MAX_LENGTH, which they say

turn  == <<pc, path, memory>>
tally == <<round, retries, attempts, deadline>>
pool  == <<lead, batch, awaited, lost, work, tries, got>>
react == <<iter, fakes, fails>>
facts == <<ok, told, strays, full>>
vars  == <<turn, tally, pool, react, cause, facts>>

Places == {"idle", "recall", "assess", "round", "batch", "judge", "decide", "explore",
           "express", "react", "intent"}
Paths  == {"message", "tools", "intent", "proactive", "explore"}
Pairs  == (0..(MaxRounds + MaxLoops)) \X Requests
Rank(a, b) == IF a < b THEN b ELSE a

TypeOK ==
  /\ pc \in Places /\ path \in Paths /\ memory \in {"none", "text"}
  /\ round \in 0..Rank(MaxRounds, MaxLoops) /\ retries \in 0..MaxRetries
  /\ attempts \in 0..(MaxRounds + MaxRetries)
  /\ deadline \in {"ahead", "passed"}
  /\ batch \subseteq Requests /\ awaited \subseteq batch /\ lost \subseteq batch
  /\ lead \in Requests
  /\ work \in [Requests -> {"none", "queued", "running", "ended"}]
  /\ tries \in [Requests -> 0..MaxTries]
  /\ got \in [Requests -> {"nothing", "failures", "success"}]
  /\ iter \in 0..MaxIterations /\ fakes \in 0..MaxFakes /\ fails \in 0..Threshold
  /\ cause \in {"none", "model", "memory"}
  /\ ok \subseteq Pairs /\ told \subseteq Pairs /\ strays \subseteq Pairs
  /\ full \in BOOLEAN
-----------------------------------------------------------------------------
Goes(p) == pc' = p

(* What is local to _run_agent2 is gone when it returns. *)
NoTools ==
  /\ retries' = 0 /\ attempts' = 0 /\ deadline' = "ahead"
  /\ batch' = {} /\ awaited' = {} /\ lost' = {}
  /\ work' = [r \in Requests |-> "none"] /\ tries' = [r \in Requests |-> 0]
  /\ got' = [r \in Requests |-> "nothing"]
  /\ UNCHANGED lead

(* A turn ends, and with it everything but the failures that _react_loop   *)
(* has counted. *)
Ends(why) ==
  /\ Goes("idle") /\ cause' = why
  /\ memory' = "none" /\ round' = 0 /\ NoTools
  /\ iter' = 0 /\ fakes' = 0
  /\ ok' = {} /\ told' = {} /\ strays' = {} /\ full' = FALSE
  /\ UNCHANGED fails

(* The records are complete, Agent 3's turn. *)
Agent3Next ==
  /\ Goes("express")
  /\ round' = IF path = "tools" THEN 0 ELSE round
  /\ NoTools

Begin(kind) ==
  /\ pc = "idle" /\ Goes("recall")
  /\ path' = kind /\ cause' = "none"
  /\ UNCHANGED <<memory, tally, pool, react, facts>>

(* The memory is read once for the whole turn. A message goes on without   *)
(* it; a turn of the driver does not. *)
Recall ==
  /\ pc = "recall"
  /\ \/ /\ \/ path = "message" /\ Goes("assess") /\ memory' \in {"none", "text"}
           \/ path = "proactive" /\ Goes("express") /\ memory' = "text"
           \/ path = "explore" /\ Goes("explore") /\ memory' = "text"
        /\ UNCHANGED <<tally, pool, react, cause, facts>>
     \/ path # "message" /\ Ends("memory")
  /\ UNCHANGED path

(* ToolAgent.run, for an exploration: tools until the model has enough. *)
Explore ==
  /\ pc = "explore"
  /\ \/ /\ \/ iter < MaxIterations /\ iter' = iter + 1 /\ UNCHANGED pc
           \/ Goes("express") /\ UNCHANGED iter
        /\ UNCHANGED <<memory, tally, pool, fakes, fails, cause, facts>>
     \/ Ends("model")
  /\ UNCHANGED path

(* What Agent 1 asks of the tools. A request without a text stands for the *)
(* user's input. *)
Asks(rs) == batch' = rs /\ lead' \in rs

(* A fault: the exception of a failing assessment is not caught. *)
EscapeFault ==
  /\ pc = "assess"
  /\ Ends("model") /\ UNCHANGED path

(* InnerDriveAgent.assess: tools, or none, as also after any failure. What *)
(* is cared about may come up and stand in for a summary. *)
Assess ==
  /\ pc = "assess"
  /\ memory' \in {memory, "text"}
  /\ \/ Goes("express") /\ UNCHANGED <<path, pool>>
     \/ /\ \E rs \in (SUBSET Requests) \ {{}} : Asks(rs)
        /\ Goes("round") /\ path' = "tools"
        /\ UNCHANGED <<awaited, lost, work, tries, got>>
  /\ UNCHANGED <<tally, react, cause, facts>>
-----------------------------------------------------------------------------
(* The tools are set to work: in this thread for one request, in a pool of *)
(* threads for several. *)
Launch(rs) ==
  /\ Goes("batch")
  /\ batch' = rs /\ awaited' = rs /\ lost' = {}
  /\ work' = [r \in Requests |-> IF r \notin rs THEN "none"
                                 ELSE IF rs = {r} THEN "running" ELSE "queued"]
  /\ tries' = [r \in Requests |-> 0] /\ got' = [r \in Requests |-> "nothing"]

(* A round of _run_agent2, unless it is late. *)
StartRound ==
  /\ pc = "round"
  /\ \/ deadline = "passed" /\ Agent3Next
     \/ /\ deadline = "ahead" /\ round < MaxRounds
        /\ round' = round + 1 /\ attempts' = attempts + 1
        /\ Launch(batch)
        /\ UNCHANGED <<retries, deadline, lead>>
  /\ UNCHANGED <<path, memory, react, cause, facts>>

Expire ==
  /\ path = "tools" /\ pc \in {"round", "batch", "judge", "decide"}
  /\ deadline = "ahead" /\ deadline' = "passed"
  /\ UNCHANGED <<turn, round, retries, attempts, pool, react, cause, facts>>

Inline == batch = {lead}

(* Queue and collection keep the order of the requests, of which the model *)
(* knows the first. *)
InOrder(r, rs) == lead \in rs => r = lead

Take(r) ==
  /\ pc = "batch" /\ work[r] = "queued"
  /\ InOrder(r, {q \in Requests : work[q] = "queued"})
  /\ Cardinality({q \in Requests : work[q] = "running"}) < PoolSize
  /\ work' = [work EXCEPT ![r] = "running"]
  /\ UNCHANGED <<turn, tally, lead, batch, awaited, lost, tries, got, react, cause,
                 facts>>

(* An attempt of run_with_request: the model is asked for calls, and the   *)
(* calls are run. It is the last one if a tool succeeds, if the failure is *)
(* not worth a retry, or if there were enough. *)
Stops(r) == work' = [work EXCEPT ![r] = "ended"]
Finds(r, what) == got' = [got EXCEPT ![r] = what]

Try(r) ==
  /\ pc = "batch" /\ work[r] = "running"
  /\ tries' = [tries EXCEPT ![r] = @ + 1]
  /\ \/ /\ Finds(r, "success") /\ Stops(r)
        /\ ok' = ok \cup {<<round, r>>}
        /\ strays' = IF r \in lost THEN strays \cup {<<round, r>>} ELSE strays
     \/ Finds(r, "failures") /\ Stops(r) /\ UNCHANGED <<ok, strays>>
     \/ /\ Finds(r, "failures") \/ UNCHANGED got
        /\ IF tries[r] + 1 < MaxTries THEN UNCHANGED work ELSE Stops(r)
        /\ UNCHANGED <<ok, strays>>
  /\ UNCHANGED <<turn, tally, lead, batch, awaited, lost, react, cause, told, full>>

(* The model call fails: in the pool the request has come to nothing, in   *)
(* this thread the exception ends the tools, or, on an intent, the turn. *)
TryFails(r) ==
  /\ pc = "batch" /\ work[r] = "running"
  /\ \/ /\ ~Inline /\ Stops(r) /\ Finds(r, "nothing")
        /\ UNCHANGED <<turn, tally, lead, batch, awaited, lost, tries, react, cause, facts>>
     \/ /\ Inline /\ path = "tools" /\ Agent3Next
        /\ UNCHANGED <<path, memory, react, cause, facts>>
     \/ Inline /\ path = "intent" /\ Ends("model") /\ UNCHANGED path

(* The futures are collected; one that takes too long is given up, and if  *)
(* it was still queued it never runs. *)
Collect(r) ==
  /\ pc = "batch" /\ r \in awaited /\ InOrder(r, awaited) /\ work[r] = "ended"
  /\ awaited' = awaited \ {r}
  /\ UNCHANGED <<turn, tally, lead, batch, lost, work, tries, got, react, cause, facts>>

GiveUp(r) ==
  /\ pc = "batch" /\ r \in awaited /\ InOrder(r, awaited)
  /\ work[r] # "ended" /\ ~Inline
  /\ awaited' = awaited \ {r} /\ lost' = lost \cup {r}
  /\ work' = [work EXCEPT ![r] = IF @ = "queued" THEN "ended" ELSE @]
  /\ UNCHANGED <<turn, tally, lead, batch, tries, got, react, cause, facts>>

(* The pool is left when all its threads have ended, given up or not. *)
Leave ==
  /\ pc = "batch" /\ awaited = {} /\ \A r \in batch : work[r] = "ended"
  /\ Goes("judge")
  /\ tries' = [r \in Requests |-> 0]
  /\ UNCHANGED <<path, memory, tally, lead, batch, awaited, lost, work, got, react, cause, facts>>
-----------------------------------------------------------------------------
Succeeded == {r \in batch \ lost : got[r] = "success"}

Retries == Succeeded = {} /\ retries < MaxRetries /\ (path = "tools" => deadline = "ahead")

(* A fault: a retry is not counted. *)
EndlessFault ==
  /\ pc = "judge" /\ Retries
  /\ attempts' = attempts
  /\ Launch({lead})
  /\ UNCHANGED <<path, memory, round, retries, deadline, lead, react, cause, facts>>

(* A fault: a batch is retried although only some of its requests failed. *)
PartialRetryFault ==
  /\ pc = "judge" /\ Succeeded # batch /\ retries < MaxRetries
  /\ (path = "tools" => deadline = "ahead")
  /\ retries' = retries + 1
  /\ attempts' = IF path = "tools" THEN attempts + 1 ELSE attempts
  /\ Launch({lead})
  /\ UNCHANGED <<path, memory, round, deadline, lead, react, cause, facts>>

(* Nothing succeeded: the first request is tried once more. The retries    *)
(* are counted over all rounds. *)
Retry ==
  /\ pc = "judge" /\ Retries
  /\ retries' = retries + 1
  /\ attempts' = IF path = "tools" THEN attempts + 1 ELSE attempts
  /\ Launch({lead})
  /\ UNCHANGED <<path, memory, round, deadline, lead, react, cause, facts>>

(* The records as Agent 3 reads them: those of earlier rounds come first,  *)
(* the first request's first among a round's, and everything behind the    *)
(* cut is out, what a later round adds included.                           *)
Readable(seen, cut) ==
  /\ full => seen = {} /\ cut
  /\ seen # Succeeded => cut
  /\ seen # {} /\ lead \in Succeeded => lead \in seen

(* A fault: only the last round's records are kept. *)
LastOnlyFault ==
  /\ pc = "judge" /\ ~Retries
  /\ \E seen \in SUBSET Succeeded, cut \in BOOLEAN :
       Readable(seen, cut) /\ told' = {round} \X seen /\ full' = cut
  /\ \/ path = "tools" /\ Goes("decide") /\ UNCHANGED <<tally, pool>>
     \/ path = "intent" /\ Agent3Next
  /\ UNCHANGED <<path, memory, react, cause, ok, strays>>

(* The results go to the records that Agent 3 reads, which end where they  *)
(* have grown too long. A result may have 2000 of the 3000 characters, so  *)
(* any round may be the one that is cut.                                   *)
Append ==
  /\ pc = "judge" /\ ~Retries
  /\ \E seen \in SUBSET Succeeded, cut \in BOOLEAN :
       Readable(seen, cut) /\ told' = told \cup ({round} \X seen) /\ full' = cut
  /\ \/ path = "tools" /\ Goes("decide") /\ UNCHANGED <<tally, pool>>
     \/ path = "intent" /\ Agent3Next
  /\ UNCHANGED <<path, memory, react, cause, ok, strays>>

(* review or re_decide: another round, or none; none also if it fails. *)
Decide ==
  /\ pc = "decide"
  /\ \/ /\ round < MaxRounds /\ (Succeeded # {} \/ attempts < MaxAttempts)
        /\ \E rs \in (SUBSET Requests) \ {{}} : Asks(rs)
        /\ Goes("round")
        /\ lost' = {} /\ work' = [r \in Requests |-> "none"]
        /\ got' = [r \in Requests |-> "nothing"]
        /\ UNCHANGED <<tally, awaited, tries>>
     \/ Agent3Next
  /\ UNCHANGED <<path, memory, react, cause, facts>>
-----------------------------------------------------------------------------
(* _run_agent3: without a summary the memory is read again, unguarded. *)
Express ==
  /\ pc = "express"
  /\ \/ /\ Goes("react")
        /\ iter' = 0 /\ fakes' = 0 /\ fails' = 0
        /\ UNCHANGED <<memory, tally, pool, cause, facts>>
     \/ /\ memory = "none" \/ path = "intent"
        /\ Ends("memory")
  /\ UNCHANGED path

(* The reply is stored and returned, unless it proposes an action. *)
Returns == Ends("none") /\ UNCHANGED path

Proposes ==
  /\ path \in {"message", "intent"} /\ Goes("intent")
  /\ iter' = 0 /\ fakes' = 0
  /\ UNCHANGED <<path, memory, tally, pool, fails, cause, facts>>

Text == pc = "react" /\ iter < MaxIterations /\ (Returns \/ Proposes)

(* The text only says that it did something. *)
Fake ==
  /\ pc = "react" /\ iter < MaxIterations
  /\ fakes < MaxFakes /\ fakes = iter
  /\ iter' = iter + 1 /\ fakes' = fakes + 1
  /\ UNCHANGED <<turn, tally, pool, fails, cause, facts>>

(* Internal tools run; if all of them failed too often in a row, a         *)
(* fallback text is the reply. *)
InnerTools ==
  /\ pc = "react" /\ iter < MaxIterations
  /\ iter' = iter + 1
  /\ fails' = 0 \/ (fails + 1 < Threshold /\ fails' = fails + 1)
  /\ UNCHANGED <<turn, tally, pool, fakes, cause, facts>>

(* It is also the reply if a call fails, and when there were enough; if    *)
(* Esc stops the first answer while it streams, there is none. *)
Falls == pc = "react" /\ Returns
-----------------------------------------------------------------------------
(* _handle_agent3_intent: Agent 1 is asked about what Agent 3 proposes. It *)
(* says no, or it fails, or the tools run for a round. *)
Refuse == pc = "intent" /\ Returns

IntentFails ==
  /\ pc = "intent" /\ round < MaxLoops
  /\ path' = "intent" /\ \E why \in {"model", "memory"} : Ends(why)

Approve ==
  /\ pc = "intent" /\ round < MaxLoops
  /\ path' = "intent" /\ round' = round + 1 /\ retries' = 0
  /\ \E rs \in (SUBSET Requests) \ {{}} : lead' \in rs /\ Launch(rs)
  /\ ok' = {} /\ told' = {} /\ strays' = {} /\ full' = FALSE
  /\ UNCHANGED <<memory, attempts, deadline, react, cause>>

Init ==
  /\ pc = "idle" /\ path = "message" /\ memory = "none"
  /\ round = 0 /\ retries = 0 /\ attempts = 0 /\ deadline = "ahead"
  /\ lead \in Requests /\ batch = {} /\ awaited = {} /\ lost = {}
  /\ work = [r \in Requests |-> "none"] /\ tries = [r \in Requests |-> 0]
  /\ got = [r \in Requests |-> "nothing"]
  /\ iter = 0 /\ fakes = 0 /\ fails = 0
  /\ cause = "none"
  /\ ok = {} /\ told = {} /\ strays = {} /\ full = FALSE

Agent2(r) == Take(r) \/ Try(r) \/ TryFails(r) \/ Collect(r) \/ GiveUp(r)
Rounds    == StartRound \/ Leave \/ Retry \/ Append \/ Decide
Agent3    == Express \/ Text \/ Fake \/ InnerTools \/ Falls
Intents   == Refuse \/ IntentFails \/ Approve

(* The steps of a turn that has begun. *)
Step == Recall \/ Explore \/ Assess \/ Rounds \/ Agent3 \/ Intents
        \/ \E r \in Requests : Agent2(r)

Next == Step \/ Expire \/ \E kind \in {"message", "proactive", "explore"} : Begin(kind)

Spec == Init /\ [][Next]_vars

(* Every call of a turn ends: the model's, the tools' and the database's   *)
(* by their timeouts. *)
FairSpec == Spec /\ WF_vars(Step)
-----------------------------------------------------------------------------
(* What has been done is not done again: a request whose tools succeeded   *)
(* is not run again in its round, unless the batch gave it up while it was *)
(* at it. Sending, writing and playing are no reads. *)
NotRepeated ==
  [][\A r \in Requests : tries'[r] > tries[r] /\ <<round, r>> \in ok =>
       <<round, r>> \in strays]_vars

(* A success that Agent 3 reads of, or whose request the batch gave up; or *)
(* the records were cut, and say so, and it is later than all they have.   *)
Disclosed(p) ==
  \/ p \in told \cup strays
  \/ full /\ \A shown \in told : shown[1] <= p[1]

(* Agent 3 is told of every tool that succeeded, in whatever round, retry  *)
(* or thread, or that there is more than it can read: it must not deny     *)
(* what was done.                                                          *)
SuccessTold == pc \in {"express", "react"} => \A p \in ok : Disclosed(p)

(* The comments on #146 and on the total timeout: a message is answered    *)
(* though model calls fail. So it is, until Agent 3 proposes an action.    *)
ModelFailuresAnswered == cause = "model" => path \in {"intent", "explore"}

(* Whatever models and tools do, a turn comes to its end. *)
Answered == (pc # "idle") ~> (pc = "idle")
==============================================================================
