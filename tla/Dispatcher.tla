----------------------------- MODULE Dispatcher -----------------------------
(***************************************************************************)
(* One answer of a model that names tools, from the parsing of its calls   *)
(* to the list of results. The calls run in a pool of at most Pool         *)
(* threads, each tool in one more thread that is given up after its time   *)
(* and that may go on, or hang, for as long as the tool likes.             *)
(*                                                                         *)
(* Code: core/dispatcher.py. An answer is what the three tiers of the      *)
(* parser see in it; what a tool does is a choice.                         *)
(***************************************************************************)
EXTENDS Naturals, Sequences, SequencesExt, FiniteSets

CONSTANTS
  Answers,   \* what the model may answer
  Pool       \* min(len(calls), 8) with the 8 of the code made smaller

ASSUME PoolAssumption == Pool \in Nat \ {0}

VARIABLES
  batch,     \* the calls, in order; <<>>: none in hand
  results,   \* of each call: "none" or how it was reported
  thread,    \* of each call: its tool thread
  done       \* the batch has been handed back

dispatchVars == <<batch, results, thread, done>>

(* What a call comes to before its tool is started: the name, the          *)
(* registry, the permission, the arguments. *)
Kinds == {"nameless", "unknown", "forbidden", "unreadable", "invalid", "fine"}
Named(calls) == SelectSeq(calls, LAMBDA c : c # "nameless")

(* parse_tool_calls: an object with a list of calls, or else the tags of   *)
(* the text that hold a name, or else the text as one object. *)
Calls(answer) ==
  IF Named(answer.list) # <<>> THEN Named(answer.list)
  ELSE IF Named(answer.tags) # <<>> THEN Named(answer.tags)
  ELSE Named(answer.object)

Refusal(kind) ==
  CASE kind = "unknown"    -> "not_found"
    [] kind = "forbidden"  -> "permission_denied"
    [] kind = "unreadable" -> "internal"
    [] kind = "invalid"    -> "param_error"
Reports == {"none", "success", "failure", "not_found", "permission_denied",
            "internal", "param_error", "network_error"}
Awaited(i) == thread[i] \in {"running", "hanging"} /\ results[i] = "none"
Busy == {i \in DOMAIN batch : Awaited(i)}
-----------------------------------------------------------------------------
Submit ==
  /\ batch = <<>>
  /\ \E answer \in Answers :
       /\ Calls(answer) # <<>>
       /\ batch' = Calls(answer)
  /\ results' = [i \in DOMAIN batch' |-> "none"]
  /\ thread' = [i \in DOMAIN batch' |-> "none"]
  /\ done' = FALSE

(* _execute_single, until the tool is started. The pool takes calls in     *)
(* order. *)
Execute(i) ==
  /\ i \in DOMAIN batch /\ results[i] = "none" /\ thread[i] = "none"
  /\ \A j \in 1..(i - 1) : results[j] # "none" \/ thread[j] # "none"
  /\ Cardinality(Busy) < Pool
  /\ IF batch[i] = "fine"
     THEN /\ thread' = [thread EXCEPT ![i] = "running"]
          /\ UNCHANGED results
     ELSE /\ results' = [results EXCEPT ![i] = Refusal(batch[i])]
          /\ UNCHANGED thread
  /\ UNCHANGED <<batch, done>>

(* The tool returns, or raises, which is a failure of its own kind; after  *)
(* its time nobody listens. *)
Return(i) ==
  /\ i \in DOMAIN batch /\ thread[i] = "running"
  /\ thread' = [thread EXCEPT ![i] = "over"]
  /\ IF results[i] = "none"
     THEN \E r \in {"success", "failure", "internal"} :
            results' = [results EXCEPT ![i] = r]
     ELSE UNCHANGED results
  /\ UNCHANGED <<batch, done>>

Hang(i) ==
  /\ i \in DOMAIN batch /\ thread[i] = "running"
  /\ thread' = [thread EXCEPT ![i] = "hanging"]
  /\ UNCHANGED <<batch, results, done>>

WithBlockFault(i) ==
  /\ i \in DOMAIN batch /\ thread[i] = "over" /\ results[i] = "none"
  /\ results' = [results EXCEPT ![i] = "network_error"]
  /\ UNCHANGED <<batch, thread, done>>
(* The time of the tool is over: its executor is left without waiting. *)
TimeOut(i) ==
  /\ i \in Busy
  /\ results' = [results EXCEPT ![i] = "network_error"]
  /\ UNCHANGED <<batch, thread, done>>

(* All the futures have a result, in the order of the calls. *)
Collect ==
  /\ batch # <<>> /\ ~done
  /\ \A i \in DOMAIN batch : results[i] # "none"
  /\ done' = TRUE
  /\ UNCHANGED <<batch, results, thread>>

NextAnswer ==
  /\ done /\ done' = FALSE
  /\ batch' = <<>> /\ results' = <<>> /\ thread' = <<>>
-----------------------------------------------------------------------------
DispatchInit == batch = <<>> /\ results = <<>> /\ thread = <<>> /\ done = FALSE

DispatchNext ==
  \/ Submit \/ Collect \/ NextAnswer
  \/ \E i \in DOMAIN batch : Execute(i) \/ Return(i) \/ Hang(i) \/ TimeOut(i)

(* Threads that can go on do, and time passes; a tool need never return. *)
DispatchFairness ==
  /\ WF_dispatchVars(Collect)
  /\ WF_dispatchVars(\E i \in DOMAIN batch : Execute(i))
  /\ WF_dispatchVars(\E i \in DOMAIN batch : TimeOut(i))
-----------------------------------------------------------------------------
(* Properties. *)

(* Every batch is handed back, in its calls and their order, although      *)
(* tools hang for ever and hold more threads than the pool has (#307).     *)
BatchEnds == (batch # <<>>) ~> done
=============================================================================
