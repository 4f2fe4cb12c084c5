------------------------------ MODULE Provider ------------------------------
(***************************************************************************)
(* The model behind every agent: one provider per session, called from the *)
(* threads of the user's message, of the driver and of the background      *)
(* jobs, with attempts, pauses between them, and a breaker that all the    *)
(* callers share.                                                          *)
(*                                                                         *)
(* Code: DeepSeekProvider.generate and _do_request (core/provider.py). The *)
(* HTTP exchange is a choice of its outcomes; the sixty seconds of an open *)
(* breaker end at a step of their own. The tokens of a stream are left     *)
(* out.                                                                    *)
(***************************************************************************)
EXTENDS Naturals

CONSTANTS
  Askers,         \* threads that call the model
  Interruptible,  \* those the user can stop with Esc
  Attempts,       \* 3
  Trips           \* complete failures in a row that open the breaker: 3

ASSUME ProviderAssumption ==
  /\ Interruptible \subseteq Askers
  /\ Attempts \in Nat \ {0} /\ Trips \in Nat \ {0}

VARIABLES
  up,        \* the service answers each request, in time and in full
  ask,       \* the call of each thread
  failures,  \* _circuit_failures, counted up to Trips
  open       \* _circuit_open_until lies ahead

providerVars == <<up, ask, failures, open>>

Outcomes == {"none", "answered", "failed", "refused", "raised"}
Ask == [at : {"idle", "trying", "waiting"}, attempt : 0..Attempts,
        last : Outcomes]

ProviderTypeOK ==
  /\ up \in BOOLEAN /\ open \in BOOLEAN
  /\ ask \in [Askers -> Ask] /\ failures \in 0..Trips
-----------------------------------------------------------------------------
End(t, outcome) ==
  ask' = [ask EXCEPT ![t] = [at |-> "idle", attempt |-> 0, last |-> outcome]]

LastingFault == failures = Trips
(* The breaker is looked at once, before the first attempt. *)
Blocked == open

Begin(t) ==
  /\ ask[t].at = "idle"
  /\ IF Blocked THEN End(t, "refused")
     ELSE ask' = [ask EXCEPT ![t] = [at |-> "trying", attempt |-> 1,
                                     last |-> "none"]]
  /\ UNCHANGED <<up, failures, open>>

(* An answer: it may come while the service is down for others, and a text *)
(* that was cut off is taken as it is. *)
Succeed(t) ==
  /\ ask[t].at = "trying"
  /\ End(t, "answered")
  /\ failures' = 0 /\ open' = FALSE
  /\ UNCHANGED up

(* No connection, a broken stream, a server error, Retry-After, or JSON    *)
(* that was cut off: a pause, after the last attempt too. *)
Stumble(t) ==
  /\ ask[t].at = "trying" /\ ~up
  /\ ask' = [ask EXCEPT ![t].at = "waiting"]
  /\ UNCHANGED <<up, failures, open>>

Resume(t) ==
  /\ ask[t].at = "waiting" /\ ask[t].attempt < Attempts
  /\ ask' = [ask EXCEPT ![t].at = "trying", ![t].attempt = @ + 1]
  /\ UNCHANGED <<up, failures, open>>

GiveUpAsking(t) ==
  /\ ask[t].at = "waiting" /\ ask[t].attempt = Attempts
  /\ failures' = IF failures < Trips THEN failures + 1 ELSE Trips
  /\ open' = (failures' = Trips)
  /\ End(t, "failed")
  /\ UNCHANGED up

(* An error that is not tried again, or the user's Esc: nothing counts. *)
Raise(t) ==
  /\ ask[t].at = "trying" /\ (t \in Interruptible \/ ~up)
  /\ End(t, "raised")
  /\ UNCHANGED <<up, failures, open>>

Lapse == open /\ open' = FALSE /\ UNCHANGED <<up, ask, failures>>

Weather == up' = ~up /\ UNCHANGED <<ask, failures, open>>
-----------------------------------------------------------------------------
ProviderInit ==
  /\ up \in BOOLEAN /\ failures = 0 /\ open = FALSE
  /\ ask = [t \in Askers |-> [at |-> "idle", attempt |-> 0, last |-> "none"]]

Progress(t) ==
  Succeed(t) \/ Stumble(t) \/ Resume(t) \/ GiveUpAsking(t) \/ Raise(t)

ProviderNext ==
  \/ \E t \in Askers :
       \/ Begin(t) \/ Succeed(t) \/ Stumble(t) \/ Resume(t)
       \/ GiveUpAsking(t) \/ Raise(t)
  \/ Lapse \/ Weather

(* Time passes, and a call goes on by itself. *)
CallsEnd ==
  /\ WF_providerVars(Lapse)
  /\ \A t \in Askers : WF_providerVars(Progress(t))

-----------------------------------------------------------------------------
(* Properties. *)

(* A service that is back for good is used again: whatever its callers     *)
(* have counted meanwhile, and whoever tried it first, those that keep     *)
(* calling are answered again and again (the breaker of generate).         *)
ComesBack ==
  <>[]up => \A t \in Askers \ Interruptible : []<>(ask[t].last = "answered")
=============================================================================
