----------------------------- MODULE RateLimit -----------------------------
(***************************************************************************)
(* The sliding window of the Web host: when each client and path was let   *)
(* in, shared by the REST middleware and the WebSocket endpoint. Both run  *)
(* on one event loop and is_allowed awaits nothing, so a request is one    *)
(* step.                                                                   *)
(*                                                                         *)
(* Code: RateLimiter (web/rate_limit.py), its callers in web/server.py.    *)
(* The clock only goes on.                                                 *)
(***************************************************************************)
EXTENDS Naturals, Sequences, FiniteSetsExt

CONSTANTS
  Clients,      \* pairs of an address and a path with a limit
  MaxRequests,
  Window,       \* window_seconds
  ClockMax      \* bound on the clock

ASSUME RateAssumption == MaxRequests \in Nat \ {0} /\ Window \in Nat

VARIABLES
  windows,   \* _windows: what has an entry, and the times in it
  clock,
  letIn      \* history: every time each client was let in

rateVars == <<windows, clock, letIn>>
-----------------------------------------------------------------------------
Times(c) == IF c \in DOMAIN windows THEN windows[c] ELSE <<>>

(* What is older than the window leaves at the front, as many as there are *)
(* before the first that is not. *)
Evicted(w) == Min({n \in 0..Len(w) : n < Len(w) => w[n + 1] + Window >= clock})
Recent(w)  == SubSeq(w, Evicted(w) + 1, Len(w))

With(c, w) == [d \in DOMAIN windows \cup {c} |-> IF d = c THEN w ELSE windows[d]]
Without(c) == [d \in DOMAIN windows \ {c} |-> windows[d]]

OrphanFault(c) ==
  LET w == Recent(Times(c)) IN
  /\ Len(w) < MaxRequests
  /\ windows' = IF w = <<>> THEN Without(c)
                ELSE With(c, Append(w, clock))
  /\ letIn' = [letIn EXCEPT ![c] = Append(@, clock)]
  /\ UNCHANGED clock
(* An entry that has run empty goes, and comes back with this request. *)
LetIn(c) ==
  LET w == Recent(Times(c)) IN
  /\ Len(w) < MaxRequests
  /\ windows' = With(c, Append(w, clock))
  /\ letIn' = [letIn EXCEPT ![c] = Append(@, clock)]
  /\ UNCHANGED clock

TurnAway(c) ==
  LET w == Recent(Times(c)) IN
  /\ Len(w) >= MaxRequests
  /\ windows' = With(c, w)
  /\ UNCHANGED <<clock, letIn>>

TickRate ==
  /\ clock < ClockMax /\ clock' = clock + 1
  /\ UNCHANGED <<windows, letIn>>
-----------------------------------------------------------------------------
RateInit ==
  /\ windows = [c \in {} |-> <<>>] /\ clock = 0
  /\ letIn = [c \in Clients |-> <<>>]

RateNext == TickRate \/ \E c \in Clients : LetIn(c) \/ TurnAway(c)
-----------------------------------------------------------------------------
(* Properties. *)

(* Wherever a window is laid, both its ends included, no client was let in *)
(* more than MaxRequests times in it (is_allowed, with the entry that #331 *)
(* takes out and puts back).                                               *)
WindowKept ==
  \A c \in Clients : \A i \in 1..(Len(letIn[c]) - MaxRequests) :
    letIn[c][i + MaxRequests] - letIn[c][i] > Window
=============================================================================
