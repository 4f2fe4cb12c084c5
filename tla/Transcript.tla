----------------------------- MODULE Transcript -----------------------------
(***************************************************************************)
(* What the conversation log of one role promises its readers (the history *)
(* endpoint, history_search, the consolidation prompts): turns are only    *)
(* appended; each agent of the role writes one exchange at a time and      *)
(* numbers its turns by a counter that moves on only behind a turn that    *)
(* carries its value.                                                      *)
(*                                                                         *)
(* Conversation implements this specification on the Web host, where       *)
(* Agent.process_message holds _turn_lock for the whole exchange.          *)
(***************************************************************************)
EXTENDS Naturals, Sequences

CONSTANTS
  Turn,    \* records with an exchange, ex, a number, no, and an agent
  Agents   \* 1..n: agents of the role, in the order they are built

VARIABLES
  rows,      \* the conversation_turns rows of the role, oldest first
  agent,     \* the last agent built
  count,     \* the number each agent gives its next turn
  speaking   \* the exchange each agent is writing, 0 between exchanges

vars == <<rows, agent, count, speaking>>

(* Exchange e has written nothing yet, and nobody is writing it. *)
Fresh(e) ==
  /\ \A i \in 1..Len(rows) : rows[i].ex # e
  /\ \A k \in Agents : speaking[k] # e

(* The row that a step has written. *)
Newest == rows'[Len(rows')]

(* One more row, of exchange e and agent k, under its current number. *)
Appended(k, e) ==
  /\ Len(rows') = Len(rows) + 1
  /\ Newest \in Turn
  /\ rows' = Append(rows, Newest)
  /\ Newest.ex = e /\ Newest.agent = k /\ Newest.no = count[k]

Init ==
  /\ rows = << >>
  /\ agent = 1
  /\ count = [k \in Agents |-> 0]
  /\ speaking = [k \in Agents |-> 0]

Begin(k) ==
  /\ speaking[k] = 0
  /\ speaking'[k] \in Nat \ {0} /\ Fresh(speaking'[k])
  /\ speaking' = [speaking EXCEPT ![k] = speaking'[k]]
  /\ UNCHANGED <<rows, agent, count>>

Say(k) ==
  /\ speaking[k] # 0
  /\ Appended(k, speaking[k])
  /\ UNCHANGED <<agent, count, speaking>>

(* The counter moves only past a turn that the open exchange has just      *)
(* written under the current number: the agent has written none since.     *)
Advance(k) ==
  /\ speaking[k] # 0
  /\ \E i \in 1..Len(rows) :
       /\ rows[i].agent = k /\ rows[i].ex = speaking[k] /\ rows[i].no = count[k]
       /\ \A j \in 1..Len(rows) : j > i => rows[j].agent # k
  /\ count' = [count EXCEPT ![k] = @ + 1]
  /\ UNCHANGED <<rows, agent, speaking>>

End(k) ==
  /\ speaking[k] # 0
  /\ speaking' = [speaking EXCEPT ![k] = 0]
  /\ UNCHANGED <<rows, agent, count>>

(* A sleep or wake announcement: a one-turn exchange written in one step,  *)
(* whose number stays current when the write reports a failure.            *)
Announce(k) ==
  /\ speaking[k] = 0
  /\ Appended(k, Newest.ex) /\ Fresh(Newest.ex)
  /\ count' \in {count, [count EXCEPT ![k] = @ + 1]}
  /\ UNCHANGED <<agent, speaking>>

(* n is the largest number on disk, 0 when there is none. *)
Largest(n) ==
  /\ \A i \in 1..Len(rows) : rows[i].no <= n
  /\ IF rows = << >> THEN n = 0 ELSE \E i \in 1..Len(rows) : rows[i].no = n

(* The next agent goes on from the largest number on disk, or from 0 when  *)
(* it could not be read; the exchanges of the others go on in a process    *)
(* that lives, and end with one that does not.                             *)
Resume ==
  /\ agent + 1 \in Agents
  /\ agent' = agent + 1
  /\ count'[agent'] = 0 \/ Largest(count'[agent'])
  /\ count' = [count EXCEPT ![agent'] = count'[agent']]
  /\ speaking' \in {speaking, [k \in Agents |-> 0]}
  /\ UNCHANGED rows

Next ==
  \/ \E k \in 1..agent : Begin(k) \/ Say(k) \/ Advance(k) \/ End(k) \/ Announce(k)
  \/ Resume

Spec == Init /\ [][Next]_vars
-----------------------------------------------------------------------------
(* The rows an agent writes in one exchange are consecutive among its own: *)
(* none of another exchange stands between the user's words and the        *)
(* replies to them.                                                        *)
Contiguous(turns) ==
  \A i, j, k \in 1..Len(turns) :
    i < j /\ j < k /\ turns[i].ex = turns[k].ex
      => turns[j].ex = turns[i].ex \/ turns[j].agent # turns[i].agent
=============================================================================
