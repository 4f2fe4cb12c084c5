----------------------------- MODULE Embeddings -----------------------------
(***************************************************************************)
(* The engine that turns texts into vectors by asking the server, with a   *)
(* cache of what it has asked before. encode holds a lock while it asks,   *)
(* so a call is one step; the server may be down, or have come back with   *)
(* another model, whose vectors have another dimension.                    *)
(*                                                                         *)
(* Code: EmbeddingEngine, EmbeddingCache, verify_embedding_health          *)
(* (memory/embeddings.py). A vector is the text it stands for and its      *)
(* dimension; all vectors of the cache have the dimension of the engine.   *)
(***************************************************************************)
EXTENDS EmbeddingServer, Places, SequencesExt

CONSTANTS
  Texts, Blank,    \* texts, and one without a character
  Batches,         \* what encode is called with
  Dims,            \* dimensions of the models the server may be started with
  SelfTest,        \* the text of the self-check
  Stored,          \* dimension of the vectors in the database
  CacheMax

ASSUME EmbeddingAssumption ==
  /\ SelfTest \in Texts /\ Blank \notin Texts /\ CacheMax \in Nat \ {0}
  /\ \A batch \in Batches : batch \in Seq(Texts \cup {Blank})
  /\ Dims \subseteq Nat \ {0}

VARIABLES
  model,    \* dimension of the model that the server loads
  dim,      \* _dim
  cache,    \* texts of _cache, the least recently used first
  reply,    \* what the last encode was asked and gave
  trusted,  \* _health_ok_until lies ahead
  check     \* the self-check at the start

engineVars == <<dim, cache, reply, trusted, check>>
embedVars == <<serverVars, model, engineVars>>

Zero == "zero"
-----------------------------------------------------------------------------
Known(batch)  == SelectSeq(batch, LAMBDA t : Contains(cache, t))
ToSend(batch) == SelectSeq(batch, LAMBDA t : t # Blank /\ ~Contains(cache, t))

(* EmbeddingCache: what is used goes to the end, the front is dropped. *)
Use(c, text) ==
  LET all == Append(SelectSeq(c, LAMBDA t : t # text), text) IN
  IF Len(all) > CacheMax THEN Tail(all) ELSE all
Used(c, batch) == FoldLeft(Use, c, batch)

MixedFault(d) == dim
(* Of the answers from the cache, those that fit beside vectors of         *)
(* dimension d: all of them, or none after a change of the model. *)
CachedDim(d) == IF d = dim THEN dim ELSE 0

(* The vector of a text, given the dimension of what the server sends; the *)
(* places that have one, as np.stack puts them after one another. *)
Vector(t, d, sent) ==
  IF Contains(cache, t) THEN [of |-> t, dim |-> CachedDim(d)]
  ELSE [of |-> IF t # Blank /\ sent THEN t ELSE Zero, dim |-> d]
Found(batch, d) ==
  {i \in DOMAIN batch : Contains(cache, batch[i]) => CachedDim(d) # 0}
Stacked(batch, d, sent) ==
  Picked([i \in DOMAIN batch |-> Vector(batch[i], d, sent)], Found(batch, d))

Give(batch, got) ==
  reply' = [asked |-> batch, got |-> got, changed |-> dim' # dim]
Raised == <<>>

(* Everything is known or empty; or the server is asked for the rest, and  *)
(* sets the dimension; or it fails, and zeros stand for what is missing,   *)
(* as long as something is known. *)
Encode(batch) ==
  \/ /\ ToSend(batch) = <<>>
     /\ UNCHANGED dim
     /\ cache' = Used(cache, Known(batch))
     /\ Give(batch, Stacked(batch, dim, TRUE))
  \/ /\ ToSend(batch) # <<>> /\ llama = "ready"
     /\ dim' = model
     /\ cache' = Used(IF model = dim THEN Used(cache, Known(batch)) ELSE <<>>,
                      ToSend(batch))
     /\ Give(batch, Stacked(batch, model, TRUE))
  \/ /\ ToSend(batch) # <<>>
     /\ UNCHANGED dim
     /\ cache' = Used(cache, Known(batch))
     /\ Give(batch, IF Known(batch) = <<>> THEN Raised
                    ELSE Stacked(batch, dim, FALSE))

EncodeTexts ==
  /\ \E batch \in Batches : Encode(batch)
  /\ UNCHANGED <<serverVars, model, trusted, check>>

(* health_check: what it found stands for some seconds, if it was good. *)
Healthy == trusted \/ llama = "ready"
HealthCheck ==
  /\ trusted' = Healthy
  /\ UNCHANGED <<serverVars, model, dim, cache, reply, check>>

Forget ==
  /\ trusted /\ trusted' = FALSE
  /\ UNCHANGED <<serverVars, model, dim, cache, reply, check>>

(* verify_embedding_health: it waits for the server, asks for a vector and *)
(* compares it with one of the database. *)
SelfCheck ==
  /\ check = "waiting"
  /\ \/ /\ Healthy /\ trusted' = TRUE
        /\ Encode(<<SelfTest>>)
        /\ check' = IF reply'.got # Raised /\ dim' = Stored THEN "ok"
                    ELSE "failed"
     \/ /\ ~Healthy /\ check' = "failed"
        /\ UNCHANGED <<dim, cache, reply, trusted>>
  /\ UNCHANGED <<serverVars, model>>
-----------------------------------------------------------------------------
EmbedInit ==
  /\ ServerInit
  /\ model \in Dims /\ dim \in Dims /\ cache = <<>>
  /\ reply = [asked |-> <<>>, got |-> <<>>, changed |-> FALSE]
  /\ trusted = FALSE /\ check = "waiting"

(* A server that is started may have another model than the one before. *)
ServerStep ==
  /\ ServerNext
  /\ IF llama # "loading" /\ llama' = "loading" THEN model' \in Dims
     ELSE UNCHANGED model
  /\ UNCHANGED engineVars

EmbedNext == ServerStep \/ EncodeTexts \/ HealthCheck \/ Forget \/ SelfCheck
-----------------------------------------------------------------------------
(* Properties. *)

(* What encode gives can be stacked: all of its vectors have one           *)
(* dimension, whatever the cache holds from before a change of the model.  *)
(* And unless the model has changed, each text has its vector, or a zero,  *)
(* at its own place, also when the server fails in between (#323: the      *)
(* callers pick by index).                                                 *)
Fits ==
  /\ \A i, j \in DOMAIN reply.got : reply.got[i].dim = reply.got[j].dim
  /\ reply.got # Raised /\ ~reply.changed =>
       /\ Len(reply.got) = Len(reply.asked)
       /\ \A i \in DOMAIN reply.got :
            reply.got[i].of \in {reply.asked[i], Zero}
=============================================================================
