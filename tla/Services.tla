------------------------------ MODULE Services ------------------------------
(***************************************************************************)
(* The services under an exchange: the model provider, the embedding       *)
(* engine and its server, the batches of tools, the blocks of the prompt,  *)
(* the character's file, and the rate limit in front of it all. They share *)
(* no variable in the code; a behaviour is one of a single service, told   *)
(* apart by "service", while the others rest.                              *)
(***************************************************************************)
EXTENDS Provider, Embeddings, Dispatcher, PromptCache, Personality, RateLimit

VARIABLE service    \* whose behaviour this is

servicesVars == <<providerVars, embedVars, dispatchVars, cacheVars, personaVars,
                  rateVars, service>>

(* The others rest in one state each. *)
ServicesInit ==
  /\ service \in {"provider", "embedding", "tools", "prompt", "character",
                  "rate"}
  /\ ProviderInit /\ (service = "provider" \/ up)
  /\ EmbedInit
  /\ \/ service = "embedding"
     \/ llama = "none" /\ dim = model /\ dim = Stored
  /\ DispatchInit /\ CacheInit /\ RateInit
  /\ PersonaInit /\ (service = "character" \/ file = NoFile)

Asking ==
  /\ service = "provider" /\ ProviderNext
  /\ UNCHANGED <<embedVars, dispatchVars, cacheVars, personaVars, rateVars,
                 service>>
Embedding ==
  /\ service = "embedding" /\ EmbedNext
  /\ UNCHANGED <<providerVars, dispatchVars, cacheVars, personaVars, rateVars,
                 service>>
Dispatching ==
  /\ service = "tools" /\ DispatchNext
  /\ UNCHANGED <<providerVars, embedVars, cacheVars, personaVars, rateVars,
                 service>>
Prompting ==
  /\ service = "prompt" /\ CacheNext
  /\ UNCHANGED <<providerVars, embedVars, dispatchVars, personaVars, rateVars,
                 service>>
Remembering ==
  /\ service = "character" /\ PersonaNext
  /\ UNCHANGED <<providerVars, embedVars, dispatchVars, cacheVars, rateVars,
                 service>>
Limiting ==
  /\ service = "rate" /\ RateNext
  /\ UNCHANGED <<providerVars, embedVars, dispatchVars, cacheVars, personaVars,
                 service>>

ServicesNext ==
  Asking \/ Embedding \/ Dispatching \/ Prompting \/ Remembering \/ Limiting

(* Where the provider is in use, those that nobody stops call it again and *)
(* again, as the loop of the driver does. *)
AskAgain(t) == service = "provider" /\ Begin(t)

(* Each service is as fair as its module says; of those that rest nothing  *)
(* that is fair is enabled.                                                *)
ServicesSpec ==
  /\ ServicesInit /\ [][ServicesNext]_servicesVars
  /\ CallsEnd /\ ServerFairness /\ DispatchFairness
  /\ \A t \in Askers \ Interruptible : WF_providerVars(AskAgain(t))
-----------------------------------------------------------------------------
(* A provider that is down for a while is used again (ComesBack); where it *)
(* rests, nobody calls.                                                    *)
ProviderComesBack == service = "provider" => ComesBack
=============================================================================
