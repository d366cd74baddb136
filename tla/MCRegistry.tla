----------------------------- MODULE MCRegistry ------------------------------
(* Up to three channels of two providers, primary or standby, with weight  *)
(* or without, and one pick for one of the providers or for neither: picks *)
(* only read the registry, so a second one would show nothing more.        *)
EXTENDS Registry

CONSTANTS openai, claude, gpt, unknown

MCProviders == {openai, claude}
MCModels == {gpt, unknown}
MCProviderOf == [m \in MCModels |-> IF m = gpt THEN openai ELSE None]
MCPriorities == {0, 1}
MCWeights == {0, 1}
MCPicks == {1}
=============================================================================
