-------------------------- MODULE MCDurableQueues --------------------------
(* Two queues as CapacityService creates them: sandbox slots under a cap,  *)
(* LLM calls under a rate limit.                                           *)
EXTENDS DurableQueues

CONSTANTS sandbox, llm, Apps, Calls, Cap, Limit, Period

MCWork          == Apps \cup Calls
MCWorkOf        == (sandbox :> Apps) @@ (llm :> Calls)
MCConcurrency   == (sandbox :> Cap) @@ (llm :> None)
MCLimiterLimit  == (sandbox :> None) @@ (llm :> Limit)
MCLimiterPeriod == (sandbox :> 0) @@ (llm :> Period)

Symmetry == Permutations(Apps) \cup Permutations(Calls)
=============================================================================
