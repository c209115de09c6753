---------------------------- MODULE MCScheduler ----------------------------
(* Constant definitions for the TLC runs of Scheduler. *)
EXTENDS Scheduler, TLC

CONSTANTS r1, r2, b1, b2, b3, b4

MCRank == (r1 :> 1) @@ (r2 :> 2)
\* r1 arrives with the lowest priority: it can be evicted mid-step.
MCRankInverted == (r1 :> 2) @@ (r2 :> 1)

\* Recurrent layers in blocks of two tokens, hits to single tokens, and a prefix of
\* one token shared with another request.
MCSplit ==
  [block |-> 2, hash |-> 1, max_chunk |-> MaxScheduledTokens, drop |-> TRUE,
   partial |-> TRUE, shared |-> TRUE, junction |-> 1]

BlockSymmetry == Permutations(Blocks)
=============================================================================
