---------------------------- MODULE PrefillSplit ----------------------------
(***************************************************************************)
(* Where a prefill chunk ends: _mamba_block_aligned_split() and            *)
(* _reserve_prefill_lookahead() of overlays/v1/core/sched/scheduler.py.    *)
(* A layer with a recurrent state writes it at the end of a chunk, into    *)
(* the slot of the block the chunk ends in, so a state can be cached only  *)
(* if some chunk ends exactly where its block does.                        *)
(*                                                                         *)
(* The split is configured by a record c:                                  *)
(*   block      cache_config.block_size                                    *)
(*   hash       hash_block_size                                            *)
(*   max_chunk  the longest prefill chunk a step may have                  *)
(*   drop       use_eagle_block_drop                                       *)
(*   partial    mamba_partial_cache_hit                                    *)
(*   shared     mamba_shared_prefix_checkpoint                             *)
(*   junction   the shared_prefix_boundary its lookup left in a request    *)
(* and a request by prompt = num_prompt_tokens and tokens = num_tokens.    *)
(*                                                                         *)
(* Left out: groups with prefill checkpoint blocks, whose states are saved *)
(* inside a chunk.                                                         *)
(***************************************************************************)
EXTENDS Integers

SplitConfigs ==
  [block : Nat \ {0}, hash : Nat \ {0}, max_chunk : Nat, drop : BOOLEAN,
   partial : BOOLEAN, shared : BOOLEAN, junction : Nat]

Lesser(a, b) == IF a <= b THEN a ELSE b

Positive(n) == IF n > 0 THEN n ELSE 0

\* The last multiple of size up to n.
Floor(n, size) == n - (n % size)

\* Prefill is what must be computed before the next token can be sampled; a resumed
\* request replays the tokens it had sampled as well.
PrefillEnd(q) == IF q.prompt > q.tokens - 1 THEN q.prompt ELSE q.tokens - 1

\* The last position whose state can be cached.
LastCachePosition(c, q) ==
  IF c.drop THEN Positive(Floor(q.tokens, c.block) - c.block) ELSE Floor(q.tokens, c.block)

\* A chunk that does not finish the prefill ends with a block, unless blocks are too
\* wide for any chunk.
AlignedEnd(c, q, start, end) ==
  IF end < PrefillEnd(q) /\ (Floor(end, c.block) > start \/ c.block <= c.max_chunk)
  THEN Floor(end, c.block) ELSE end

\* The end of the block that a chunk starts inside of.
BlockEnd(c, start) ==
  IF start % c.block = 0 THEN 0 ELSE Floor(start, c.block) + c.block

\* The prompt's last whole hash unit: a hit finer than a block may resume there.
TailBoundary(c, q) ==
  LET last == Floor(q.prompt, c.hash)
      tail == IF c.drop THEN Positive(last - c.hash) ELSE last
  IN  IF c.partial /\ LastCachePosition(c, q) < tail /\ tail < q.prompt THEN tail ELSE 0

\* The end of the prefix shared with another request, or of its last whole block.
JunctionStop(c, q, start, end) ==
  LET stop == IF c.shared /\ c.junction <= q.prompt THEN c.junction
              ELSE start + Floor(c.junction - start, c.block)
  IN  IF start < c.junction /\ c.junction < end THEN stop ELSE 0

\* The earliest stop strictly inside the chunk, if any, ends it.
EarliestStop(start, end, stops) ==
  LET ends == {s \in stops : start < s /\ s < end} \cup {end}
  IN  CHOOSE e \in ends : \A s \in ends : e <= s

\* _mamba_block_aligned_split: how many of the n tokens from start on to compute.
BlockAligned(c, q, start, n) ==
  LET end == AlignedEnd(c, q, start, start + n)
      stops == {BlockEnd(c, start), LastCachePosition(c, q), TailBoundary(c, q),
                JunctionStop(c, q, start, end)}
  IN  IF start >= PrefillEnd(q) THEN n
      ELSE Positive(EarliestStop(start, end, stops) - start)

\* _reserve_prefill_lookahead: the prefill is finished or at least the lookahead is
\* left of it.
WithLookahead(lookahead, tokens, start, n) ==
  LET remaining == tokens - start - n IN
  Positive(IF 0 < remaining /\ remaining < lookahead THEN n - (lookahead - remaining) ELSE n)
=============================================================================
