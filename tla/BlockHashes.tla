----------------------------- MODULE BlockHashes -----------------------------
(***************************************************************************)
(* The hashes a request's full blocks are cached under (overlays/v1/core/  *)
(* kv_cache_utils.py).  The hash function is taken to be injective: a hash *)
(* is the tuple that is hashed,                                            *)
(*    <<hash of the block before, token ids, extra keys>>.                 *)
(*                                                                         *)
(* A request holds all_token_ids, mm_features (its media items [id,        *)
(* offset, length], by offset), block_hashes, and tags: tags.first enters  *)
(* the first block only (the cache salt, the strength of the refusal dial),*)
(* tags.every all of them (the LoRA name).  Offsets count from 0.          *)
(***************************************************************************)
EXTENDS Integers, Sequences, SequencesExt

EndOf(item) == item.offset + item.length

NoItem == "text"

\* Media items in a text of n tokens, one after the other.
InText(media, n) ==
    /\ \A i \in DOMAIN media :
          /\ media[i] \in [id : {media[i].id}, offset : Nat, length : Nat \ {0}]
          /\ media[i].id # NoItem /\ EndOf(media[i]) <= n
    /\ \A i, j \in DOMAIN media : i < j => EndOf(media[i]) <= media[j].offset

\* Where the walk over the media starts: index -1 is the last item.
FirstItem(media, index) == IF index < 0 THEN Len(media) + 1 + index ELSE index

\* _gen_mm_extra_hash_keys: the items in [start, end), each with its offset in
\* the block, and the index the next block starts from.
MediaKeys(media, start, end, index) ==
    LET walk[i \in 1..(Len(media) + 1)] ==
          IF i > Len(media) \/ end <= media[i].offset
          THEN [keys |-> <<>>, next |-> i]
          ELSE IF start >= EndOf(media[i]) THEN walk[i + 1]
          ELSE LET key == <<media[i].id, media[i].offset - start>>
                   rest == IF end >= EndOf(media[i]) THEN walk[i + 1]
                           ELSE [keys |-> <<>>, next |-> i]
               IN  [keys |-> <<key>> \o rest.keys, next |-> rest.next]
    IN  IF media = <<>> \/ EndOf(media[Len(media)]) <= start
        THEN [keys |-> <<>>, next |-> index]
        ELSE walk[FirstItem(media, index)]

\* generate_block_hash_extra_keys
ExtraKeys(tags, media, start) ==
    <<tags.every, media, IF start = 0 THEN tags.first ELSE "none">>

NONE_HASH == <<>>

\* hash_block_tokens
hash_block_tokens(parent, tokens, extra) == <<parent, tokens, extra>>

StartIndex_Last(hashes) == -1

\* The item the hasher starts from: all of them for a new request, the last one
\* for blocks that are completed later.
StartIndex(hashes) == IF hashes = <<>> THEN 1 ELSE -1

\* One round of the loop: block b is hashed on top of what there is.
HashBlock(r, size, sofar, b) ==
    LET m == MediaKeys(r.mm_features, b * size, (b + 1) * size, sofar.index)
        parent == IF sofar.hashes = <<>> THEN NONE_HASH ELSE sofar.hashes[Len(sofar.hashes)]
    IN  [hashes |-> Append(sofar.hashes,
             hash_block_tokens(parent, SubSeq(r.all_token_ids, b * size + 1, (b + 1) * size),
                               ExtraKeys(r.tags, m.keys, b * size))),
         index |-> m.next]

\* request_block_hasher, appended to the hashes there are.
Hashed(r, size) ==
    LET done == Len(r.block_hashes)
        full == Len(r.all_token_ids) \div size
        upto[n \in done..full] ==
          IF n = done THEN [hashes |-> r.block_hashes, index |-> StartIndex(r.block_hashes)]
          ELSE HashBlock(r, size, upto[n - 1], n - 1)
    IN  IF done < full THEN upto[full].hashes ELSE r.block_hashes

\* resolve_block_hashes, BlockHashListWithBlockSize: the hashes of a group whose
\* blocks are `scale` times as long.
View(hashes, scale) ==
    [i \in 1..(Len(hashes) \div scale) |-> hashes[i * scale]]

-----------------------------------------------------------------------------
(* What a hash should be, from what a block holds.  A position holds        *)
(* <<token, media id, index of the token in its item>>.                     *)

Content(tokens, media) ==
    [p \in 1..Len(tokens) |->
        LET in == {i \in DOMAIN media : media[i].offset < p /\ p <= EndOf(media[i])}
        IN  IF in = {} THEN <<tokens[p], NoItem, 0>>
            ELSE LET m == media[CHOOSE i \in in : TRUE]
                 IN  <<tokens[p], m.id, p - 1 - m.offset>>]

\* What the hash of block k says of its media: the items in it, by the place in the
\* block at which each starts, or would have.
BlockKeys(content, size, k) ==
    LET at(p) == content[k * size + p]
        starts == {p \in 1..size : at(p)[2] # NoItem /\ (p = 1 \/ at(p)[3] = 0)}
        start(i) == CHOOSE p \in starts : Cardinality({q \in starts : q <= p}) = i
    IN  [i \in 1..Cardinality(starts) |-> <<at(start(i))[2], start(i) - 1 - at(start(i))[3]>>]

\* The hash of block k of some content, on top of that of the block before.
ContentHash(parent, tags, content, size, k) ==
    hash_block_tokens(parent, [p \in 1..size |-> content[k * size + p][1]],
                      ExtraKeys(tags, BlockKeys(content, size, k), k * size))

\* The hash of the first b blocks.
Fingerprint(tags, content, size, b) ==
    LET chain[k \in 0..b] ==
          IF k = 0 THEN NONE_HASH ELSE ContentHash(chain[k - 1], tags, content, size, k - 1)
    IN  chain[b]
=============================================================================
