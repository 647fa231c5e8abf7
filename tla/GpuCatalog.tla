------------------------------ MODULE GpuCatalog ------------------------------
(***************************************************************************)
(* What the KV events of one vLLM node do to the router's catalog of its   *)
(* GPU blocks, and what the longest-prefix lookup makes of the catalog.    *)
(*                                                                         *)
(* vLLM names a block by a chained hash: it stands for the tokens of the   *)
(* block and of every block before it, and for extra keys (LoRA adapter,   *)
(* cache salt).  vLLM may hold several physical copies of a block, and it  *)
(* announces the loss of each.  An event reaches the catalog as soon as it *)
(* is published: how it is lost or late is in KvEvents.                    *)
(***************************************************************************)
EXTENDS Integers, Sequences, FiniteSetsExt

CONSTANTS
    Contents,   \* the token tuples a block may hold
    Extras,     \* the extra keys of a request
    MaxDepth,   \* bound: the blocks of a prompt
    Capacity,   \* the physical blocks of the GPU
    MaxCopies,  \* the physical copies a block may have
    None

Prompts == UNION {[1..n -> Contents] : n \in 1..MaxDepth}
Hashes == [extra : Extras, path : Prompts]

\* A request without extra keys has the empty one.
ASSUME CatalogAssumption ==
    /\ Extras # {}
    /\ MaxDepth \in Nat /\ Capacity \in Nat /\ MaxCopies \in Nat
    /\ None \notin Hashes

VARIABLES
    gpu,     \* the number of copies of each block on the GPU (external)
    blocks,  \* gpu_blocks: from a hash to the parent hash and the tokens
    index,   \* gpu_block_index: from a parent hash and tokens to a hash
    status,  \* gpu_catalog_status
    plain    \* history: since the last reset no block had a second copy and
             \* no two extra keys were on the GPU together

vars == <<gpu, blocks, index, status, plain>>

Hash(e, path) == [extra |-> e, path |-> path]
Place(parent, content) == [parent |-> parent, content |-> content]

\* Where the hash of a block says that the block belongs.
PlaceOf(h) ==
    LET n == Len(h.path)
    IN  Place(IF n = 1 THEN None ELSE Hash(h.extra, SubSeq(h.path, 1, n - 1)), h.path[n])

Init ==
    /\ gpu = [h \in Hashes |-> 0]
    /\ blocks = [h \in {} |-> None] /\ index = [k \in {} |-> None]
    /\ status = "HEALTHY"
    /\ plain = TRUE

-----------------------------------------------------------------------------
(* The catalog.                                                            *)

\* _store_event on GPU blocks: the hashes of the event are chained from its
\* parent on.  A known block keeps its entry; every block is indexed.  If the
\* tokens end before the hashes do, the rest is dropped.
StoreEvent(parent, hashes, contents) ==
    LET read == DOMAIN contents
        place(i) == Place(IF i = 1 THEN parent ELSE hashes[i - 1], contents[i])
        fresh == {hashes[i] : i \in read} \ DOMAIN blocks
    IN  /\ blocks' = [h \in DOMAIN blocks \cup fresh |->
                        IF h \in fresh
                        THEN place(CHOOSE i \in read : hashes[i] = h) ELSE blocks[h]]
        /\ index' = [k \in DOMAIN index \cup {place(i) : i \in read} |->
                        IF \E i \in read : place(i) = k
                        THEN hashes[CHOOSE i \in read : place(i) = k] ELSE index[k]]
        /\ status' = IF Len(contents) < Len(hashes) THEN "DEGRADED" ELSE status

\* Mutant: the block leaves gpu_blocks only.
RemoveEvent_KeepsIndex(h) ==
    /\ blocks' = [g \in DOMAIN blocks \ {h} |-> blocks[g]]
    /\ UNCHANGED <<index, status>>

\* _remove_event: an unknown block is ignored.
RemoveEvent(h) ==
    /\ blocks' = [g \in DOMAIN blocks \ {h} |-> blocks[g]]
    /\ index' = IF h \in DOMAIN blocks
                THEN [k \in DOMAIN index \ {blocks[h]} |-> index[k]] ELSE index
    /\ UNCHANGED status

\* Mutant: only the index is cleared.
ClearCatalog_KeepsBlocks ==
    /\ index' = [k \in {} |-> None]
    /\ UNCHANGED <<blocks, status>>

\* _clear_gpu_catalog.
ClearCatalog ==
    /\ blocks' = [h \in {} |-> None] /\ index' = [k \in {} |-> None]
    /\ UNCHANGED status

-----------------------------------------------------------------------------
(* The prefix cache of vLLM (external).                                    *)

Prefix(path, n) == SubSeq(path, 1, n)
OnGpu(h) == gpu[h] > 0

OneCopyOneKey ==
    /\ \A h \in Hashes : gpu[h] <= 1
    /\ \A g, h \in Hashes : OnGpu(g) /\ OnGpu(h) => g.extra = h.extra

\* A request fills the blocks of a path after its first n, which are cached;
\* the tokens of the event may end early.
CacheBlocks(e, path, n, cut) ==
    LET new == n + 1 .. Len(path)
        added == {Hash(e, Prefix(path, i)) : i \in new}
    IN  /\ n > 0 => OnGpu(Hash(e, Prefix(path, n)))
        /\ \A h \in added : gpu[h] < MaxCopies
        /\ MapThenSumSet(LAMBDA h : gpu[h], Hashes) + Len(path) - n <= Capacity
        /\ gpu' = [h \in Hashes |-> IF h \in added THEN gpu[h] + 1 ELSE gpu[h]]
        /\ StoreEvent(IF n = 0 THEN None ELSE Hash(e, Prefix(path, n)),
                      [i \in 1..Len(path) - n |-> Hash(e, Prefix(path, n + i))],
                      SubSeq(path, n + 1, Len(path) - cut))
        /\ plain' = (plain /\ OneCopyOneKey')

\* A copy of a block is evicted, in any order along its path.
Evict(h) ==
    /\ OnGpu(h)
    /\ gpu' = [gpu EXCEPT ![h] = @ - 1]
    /\ RemoveEvent(h)
    /\ UNCHANGED plain

\* The prefix cache is reset, or the process is replaced.
Reset ==
    /\ gpu' = [h \in Hashes |-> 0]
    /\ ClearCatalog
    /\ plain' = TRUE

Next ==
    \/ \E e \in Extras, path \in Prompts : \E n \in 0 .. Len(path) - 1, cut \in {0, 1} :
          CacheBlocks(e, path, n, cut)
    \/ \E h \in Hashes : Evict(h)
    \/ Reset

Spec == Init /\ [][Next]_vars

-----------------------------------------------------------------------------
(* The lookup.                                                             *)

\* Mutant: the parent does not advance along the prompt.
LongestPrefix_FlatChain(prompt) ==
    LET found == {i \in DOMAIN prompt : Place(None, prompt[i]) \in DOMAIN index}
    IN  Max({i \in 0..Len(prompt) : 1..i \subseteq found})

\* Mutant: the last block of a prompt is never looked up.
LongestPrefix_Short(prompt) ==
    LET reach[i \in 0..Len(prompt)] ==
            IF i = 0 THEN {None}
            ELSE {index[k] : k \in {Place(p, prompt[i]) : p \in reach[i - 1]} \cap DOMAIN index}
    IN  Max({i \in 0..Len(prompt) : (i = 0 \/ i < Len(prompt)) /\ reach[i] # {}})

\* _longest_prefix, in blocks: the hash of each block leads to the next.  The
\* set reach[i] holds the hash that the first i blocks lead to, if any.
LongestPrefix(prompt) ==
    LET reach[i \in 0..Len(prompt)] ==
            IF i = 0 THEN {None}
            ELSE {index[k] : k \in {Place(p, prompt[i]) : p \in reach[i - 1]} \cap DOMAIN index}
    IN  Max({i \in 0..Len(prompt) : reach[i] # {}})

-----------------------------------------------------------------------------
(* Properties.                                                             *)

TypeOK ==
    /\ gpu \in [Hashes -> 0..MaxCopies]
    /\ DOMAIN blocks \subseteq Hashes
    /\ \A k \in DOMAIN index : index[k] \in Hashes
    /\ status \in {"HEALTHY", "DEGRADED"}
    /\ plain \in BOOLEAN

\* The two dictionaries of the tracker agree: an index entry names a block
\* that the catalog has, and has at that place.  No order of stores, repeated
\* stores and evictions leaves an entry behind.
IndexHasItsBlock ==
    \A k \in DOMAIN index : index[k] \in DOMAIN blocks /\ blocks[index[k]] = k

\* The catalog never has a block that the GPU has lost.
CatalogIsOnGpu == \A h \in DOMAIN blocks : OnGpu(h)

\* The blocks of a path that are on the GPU from its start on.
CachedPrefix(e, path) ==
    Max({n \in 0..Len(path) : \A i \in 1..n : OnGpu(Hash(e, Prefix(path, i)))})

\* The router never counts on a GPU prefix that the node does not hold, for
\* one extra key or another.
PrefixIsCached ==
    \A prompt \in Prompts :
        \E e \in Extras : LongestPrefix(prompt) <= CachedPrefix(e, prompt)

\* A trusted catalog finds all that is cached, in whatever order blocks were
\* evicted and cached again, as long as requests with different extra keys
\* and second copies stay away: those may hide blocks from the lookup.
PrefixIsExact ==
    status = "HEALTHY" /\ plain =>
        \A prompt \in Prompts :
            LongestPrefix(prompt) = Max({CachedPrefix(e, prompt) : e \in Extras})
=============================================================================
