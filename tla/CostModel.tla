------------------------------ MODULE CostModel ------------------------------
(***************************************************************************)
(* What CostModel of policy.py and build_route_candidates of tracker.py    *)
(* make of a prefix match: the price of a prompt's path through the cache  *)
(* tiers, the work an assignment reserves and the GPU blocks it needs.     *)
(* Costs are integers.                                                     *)
(***************************************************************************)
EXTENDS Integers, FiniteSetsExt

CONSTANTS
    Prefill,       \* coefficients of the prefill time by prompt and cached
                   \* tokens; minimum is minimum_ms
    DecodeCost,    \* of an output token
    TransferCost,  \* of a token, per medium it is loaded from
    BaseLatency,   \* of a transfer, per medium
    MaxTokens,     \* max_tokens of a request
    BlockSize      \* gpu_block_size

Media == {"CPU", "FS", "OBJ"}

\* Without a prefill_time_model, compute_cost is the linear one: cached is
\* -prompt, and the rest is zero.
Coefficients ==
    {"intercept", "prompt", "cached", "prompt_squared", "prompt_cached", "cached_squared"}

\* A prompt and the part of it that each tier holds.
PrefixMatch == [prompt : Nat, gpu : Nat, CPU : Nat, FS : Nat, OBJ : Nat]

ASSUME CostAssumption ==
    /\ \A c \in Coefficients : Prefill[c] \in Int
    /\ Prefill["minimum"] \in Nat
    /\ DecodeCost \in Nat /\ MaxTokens \in Nat
    /\ TransferCost \in [Media -> Nat] /\ BaseLatency \in [Media -> Nat]
    /\ BlockSize \in Nat \ {0}

Max2(a, b) == IF a > b THEN a ELSE b
AtMost(a, bound) == IF a > bound THEN bound ELSE a

\* The fitted polynomial may fall below any real prefill, even below zero.
predict_ms(tokens, cached_tokens) ==
    LET prompt == Max2(0, tokens)
        cached == AtMost(Max2(0, cached_tokens), prompt)
    IN  Max2(Prefill["minimum"],
             Prefill["intercept"]
             + Prefill["prompt"] * prompt + Prefill["cached"] * cached
             + Prefill["prompt_squared"] * (prompt * prompt)
             + Prefill["prompt_cached"] * (prompt * cached)
             + Prefill["cached_squared"] * (cached * cached))

prefill_cost(tokens, cached) == predict_ms(tokens, cached)

transfer_cost(medium, tokens) ==
    Max2(0, tokens) * TransferCost[medium] + BaseLatency[medium]

\* The GPU prefix is used where it is; the longest external prefix beyond it
\* is loaded through host memory, from the cheapest L2 medium that has all of
\* it where host memory ends; the rest is computed.
prompt_path_cost(match, include_external) ==
    LET gpu == AtMost(match.gpu, match.prompt)
        prefix == [m \in Media |-> AtMost(match[m], match.prompt)]
        external == Max({prefix[m] : m \in Media})
        memory == Max2(gpu, prefix["CPU"])
        l2 == {m \in {"FS", "OBJ"} : prefix[m] = external}
    IN  IF ~include_external \/ external <= gpu
        THEN prefill_cost(match.prompt, gpu)
        ELSE transfer_cost("CPU", external - gpu)
             + (IF external <= memory THEN 0
                ELSE Min({transfer_cost(m, external - memory) : m \in l2}))
             + prefill_cost(match.prompt, external)

\* The work always counts the external tiers, whatever the policy prices.
candidate_work(match) == prompt_path_cost(match, TRUE) + MaxTokens * DecodeCost

required_new_gpu_blocks(match) ==
    (Max2(0, match.prompt - match.gpu) + MaxTokens + BlockSize - 1) \div BlockSize
=============================================================================
