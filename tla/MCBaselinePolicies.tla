-------------------------- MODULE MCBaselinePolicies --------------------------
(* Small instances of BaselinePolicies for TLC.                            *)
EXTENDS BaselinePolicies

\* Prompts of one to three tokens, of which two are hashed, and queues of zero
\* or two, for the policies that look at them.
MCPrompts(p) == IF p = "prefix_hash" THEN {<<1>>, <<1, 2>>, <<1, 2, 1>>} ELSE {<<1>>}
MCDepths(p) == IF p = "least_load" THEN {0, 2} ELSE {0}

\* Longer token sequences than one hash to their length.
MCHash(tokens) == IF Len(tokens) = 1 THEN tokens[1] ELSE Len(tokens) + 3
=============================================================================
