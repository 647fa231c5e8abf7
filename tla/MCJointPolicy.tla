---------------------------- MODULE MCJointPolicy ----------------------------
(* A small instance of JointPolicy for TLC.                                *)
EXTENDS JointPolicy

\* A prompt of four tokens: on the GPU, in storage and half in host memory,
\* or nowhere.
MCMatches ==
    {[prompt |-> 4, gpu |-> 4, CPU |-> 0, FS |-> 0, OBJ |-> 0],
     [prompt |-> 4, gpu |-> 0, CPU |-> 2, FS |-> 4, OBJ |-> 0],
     [prompt |-> 4, gpu |-> 0, CPU |-> 0, FS |-> 0, OBJ |-> 0]}

\* A prompt is dear, a cached one costs the minimum.
MCPrefill ==
    [minimum |-> 2, intercept |-> 1, prompt |-> 1, cached |-> -1,
     prompt_squared |-> 1, prompt_cached |-> 0, cached_squared |-> -1]

MCTransferCost == [CPU |-> 1, FS |-> 1, OBJ |-> 2]
MCBaseLatency == [CPU |-> 0, FS |-> 0, OBJ |-> 1]

\* An idle node and a busy one, with one, two or an unknown number of blocks
\* free.
MCStates ==
    {[work |-> IF busy THEN 2 ELSE 0, active |-> IF busy THEN 1 ELSE 0,
      running |-> IF busy THEN 2 ELSE 0, waiting |-> IF busy THEN 3 ELSE 0,
      usage |-> IF total = None THEN IF busy THEN 96 ELSE 0 ELSE 100 - 20 * free,
      total |-> total] :
        busy \in BOOLEAN, free \in {1, 2}, total \in {5, None}}
=============================================================================
