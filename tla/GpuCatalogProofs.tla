-------------------------- MODULE GpuCatalogProofs --------------------------
(***************************************************************************)
(* GpuCatalog for prompts of any length, any extra keys and any GPU: the   *)
(* two dictionaries of the catalog agree, it holds nothing that the GPU    *)
(* has lost, the lookup credits a node with no block that it does not      *)
(* have, and with all of them as long as the catalog can be trusted.       *)
(***************************************************************************)
EXTENDS GpuCatalog, TLAPS, SequenceTheorems, WellFoundedInduction

\* Every entry of gpu_blocks is where its hash says ...
BlocksPlaced == \A h \in DOMAIN blocks : blocks[h] = PlaceOf(h)

\* ... and so is every entry of the index, which names a block of the catalog.
IndexPlaced == \A k \in DOMAIN index : index[k] \in DOMAIN blocks /\ PlaceOf(index[k]) = k

\* The hashes and the tokens of an event place the blocks alike.
Agree(parent, hashes, contents) ==
    \A i \in DOMAIN contents :
        Place(IF i = 1 THEN parent ELSE hashes[i - 1], contents[i]) = PlaceOf(hashes[i])

Stored(hashes, contents) == {hashes[i] : i \in DOMAIN contents}

CatalogInv ==
    /\ TypeOK
    /\ CatalogIsOnGpu
    /\ BlocksPlaced
    /\ IndexPlaced

-----------------------------------------------------------------------------
LEMMA CatalogInit == Init => CatalogInv
BY CatalogAssumption
   DEF Init, CatalogInv, TypeOK, CatalogIsOnGpu, BlocksPlaced, IndexPlaced, CatalogAssumption

\* An event whose tokens agree with its hashes adds blocks at their places.
LEMMA StorePlaces ==
    ASSUME NEW parent, NEW hashes, NEW contents,
           StoreEvent(parent, hashes, contents),
           Agree(parent, hashes, contents),
           BlocksPlaced, IndexPlaced
    PROVE  /\ BlocksPlaced' /\ IndexPlaced'
           /\ DOMAIN blocks' = DOMAIN blocks \cup Stored(hashes, contents)
<1> DEFINE read == DOMAIN contents
           place(i) == Place(IF i = 1 THEN parent ELSE hashes[i - 1], contents[i])
           new == {hashes[i] : i \in read}
           fresh == new \ DOMAIN blocks
<1>1. /\ blocks' = [h \in DOMAIN blocks \cup fresh |->
                       IF h \in fresh
                       THEN place(CHOOSE i \in read : hashes[i] = h) ELSE blocks[h]]
      /\ index' = [k \in DOMAIN index \cup {place(i) : i \in read} |->
                       IF \E i \in read : place(i) = k
                       THEN hashes[CHOOSE i \in read : place(i) = k] ELSE index[k]]
    BY DEF StoreEvent
<1>2. \A i \in read : place(i) = PlaceOf(hashes[i])
    BY DEF Agree
<1> HIDE DEF place, read
<1>3. DOMAIN blocks' = DOMAIN blocks \cup new
    BY <1>1
<1>4. BlocksPlaced'
  <2> SUFFICES ASSUME NEW h \in DOMAIN blocks' PROVE blocks'[h] = PlaceOf(h)
      BY DEF BlocksPlaced
  <2>1. CASE h \in fresh
    <3>1. PICK j \in read : j = (CHOOSE i \in read : hashes[i] = h) /\ hashes[j] = h
        BY <2>1
    <3>2. blocks'[h] = place(j)
        BY <1>1, <2>1, <3>1
    <3> QED
        BY <1>2, <3>1, <3>2
  <2>2. CASE h \notin fresh
      BY <1>1, <2>2 DEF BlocksPlaced
  <2> QED
      BY <2>1, <2>2
<1>5. IndexPlaced'
  <2> SUFFICES ASSUME NEW k \in DOMAIN index'
               PROVE  index'[k] \in DOMAIN blocks' /\ PlaceOf(index'[k]) = k
      BY DEF IndexPlaced
  <2>1. CASE \E i \in read : place(i) = k
    <3>1. PICK j \in read : j = (CHOOSE i \in read : place(i) = k) /\ place(j) = k
        BY <2>1
    <3>2. index'[k] = hashes[j]
        BY <1>1, <2>1, <3>1
    <3> QED
        BY <1>2, <1>3, <3>1, <3>2
  <2>2. CASE ~\E i \in read : place(i) = k
    <3>1. k \in DOMAIN index /\ index'[k] = index[k]
        BY <1>1, <2>2
    <3> QED
        BY <1>3, <3>1 DEF IndexPlaced
  <2> QED
      BY <2>1, <2>2
<1> QED
    BY <1>3, <1>4, <1>5 DEF read, Stored

\* The hash of a prefix of a prompt is one of vLLM's hashes, and says where it
\* belongs.
LEMMA PrefixPlace ==
    ASSUME NEW e \in Extras, NEW path \in Prompts, NEW i \in 1..Len(path)
    PROVE  /\ Hash(e, Prefix(path, i)) \in Hashes
           /\ PlaceOf(Hash(e, Prefix(path, i))) =
                 Place(IF i = 1 THEN None ELSE Hash(e, Prefix(path, i - 1)), path[i])
<1>1. PICK n \in 1..MaxDepth : path \in [1..n -> Contents]
    BY DEF Prompts
<1>2. n \in Nat /\ Len(path) = n /\ path \in Seq(Contents) /\ MaxDepth \in Nat
    BY <1>1, CatalogAssumption DEF CatalogAssumption
<1>3. Prefix(path, i) = [j \in 1..i |-> path[j]] /\ Prefix(path, i) \in [1..i -> Contents]
  <2>1. Prefix(path, i) = [j \in 1..i |-> path[j]]
      BY <1>2 DEF Prefix
  <2>2. \A j \in 1..i : path[j] \in Contents
      BY <1>1, <1>2
  <2> QED
      BY <2>1, <2>2
<1>4. Prefix(path, i) \in Prompts
    BY <1>1, <1>2, <1>3 DEF Prompts
<1>5. Len(Prefix(path, i)) = i /\ Prefix(path, i)[i] = path[i]
  <2>1. i \in 1..i /\ i \in Nat
      BY <1>2
  <2>2. Prefix(path, i)[i] = path[i]
      BY <1>3, <2>1
  <2>3. Len(Prefix(path, i)) = i
      BY <1>3, <2>1, LenProperties
  <2> QED
      BY <2>2, <2>3
<1>6. SubSeq(Prefix(path, i), 1, i - 1) = Prefix(path, i - 1)
  <2>1. Prefix(path, i - 1) = [j \in 1..(i - 1) |-> path[j]]
      BY <1>1, <1>2 DEF Prefix
  <2>2. SubSeq(Prefix(path, i), 1, i - 1) = [j \in 1..(i - 1) |-> Prefix(path, i)[j]]
      BY <1>2, <1>3
  <2>3. \A j \in 1..(i - 1) : Prefix(path, i)[j] = path[j]
      BY <1>2, <1>3
  <2> QED
      BY <2>1, <2>2, <2>3
<1> QED
    BY <1>4, <1>5, <1>6 DEF Hash, Hashes, PlaceOf

\* The hashes of an event of vLLM are those of the prompt's next blocks.
LEMMA CacheAgrees ==
    ASSUME NEW e \in Extras, NEW path \in Prompts, NEW n \in 0 .. Len(path) - 1, NEW cut \in {0, 1}
    PROVE  Agree(IF n = 0 THEN None ELSE Hash(e, Prefix(path, n)),
                 [i \in 1..Len(path) - n |-> Hash(e, Prefix(path, n + i))],
                 SubSeq(path, n + 1, Len(path) - cut))
<1> DEFINE parent == IF n = 0 THEN None ELSE Hash(e, Prefix(path, n))
           hashes == [i \in 1..Len(path) - n |-> Hash(e, Prefix(path, n + i))]
           contents == SubSeq(path, n + 1, Len(path) - cut)
<1>2. Len(path) \in Nat /\ path \in Seq(Contents) /\ n \in Nat
    BY CatalogAssumption DEF Prompts, CatalogAssumption
<1>3. /\ DOMAIN contents = 1..(Len(path) - cut - n)
      /\ \A i \in DOMAIN contents :
            i \in 1..(Len(path) - n) /\ n + i \in 1..Len(path) /\ contents[i] = path[n + i]
  <2>1. Len(path) - cut \in Nat /\ n <= Len(path) - cut /\ Len(path) - cut <= Len(path)
      BY <1>2
  <2>2. contents = [i \in 1..(Len(path) - cut - n) |-> path[n + i]]
      BY <1>2, <2>1
  <2>3. \A i \in 1..(Len(path) - cut - n) : i \in 1..(Len(path) - n) /\ n + i \in 1..Len(path)
      BY <1>2, <2>1
  <2>4. DOMAIN contents = 1..(Len(path) - cut - n)
      BY <2>2
  <2> HIDE DEF contents
  <2> QED
      BY <2>2, <2>3, <2>4
<1>4. \A i \in DOMAIN contents : hashes[i] = Hash(e, Prefix(path, n + i))
    BY <1>2, <1>3
<1>5. Agree(parent, hashes, contents)
  <2> SUFFICES ASSUME NEW i \in DOMAIN contents
               PROVE  Place(IF i = 1 THEN parent ELSE hashes[i - 1], path[n + i])
                        = PlaceOf(Hash(e, Prefix(path, n + i)))
      BY <1>3, <1>4 DEF Agree
  <2>1. i \in 1..(Len(path) - n) /\ n + i \in 1..Len(path)
      BY <1>3
  <2>2. PlaceOf(Hash(e, Prefix(path, n + i))) =
           Place(IF n + i = 1 THEN None ELSE Hash(e, Prefix(path, n + i - 1)), path[n + i])
      BY <2>1, PrefixPlace
  <2>3. CASE i = 1
    <3>1. n + i - 1 = n /\ (n + i = 1 <=> n = 0)
        BY <1>2, <2>3
    <3> QED
        BY <2>2, <2>3, <3>1
  <2>4. CASE i # 1
    <3>1. n + i # 1 /\ n + (i - 1) = n + i - 1 /\ i - 1 \in 1..(Len(path) - n)
        BY <1>2, <2>1, <2>4
    <3>2. hashes[i - 1] = Hash(e, Prefix(path, n + i - 1))
        BY <3>1
    <3> QED
        BY <2>2, <2>4, <3>1, <3>2
  <2> QED
      BY <2>3, <2>4
<1> QED
    BY <1>5

\* An event of vLLM keeps the invariant.
LEMMA CacheBlocksStep ==
    ASSUME CatalogInv, NEW e \in Extras, NEW path \in Prompts,
           NEW n \in 0 .. Len(path) - 1, NEW cut \in {0, 1}, CacheBlocks(e, path, n, cut)
    PROVE  CatalogInv'
<1> USE DEF CatalogInv
<1> DEFINE added == {Hash(e, Prefix(path, i)) : i \in n + 1 .. Len(path)}
           parent == IF n = 0 THEN None ELSE Hash(e, Prefix(path, n))
           hashes == [i \in 1..Len(path) - n |-> Hash(e, Prefix(path, n + i))]
           contents == SubSeq(path, n + 1, Len(path) - cut)
<1>1. /\ \A h \in added : gpu[h] < MaxCopies
      /\ gpu' = [h \in Hashes |-> IF h \in added THEN gpu[h] + 1 ELSE gpu[h]]
      /\ StoreEvent(parent, hashes, contents)
    BY DEF CacheBlocks
<1>2. Len(path) \in Nat /\ path \in Seq(Contents) /\ n \in Nat
    BY CatalogAssumption DEF Prompts, CatalogAssumption
<1>3. /\ DOMAIN contents = 1..(Len(path) - cut - n)
      /\ \A i \in DOMAIN contents :
            i \in 1..(Len(path) - n) /\ n + i \in 1..Len(path) /\ contents[i] = path[n + i]
  <2>1. Len(path) - cut \in Nat /\ n <= Len(path) - cut /\ Len(path) - cut <= Len(path)
      BY <1>2
  <2>2. contents = [i \in 1..(Len(path) - cut - n) |-> path[n + i]]
      BY <1>2, <2>1
  <2>3. \A i \in 1..(Len(path) - cut - n) : i \in 1..(Len(path) - n) /\ n + i \in 1..Len(path)
      BY <1>2, <2>1
  <2>4. DOMAIN contents = 1..(Len(path) - cut - n)
      BY <2>2
  <2> HIDE DEF contents
  <2> QED
      BY <2>2, <2>3, <2>4
<1>4. \A i \in DOMAIN contents : hashes[i] = Hash(e, Prefix(path, n + i)) /\ hashes[i] \in added
    BY <1>2, <1>3
<1>5. Agree(parent, hashes, contents)
    BY CacheAgrees
<1>6. added \subseteq Hashes
  <2>1. \A i \in n + 1 .. Len(path) : i \in 1..Len(path)
      BY <1>2
  <2> QED
      BY <2>1, PrefixPlace
<1> HIDE DEF hashes, contents, parent, added
<1>7. /\ BlocksPlaced' /\ IndexPlaced'
      /\ DOMAIN blocks' = DOMAIN blocks \cup Stored(hashes, contents)
  <2>1. StoreEvent(parent, hashes, contents) /\ BlocksPlaced /\ IndexPlaced
      BY <1>1
  <2> HIDE DEF CatalogInv
  <2> QED
      BY <1>5, <2>1, StorePlaces
<1>8. gpu' \in [Hashes -> 0..MaxCopies]
    BY <1>1, CatalogAssumption DEF TypeOK, CatalogAssumption
<1>9. \A h \in Hashes : h \in added \/ gpu[h] > 0 => gpu'[h] > 0
  <2> SUFFICES ASSUME NEW h \in Hashes, h \in added \/ gpu[h] > 0 PROVE gpu'[h] > 0
      OBVIOUS
  <2>1. gpu[h] \in Nat
      BY CatalogAssumption DEF TypeOK, CatalogAssumption
  <2>2. gpu'[h] = IF h \in added THEN gpu[h] + 1 ELSE gpu[h]
      BY <1>1
  <2> QED
      BY <2>1, <2>2
<1>10. DOMAIN blocks' \subseteq Hashes /\ CatalogIsOnGpu'
    BY <1>4, <1>6, <1>7, <1>9 DEF Stored, TypeOK, CatalogIsOnGpu, OnGpu
<1>11. status' \in {"HEALTHY", "DEGRADED"} /\ plain' \in BOOLEAN
    BY <1>1 DEF StoreEvent, CacheBlocks, TypeOK
<1>12. \A k \in DOMAIN index' : index'[k] \in Hashes
    BY <1>7, <1>10 DEF IndexPlaced
<1> QED
    BY <1>7, <1>8, <1>10, <1>11, <1>12 DEF TypeOK

LEMMA CatalogStep == CatalogInv /\ [Next]_vars => CatalogInv'
<1> SUFFICES ASSUME CatalogInv, [Next]_vars PROVE CatalogInv'
    OBVIOUS
<1> USE DEF CatalogInv
<1>1. ASSUME NEW e \in Extras, NEW path \in Prompts,
             NEW n \in 0 .. Len(path) - 1, NEW cut \in {0, 1}, CacheBlocks(e, path, n, cut)
      PROVE  CatalogInv'
    BY <1>1, CacheBlocksStep
<1>2. ASSUME NEW h \in Hashes, Evict(h) PROVE CatalogInv'
  <2>1. /\ blocks' = [g \in DOMAIN blocks \ {h} |-> blocks[g]]
        /\ index' = IF h \in DOMAIN blocks
                    THEN [k \in DOMAIN index \ {blocks[h]} |-> index[k]] ELSE index
        /\ status' = status /\ plain' = plain /\ gpu[h] > 0 /\ gpu' = [gpu EXCEPT ![h] = @ - 1]
      BY <1>2 DEF Evict, RemoveEvent, OnGpu
  <2>2. BlocksPlaced' /\ CatalogIsOnGpu' /\ DOMAIN blocks' \subseteq Hashes
      BY <2>1 DEF BlocksPlaced, CatalogIsOnGpu, OnGpu, TypeOK
  <2>3. \A k \in DOMAIN index' : k \in DOMAIN index /\ index'[k] = index[k] /\ index[k] # h
    <3>1. CASE h \in DOMAIN blocks
        BY <2>1, <3>1 DEF IndexPlaced, BlocksPlaced
    <3>2. CASE h \notin DOMAIN blocks
        BY <2>1, <3>2 DEF IndexPlaced
    <3> QED
        BY <3>1, <3>2
  <2>4. IndexPlaced'
      BY <2>1, <2>3 DEF IndexPlaced
  <2>5. gpu' \in [Hashes -> 0..MaxCopies]
      BY <2>1, CatalogAssumption DEF TypeOK, CatalogAssumption
  <2> QED
      BY <2>1, <2>2, <2>3, <2>4, <2>5 DEF TypeOK
<1>3. CASE Reset
    BY <1>3, CatalogAssumption
       DEF Reset, ClearCatalog, TypeOK, CatalogIsOnGpu, BlocksPlaced, IndexPlaced,
           CatalogAssumption
<1>4. CASE UNCHANGED vars
    BY <1>4 DEF vars, TypeOK, CatalogIsOnGpu, OnGpu, BlocksPlaced, IndexPlaced
<1> QED
    BY <1>1, <1>2, <1>3, <1>4 DEF Next

LEMMA CatalogInvariant == Spec => []CatalogInv
BY CatalogInit, CatalogStep, PTL DEF Spec

\* The dictionaries and the status of the catalog have their types.
THEOREM CatalogTypeCorrect == Spec => []TypeOK
<1>1. CatalogInv => TypeOK
    BY DEF CatalogInv
<1> QED
    BY <1>1, CatalogInvariant, PTL

\* The dictionaries of tracker.py agree after any events: an entry of
\* gpu_block_index names a block that gpu_blocks has, at that place.
THEOREM CatalogIsSound == Spec => []IndexHasItsBlock
<1>1. CatalogInv => IndexHasItsBlock
    BY DEF CatalogInv, IndexHasItsBlock, BlocksPlaced, IndexPlaced
<1> QED
    BY <1>1, CatalogInvariant, PTL

\* _apply_gpu_event keeps no block that vLLM has announced as removed, however
\* many copies of it were stored and evicted before.
THEOREM CatalogTracksGpu == Spec => []CatalogIsOnGpu
<1>1. CatalogInv => CatalogIsOnGpu
    BY DEF CatalogInv
<1> QED
    BY <1>1, CatalogInvariant, PTL

-----------------------------------------------------------------------------
(* The lookup: what the blocks it passes on its way are.                   *)

\* A set of numbers up to a bound has its extremes.
LEMMA Least ==
    ASSUME NEW S \in SUBSET Nat, S # {}
    PROVE  \E m \in S : \A k \in S : m <= k
<1>1. PICK m \in S : \A k \in S : ~(<<k, m>> \in OpToRel(<, Nat))
    BY WFMin, NatLessThanWellFounded, Zenon
<1>2. \A k \in S : ~(k < m)
    BY <1>1 DEF OpToRel
<1> QED
    BY <1>2

LEMMA MaxIs ==
    ASSUME NEW L \in Nat, NEW S \in SUBSET (0..L), S # {}
    PROVE  Max(S) \in S /\ \A k \in S : Max(S) >= k
<1> DEFINE T == {L - k : k \in S}
<1>1. T \in SUBSET Nat /\ T # {}
  <2>1. \A k \in S : L - k \in Nat
      OBVIOUS
  <2>2. PICK k \in S : TRUE
      OBVIOUS
  <2>3. L - k \in T
      OBVIOUS
  <2> QED
      BY <2>1, <2>3
<1> HIDE DEF T
<1>2. PICK m \in T : \A k \in T : m <= k
    BY <1>1, Least
<1>3. PICK x \in S : m = L - x
    BY DEF T
<1>4. \A y \in S : x >= y
    BY <1>2, <1>3 DEF T
<1> QED
    BY <1>4 DEF Max

\* The equations of the recursive function in LongestPrefix.
Reaches(f, prompt) ==
    f = [i \in 0..Len(prompt) |->
            IF i = 0 THEN {None}
            ELSE {index[k] : k \in {Place(p, prompt[i]) : p \in f[i - 1]} \cap DOMAIN index}]

LEMMA ReachesAt ==
    ASSUME NEW prompt, Len(prompt) \in Nat, NEW f, Reaches(f, prompt)
    PROVE  /\ f[0] = {None}
           /\ \A i \in 1..Len(prompt) :
                f[i] = {index[k] : k \in {Place(p, prompt[i]) : p \in f[i - 1]} \cap DOMAIN index}
<1> DEFINE next(i) == {index[k] : k \in {Place(p, prompt[i]) : p \in f[i - 1]} \cap DOMAIN index}
<1>1. f = [i \in 0..Len(prompt) |-> IF i = 0 THEN {None} ELSE next(i)]
    BY DEF Reaches
<1> HIDE DEF next
<1>2. \A i \in 0..Len(prompt) : f[i] = IF i = 0 THEN {None} ELSE next(i)
    BY <1>1
<1>3. 0 \in 0..Len(prompt) /\ \A i \in 1..Len(prompt) : i \in 0..Len(prompt) /\ i # 0
    OBVIOUS
<1> QED
    BY <1>2, <1>3 DEF next

\* They have a solution, built block by block along the prompt.
LEMMA ReachesExists ==
    ASSUME NEW prompt, Len(prompt) \in Nat
    PROVE  \E f : Reaches(f, prompt)
<1> DEFINE next(F, i) ==
               {index[k] : k \in {Place(p, prompt[i]) : p \in F[i - 1]} \cap DOMAIN index}
           UpTo(n) == \E f : f = [i \in 0..n |-> IF i = 0 THEN {None} ELSE next(f, i)]
           Bad == {n \in Nat : ~UpTo(n)}
<1>1. UpTo(0)
  <2> DEFINE f == [i \in 0..0 |-> {None}]
  <2>1. f = [i \in 0..0 |-> IF i = 0 THEN {None} ELSE next(f, i)]
      OBVIOUS
  <2> QED
      BY <2>1
<1>2. ASSUME NEW n \in Nat, UpTo(n) PROVE UpTo(n + 1)
  <2>1. PICK f : f = [i \in 0..n |-> IF i = 0 THEN {None} ELSE next(f, i)]
      BY <1>2
  <2> DEFINE g == [i \in 0..(n + 1) |-> IF i \in 0..n THEN f[i] ELSE next(f, n + 1)]
  <2>2. \A i \in 0..n : g[i] = f[i]
      OBVIOUS
  <2>3. \A i \in 1..(n + 1) : g[i - 1] = f[i - 1]
      BY <2>2
  <2>4. \A i \in 1..(n + 1) : next(g, i) = next(f, i)
    <3> HIDE DEF g
    <3> QED
        BY <2>3
  <2>5. \A i \in 0..(n + 1) : g[i] = IF i = 0 THEN {None} ELSE next(f, i)
    <3> HIDE DEF next
    <3>1. \A i \in 0..n : f[i] = IF i = 0 THEN {None} ELSE next(f, i)
        BY <2>1
    <3>2. \A i \in 0..(n + 1) : i \in 0..n \/ (i = n + 1 /\ i # 0)
        OBVIOUS
    <3> QED
        BY <3>1, <3>2
  <2>6. g = [i \in 0..(n + 1) |-> IF i = 0 THEN {None} ELSE next(g, i)]
    <3>1. g = [i \in 0..(n + 1) |-> g[i]]
        OBVIOUS
    <3> HIDE DEF g, next
    <3> QED
        BY <2>4, <2>5, <3>1
  <2> QED
      BY <2>6
<1>3. Bad = {}
  <2> SUFFICES ASSUME Bad # {} PROVE FALSE
      OBVIOUS
  <2> HIDE DEF UpTo
  <2>1. Bad \in SUBSET Nat
      OBVIOUS
  <2>2. PICK m \in Bad : \A k \in Bad : m <= k
    <3> HIDE DEF Bad
    <3> QED
        BY <2>1, Least
  <2>3. m # 0 /\ m - 1 \in Nat /\ m - 1 \notin Bad
      BY <1>1, <2>2
  <2>4. UpTo(m - 1) /\ m = (m - 1) + 1
      BY <2>3
  <2>5. UpTo(m)
      BY <1>2, <2>3, <2>4
  <2> QED
      BY <2>2, <2>5
<1>4. UpTo(Len(prompt))
  <2> HIDE DEF UpTo
  <2> QED
      BY <1>3
<1> QED
    BY <1>4 DEF Reaches

\* LongestPrefix is the length of the longest chain that the index leads.
LEMMA LongestPrefixIs ==
    ASSUME NEW prompt, Len(prompt) \in Nat
    PROVE  \E f : /\ Reaches(f, prompt)
                  /\ LET S == {i \in 0..Len(prompt) : f[i] # {}}
                     IN  /\ LongestPrefix(prompt) \in S
                         /\ \A i \in S : LongestPrefix(prompt) >= i
<1> DEFINE f == CHOOSE f : Reaches(f, prompt)
           S == {i \in 0..Len(prompt) : f[i] # {}}
<1>1. LongestPrefix(prompt) = Max(S)
    BY DEF LongestPrefix, Reaches
<1>2. Reaches(f, prompt)
    BY ReachesExists
<1> HIDE DEF f
<1>3. 0 \in 0..Len(prompt) /\ f[0] = {None}
    BY <1>2, ReachesAt
<1>4. S \in SUBSET (0..Len(prompt)) /\ S # {}
    BY <1>3
<1> HIDE DEF S
<1>5. Max(S) \in S /\ \A k \in S : Max(S) >= k
    BY <1>4, MaxIs
<1> QED
    BY <1>1, <1>2, <1>5 DEF S

LEMMA PrefixIs ==
    ASSUME NEW path \in Prompts
    PROVE  /\ Len(path) \in Nat \ {0} /\ \A j \in 1..Len(path) : path[j] \in Contents
           /\ Prefix(path, Len(path)) = path
           /\ \A i \in 0..Len(path) : /\ Prefix(path, i) = [j \in 1..i |-> path[j]]
                                      /\ Len(Prefix(path, i)) = i
<1>1. PICK n \in 1..MaxDepth : path \in [1..n -> Contents]
    BY DEF Prompts
<1>2. n \in Nat \ {0} /\ Len(path) = n /\ path \in Seq(Contents) /\ path = [j \in 1..n |-> path[j]]
    BY <1>1, CatalogAssumption DEF CatalogAssumption
<1>3. ASSUME NEW i \in 0..n
      PROVE  Prefix(path, i) = [j \in 1..i |-> path[j]] /\ Len(Prefix(path, i)) = i
  <2>1. Prefix(path, i) = [j \in 1..i |-> path[j]]
      BY <1>2 DEF Prefix
  <2> QED
      BY <2>1, LenProperties
<1> QED
    BY <1>1, <1>2, <1>3

\* Two prefixes that end alike after equal prefixes are equal.
LEMMA SamePrefix ==
    ASSUME NEW p \in Prompts, NEW q \in Prompts, NEW i \in 1..Len(p), NEW j \in 1..Len(q),
           Prefix(p, i - 1) = Prefix(q, j - 1), p[i] = q[j]
    PROVE  i = j /\ Prefix(p, i) = Prefix(q, j)
<1>1. Len(p) \in Nat /\ Len(q) \in Nat
    BY PrefixIs
<1>2. i - 1 \in 0..Len(p) /\ j - 1 \in 0..Len(q) /\ i \in 0..Len(p) /\ j \in 0..Len(q)
    BY <1>1
<1>3. i - 1 = j - 1
  <2>1. Len(Prefix(p, i - 1)) = i - 1
      BY <1>2, PrefixIs
  <2>2. Len(Prefix(q, j - 1)) = j - 1
      BY <1>2, PrefixIs
  <2> QED
      BY <2>1, <2>2
<1>4. i = j
    BY <1>1, <1>3
<1>5. [k \in 1..(i - 1) |-> p[k]] = [k \in 1..(i - 1) |-> q[k]]
    BY <1>2, <1>4, PrefixIs
<1>6. \A k \in 1..(i - 1) : p[k] = q[k]
  <2> DEFINE a == [k \in 1..(i - 1) |-> p[k]]
             b == [k \in 1..(i - 1) |-> q[k]]
  <2>1. \A k \in 1..(i - 1) : a[k] = p[k] /\ b[k] = q[k]
      OBVIOUS
  <2> HIDE DEF a, b
  <2> QED
      BY <1>5, <2>1 DEF a, b
<1>7. \A k \in 1..i : p[k] = q[k]
  <2>1. \A k \in 1..i : k = i \/ k \in 1..(i - 1)
      BY <1>1
  <2> QED
      BY <1>4, <1>6, <2>1
<1>8. Prefix(p, i) = [k \in 1..i |-> p[k]] /\ Prefix(q, i) = [k \in 1..i |-> q[k]]
    BY <1>2, <1>4, PrefixIs
<1> QED
    BY <1>4, <1>7, <1>8

\* What a hash says of its block.
LEMMA HashIs ==
    ASSUME NEW h \in Hashes
    PROVE  /\ h.extra \in Extras /\ h.path \in Prompts /\ h = Hash(h.extra, h.path)
           /\ PlaceOf(h) = Place(IF Len(h.path) = 1 THEN None
                                 ELSE Hash(h.extra, Prefix(h.path, Len(h.path) - 1)),
                                 h.path[Len(h.path)])
           /\ Len(h.path) # 1 => Hash(h.extra, Prefix(h.path, Len(h.path) - 1)) \in Hashes
<1>1. h.extra \in Extras /\ h.path \in Prompts /\ h = Hash(h.extra, h.path)
    BY DEF Hashes, Hash
<1>2. PlaceOf(h) = Place(IF Len(h.path) = 1 THEN None
                         ELSE Hash(h.extra, Prefix(h.path, Len(h.path) - 1)),
                         h.path[Len(h.path)])
    BY DEF PlaceOf, Prefix
<1>3. Len(h.path) # 1 => Hash(h.extra, Prefix(h.path, Len(h.path) - 1)) \in Hashes
  <2>1. Len(h.path) \in Nat \ {0}
      BY <1>1, PrefixIs
  <2>2. Len(h.path) # 1 => Len(h.path) - 1 \in 1..Len(h.path)
    <3>1. \A n \in Nat \ {0} : n # 1 => n - 1 \in 1..n
        OBVIOUS
    <3> QED
        BY <2>1, <3>1
  <2> QED
      BY <1>1, <2>2, PrefixPlace
<1> QED
    BY <1>1, <1>2, <1>3

\* A block placed after a block of a prompt, with the next tokens of the
\* prompt, is the prompt's next block.
LEMMA NextBlock ==
    ASSUME NEW prompt \in Prompts, NEW i \in 1..Len(prompt), NEW h \in Hashes, NEW e \in Extras,
           PlaceOf(h) = Place(IF i = 1 THEN None ELSE Hash(e, Prefix(prompt, i - 1)), prompt[i])
    PROVE  h = Hash(h.extra, Prefix(prompt, i)) /\ (i # 1 => h.extra = e)
<1> DEFINE n == Len(h.path)
<1>1. /\ h.extra \in Extras /\ h.path \in Prompts /\ h = Hash(h.extra, h.path)
      /\ n \in Nat \ {0} /\ Len(prompt) \in Nat /\ Prefix(h.path, n) = h.path /\ n \in 1..n
      /\ PlaceOf(h) = Place(IF n = 1 THEN None ELSE Hash(h.extra, Prefix(h.path, n - 1)), h.path[n])
      /\ n # 1 => Hash(h.extra, Prefix(h.path, n - 1)) \in Hashes
  <2>1. n \in Nat \ {0} /\ Prefix(h.path, n) = h.path
      BY HashIs, PrefixIs
  <2>2. Len(prompt) \in Nat
      BY PrefixIs
  <2> QED
      BY <2>1, <2>2, HashIs
<1> HIDE DEF n
<1>2. i # 1 => Hash(e, Prefix(prompt, i - 1)) \in Hashes
  <2>1. i # 1 => i - 1 \in 1..Len(prompt)
      BY <1>1
  <2> QED
      BY <2>1, PrefixPlace
<1>3. /\ (IF n = 1 THEN None ELSE Hash(h.extra, Prefix(h.path, n - 1)))
            = (IF i = 1 THEN None ELSE Hash(e, Prefix(prompt, i - 1)))
      /\ h.path[n] = prompt[i]
    BY <1>1 DEF Place
<1>4. n = 1 <=> i = 1
    BY <1>1, <1>2, <1>3, CatalogAssumption DEF CatalogAssumption
<1>5. i # 1 => h.extra = e /\ Prefix(h.path, n - 1) = Prefix(prompt, i - 1)
    BY <1>3, <1>4 DEF Hash
<1>6. Prefix(h.path, n - 1) = Prefix(prompt, i - 1)
  <2>1. CASE i = 1
    <3>1. n - 1 = 0 /\ i - 1 = 0 /\ 0 \in 0..n /\ 0 \in 0..Len(prompt)
        BY <1>1, <1>4, <2>1
    <3>2. Prefix(h.path, 0) = [j \in 1..0 |-> h.path[j]] /\ Prefix(prompt, 0) = [j \in 1..0 |-> prompt[j]]
        BY <1>1, <3>1, PrefixIs DEF n
    <3>3. [j \in 1..0 |-> h.path[j]] = [j \in 1..0 |-> prompt[j]]
        OBVIOUS
    <3> QED
        BY <3>1, <3>2, <3>3
  <2> QED
      BY <1>5, <2>1
<1>7. Prefix(h.path, n) = Prefix(prompt, i)
    BY <1>1, <1>3, <1>6, SamePrefix DEF n
<1> QED
    BY <1>1, <1>5, <1>7

\* Every block of a chain is a block of the catalog that holds the prompt up
\* to there, and so are the blocks before it, with the same extra key.
LEMMA Chain ==
    ASSUME CatalogInv, NEW prompt \in Prompts, NEW f, Reaches(f, prompt)
    PROVE  \A i \in 1..Len(prompt) : \A h \in f[i] :
               \E e \in Extras : /\ h = Hash(e, Prefix(prompt, i))
                                 /\ \A j \in 1..i : Hash(e, Prefix(prompt, j)) \in DOMAIN blocks
<1> DEFINE Good(i) ==
               \A h \in f[i] :
                  \E e \in Extras : /\ h = Hash(e, Prefix(prompt, i))
                                    /\ \A j \in 1..i : Hash(e, Prefix(prompt, j)) \in DOMAIN blocks
           Bad == {i \in 1..Len(prompt) : ~Good(i)}
<1>0. Len(prompt) \in Nat
    BY PrefixIs
<1>1. ASSUME NEW i \in 1..Len(prompt), i = 1 \/ Good(i - 1) PROVE Good(i)
  <2> SUFFICES ASSUME NEW h \in f[i]
               PROVE  \E e \in Extras :
                        /\ h = Hash(e, Prefix(prompt, i))
                        /\ \A j \in 1..i : Hash(e, Prefix(prompt, j)) \in DOMAIN blocks
      OBVIOUS
  <2>1. f[i] = {index[k] : k \in {Place(p, prompt[i]) : p \in f[i - 1]} \cap DOMAIN index}
      BY <1>0, ReachesAt
  <2>2. PICK p \in f[i - 1] : Place(p, prompt[i]) \in DOMAIN index /\ h = index[Place(p, prompt[i])]
      BY <2>1
  <2>3. h \in Hashes /\ h \in DOMAIN blocks /\ PlaceOf(h) = Place(p, prompt[i])
      BY <2>2 DEF CatalogInv, TypeOK, IndexPlaced
  <2>4. CASE i = 1
    <3>1. p = None
        BY <1>0, <2>2, <2>4, ReachesAt
    <3>2. h.extra \in Extras
        BY <2>3, HashIs
    <3>3. h = Hash(h.extra, Prefix(prompt, 1))
        BY <2>3, <2>4, <3>1, <3>2, NextBlock
    <3> QED
        BY <2>3, <2>4, <3>2, <3>3
  <2>5. CASE i # 1
    <3>1. PICK e \in Extras :
            /\ p = Hash(e, Prefix(prompt, i - 1))
            /\ \A j \in 1..(i - 1) : Hash(e, Prefix(prompt, j)) \in DOMAIN blocks
        BY <1>1, <2>2, <2>5
    <3>2. h = Hash(e, Prefix(prompt, i))
        BY <2>3, <2>5, <3>1, NextBlock
    <3>3. \A j \in 1..i : j = i \/ j \in 1..(i - 1)
        BY <1>0
    <3> QED
        BY <2>3, <3>1, <3>2, <3>3
  <2> QED
      BY <2>4, <2>5
<1> HIDE DEF Good
<1>2. Bad = {}
  <2> SUFFICES ASSUME Bad # {} PROVE FALSE
      OBVIOUS
  <2>1. Bad \in SUBSET Nat
      BY <1>0
  <2>2. PICK m \in Bad : \A k \in Bad : m <= k
    <3> HIDE DEF Bad
    <3> QED
        BY <2>1, Least
  <2>3. m = 1 \/ (m - 1 \in 1..Len(prompt) /\ m - 1 \notin Bad)
      BY <1>0, <2>2
  <2>4. m = 1 \/ Good(m - 1)
      BY <2>3
  <2> QED
      BY <1>1, <2>2, <2>4
<1> QED
    BY <1>2 DEF Good

\* The prefixes that are on the GPU.
LEMMA CachedPrefixIs ==
    ASSUME NEW e, NEW path \in Prompts
    PROVE  LET S == {n \in 0..Len(path) : \A i \in 1..n : OnGpu(Hash(e, Prefix(path, i)))}
           IN  CachedPrefix(e, path) \in S /\ \A k \in S : CachedPrefix(e, path) >= k
<1> DEFINE S == {n \in 0..Len(path) : \A i \in 1..n : OnGpu(Hash(e, Prefix(path, i)))}
<1>1. Len(path) \in Nat /\ S \in SUBSET (0..Len(path)) /\ 0 \in S
    BY PrefixIs
<1>2. CachedPrefix(e, path) = Max(S)
    BY DEF CachedPrefix
<1> HIDE DEF S
<1>3. Max(S) \in S /\ \A k \in S : Max(S) >= k
    BY <1>1, MaxIs
<1> QED
    BY <1>2, <1>3 DEF S

LEMMA LookupIsCached == CatalogInv => PrefixIsCached
<1> SUFFICES ASSUME CatalogInv, NEW prompt \in Prompts
             PROVE  \E e \in Extras : LongestPrefix(prompt) <= CachedPrefix(e, prompt)
    BY DEF PrefixIsCached
<1>1. Len(prompt) \in Nat
    BY PrefixIs
<1>2. PICK f : /\ Reaches(f, prompt)
               /\ LongestPrefix(prompt) \in {i \in 0..Len(prompt) : f[i] # {}}
    BY <1>1, LongestPrefixIs
<1> DEFINE m == LongestPrefix(prompt)
<1>3. CASE m = 0
  <2>1. PICK e \in Extras : TRUE
      BY CatalogAssumption DEF CatalogAssumption
  <2>2. CachedPrefix(e, prompt) \in 0..Len(prompt)
      BY CachedPrefixIs
  <2> QED
      BY <1>1, <1>3, <2>2
<1>4. CASE m # 0
  <2>1. PICK h \in f[m] : TRUE
      BY <1>2
  <2>2. m \in 1..Len(prompt)
      BY <1>1, <1>2, <1>4
  <2>3. PICK e \in Extras : \A j \in 1..m : Hash(e, Prefix(prompt, j)) \in DOMAIN blocks
      BY <1>2, <2>1, <2>2, Chain
  <2>4. \A j \in 1..m : OnGpu(Hash(e, Prefix(prompt, j)))
      BY <2>3 DEF CatalogInv, CatalogIsOnGpu
  <2> HIDE DEF m
  <2>5. m \in {n \in 0..Len(prompt) : \A i \in 1..n : OnGpu(Hash(e, Prefix(prompt, i)))}
      BY <1>1, <2>2, <2>4
  <2>6. CachedPrefix(e, prompt) >= m
      BY <2>5, CachedPrefixIs
  <2>7. CachedPrefix(e, prompt) \in 0..Len(prompt)
      BY CachedPrefixIs
  <2> QED
      BY <1>1, <2>2, <2>6, <2>7 DEF m
<1> QED
    BY <1>3, <1>4

\* No prompt is credited with a prefix that the node does not hold: for every
\* order of stores, evictions and resets, every length of prompt and any
\* number of copies and extra keys.
THEOREM PrefixIsOnTheNode == Spec => []PrefixIsCached
    BY LookupIsCached, CatalogInvariant, PTL

-----------------------------------------------------------------------------
(* What a trusted catalog does not miss.                                   *)

\* Every block on the GPU is in the catalog and is indexed.
Complete ==
    \A h \in Hashes : OnGpu(h) =>
        h \in DOMAIN blocks /\ PlaceOf(h) \in DOMAIN index /\ index[PlaceOf(h)] = h

\* A catalog that has missed no tokens is complete while no second copy and no
\* second extra key has been on the GPU.
ExactInv ==
    /\ plain => OneCopyOneKey
    /\ status = "HEALTHY" /\ plain => Complete

LEMMA ExactInit == Init => ExactInv
    BY CatalogAssumption DEF Init, ExactInv, OneCopyOneKey, Complete, OnGpu

\* Blocks of one extra key are told apart by their places.
LEMMA PlaceTells ==
    ASSUME NEW g \in Hashes, NEW h \in Hashes, g.extra = h.extra, PlaceOf(g) = PlaceOf(h)
    PROVE  g = h
<1> DEFINE n == Len(h.path)
<1>1. /\ h.path \in Prompts /\ h.extra \in Extras /\ h = Hash(h.extra, h.path)
      /\ PlaceOf(h) = Place(IF n = 1 THEN None ELSE Hash(h.extra, Prefix(h.path, n - 1)), h.path[n])
    BY HashIs
<1>2. n \in 1..n /\ Prefix(h.path, n) = h.path
    BY <1>1, PrefixIs
<1>3. g = Hash(g.extra, Prefix(h.path, n))
  <2> DEFINE q == h.path
             e == h.extra
  <2>1. q \in Prompts /\ e \in Extras /\ n \in 1..Len(q)
      BY <1>1, <1>2
  <2>2. PlaceOf(g) = Place(IF n = 1 THEN None ELSE Hash(e, Prefix(q, n - 1)), q[n])
      BY <1>1
  <2> HIDE DEF q, e, n
  <2>3. g = Hash(g.extra, Prefix(q, n))
      BY <2>1, <2>2, NextBlock
  <2> QED
      BY <2>3 DEF q
<1> QED
    BY <1>1, <1>2, <1>3

LEMMA ExactStore ==
    ASSUME CatalogInv, ExactInv, NEW e \in Extras, NEW path \in Prompts,
           NEW n \in 0 .. Len(path) - 1, NEW cut \in {0, 1}, CacheBlocks(e, path, n, cut)
    PROVE  ExactInv'
<1> DEFINE added == {Hash(e, Prefix(path, i)) : i \in n + 1 .. Len(path)}
           parent == IF n = 0 THEN None ELSE Hash(e, Prefix(path, n))
           hashes == [i \in 1..Len(path) - n |-> Hash(e, Prefix(path, n + i))]
           contents == SubSeq(path, n + 1, Len(path) - cut)
           place(i) == Place(IF i = 1 THEN parent ELSE hashes[i - 1], contents[i])
<1>1. /\ gpu' = [h \in Hashes |-> IF h \in added THEN gpu[h] + 1 ELSE gpu[h]]
      /\ plain' = (plain /\ OneCopyOneKey')
      /\ status' = IF Len(contents) < Len(hashes) THEN "DEGRADED" ELSE status
      /\ blocks' = [h \in DOMAIN blocks \cup ({hashes[i] : i \in DOMAIN contents} \ DOMAIN blocks) |->
                       IF h \in {hashes[i] : i \in DOMAIN contents} \ DOMAIN blocks
                       THEN place(CHOOSE i \in DOMAIN contents : hashes[i] = h) ELSE blocks[h]]
      /\ index' = [k \in DOMAIN index \cup {place(i) : i \in DOMAIN contents} |->
                       IF \E i \in DOMAIN contents : place(i) = k
                       THEN hashes[CHOOSE i \in DOMAIN contents : place(i) = k] ELSE index[k]]
    BY DEF CacheBlocks, StoreEvent
<1>2. plain' => OneCopyOneKey'
    BY <1>1
<1> SUFFICES ASSUME status' = "HEALTHY", plain', NEW h \in Hashes, OnGpu(h)'
             PROVE  h \in DOMAIN blocks' /\ PlaceOf(h) \in DOMAIN index' /\ index'[PlaceOf(h)] = h
    BY <1>2 DEF ExactInv, Complete
<1>3. Complete /\ plain
    BY <1>1 DEF ExactInv
<1>4. \A g \in Hashes : OnGpu(g)' => g.extra = h.extra
    BY <1>2 DEF OneCopyOneKey
<1>5. Len(path) \in Nat /\ path \in Seq(Contents) /\ n \in Nat /\ n < Len(path)
    BY CatalogAssumption DEF Prompts, CatalogAssumption
<1>6. Len(hashes) = Len(path) - n
    BY <1>5
<1>7. DOMAIN contents = 1..(Len(path) - n)
      /\ \A i \in DOMAIN contents : hashes[i] = Hash(e, Prefix(path, n + i)) /\ hashes[i] \in added
                                    /\ n + i \in 1..Len(path)
  <2>1. Len(path) - cut \in Nat /\ Len(path) - cut <= Len(path) /\ n <= Len(path) - cut
      BY <1>5
  <2>2. contents = [i \in 1..(Len(path) - cut - n) |-> path[n + i]]
      BY <1>5, <2>1
  <2>3. Len(contents) = Len(path) - cut - n
      BY <1>5, <2>1, <2>2
  <2>4. ~(Len(contents) < Len(hashes))
      BY <1>1
  <2>5. cut = 0
    <3> HIDE DEF contents, hashes
    <3> QED
        BY <1>5, <1>6, <2>3, <2>4
  <2> QED
      BY <1>5, <2>2, <2>5
<1>8. \A i \in DOMAIN contents : place(i) = PlaceOf(hashes[i])
    BY CacheAgrees DEF Agree
<1> HIDE DEF contents, hashes, place, parent
<1>9. added \subseteq Hashes /\ \A g \in added : OnGpu(g)'
  <2>1. added \subseteq Hashes
    <3>1. \A i \in n + 1 .. Len(path) : i \in 1..Len(path)
        BY <1>5
    <3> QED
        BY <3>1, PrefixPlace
  <2>2. ASSUME NEW g \in added PROVE gpu'[g] > 0
    <3>1. gpu[g] \in Nat
        BY <2>1, CatalogAssumption DEF CatalogInv, TypeOK, CatalogAssumption
    <3>2. gpu'[g] = gpu[g] + 1
        BY <1>1, <2>1
    <3> QED
        BY <3>1, <3>2
  <2> QED
      BY <2>1, <2>2 DEF OnGpu
<1>10. \A i \in DOMAIN contents : PlaceOf(hashes[i]) = PlaceOf(h) => hashes[i] = h
    BY <1>4, <1>7, <1>9, PlaceTells
<1>11. CASE h \in added
  <2>1. PICK i \in n + 1 .. Len(path) : h = Hash(e, Prefix(path, i))
      BY <1>11
  <2>2. i - n \in DOMAIN contents /\ n + (i - n) = i
      BY <1>5, <1>7
  <2>3. h = hashes[i - n]
      BY <1>7, <2>1, <2>2
  <2>4. h \in DOMAIN blocks'
      BY <1>1, <2>2, <2>3
  <2>5. place(i - n) = PlaceOf(h)
      BY <1>8, <2>2, <2>3
  <2>6. PICK j \in DOMAIN contents :
          j = (CHOOSE k \in DOMAIN contents : place(k) = PlaceOf(h)) /\ place(j) = PlaceOf(h)
      BY <2>2, <2>5
  <2>7. PlaceOf(h) \in DOMAIN index' /\ index'[PlaceOf(h)] = hashes[j]
      BY <1>1, <2>6
  <2>8. hashes[j] = h
      BY <1>8, <1>10, <2>6
  <2> QED
      BY <2>4, <2>7, <2>8
<1>12. CASE h \notin added
  <2>1. OnGpu(h)
      BY <1>1, <1>12 DEF OnGpu
  <2>2. h \in DOMAIN blocks /\ PlaceOf(h) \in DOMAIN index /\ index[PlaceOf(h)] = h
      BY <1>3, <2>1 DEF Complete
  <2>3. \A i \in DOMAIN contents : place(i) # PlaceOf(h)
      BY <1>7, <1>8, <1>10, <1>12
  <2> QED
      BY <1>1, <2>2, <2>3
<1> QED
    BY <1>11, <1>12

LEMMA ExactStep == CatalogInv /\ ExactInv /\ [Next]_vars => ExactInv'
<1> SUFFICES ASSUME CatalogInv, ExactInv, [Next]_vars PROVE ExactInv'
    OBVIOUS
<1>1. ASSUME NEW e \in Extras, NEW path \in Prompts,
             NEW n \in 0 .. Len(path) - 1, NEW cut \in {0, 1}, CacheBlocks(e, path, n, cut)
      PROVE  ExactInv'
    BY <1>1, ExactStore
<1>2. ASSUME NEW g \in Hashes, Evict(g) PROVE ExactInv'
  <2>1. /\ blocks' = [b \in DOMAIN blocks \ {g} |-> blocks[b]]
        /\ index' = IF g \in DOMAIN blocks
                    THEN [k \in DOMAIN index \ {blocks[g]} |-> index[k]] ELSE index
        /\ status' = status /\ plain' = plain /\ OnGpu(g) /\ gpu' = [gpu EXCEPT ![g] = @ - 1]
      BY <1>2 DEF Evict, RemoveEvent
  <2>2. \A h \in Hashes : gpu[h] \in Nat /\ gpu'[h] = IF h = g THEN gpu[g] - 1 ELSE gpu[h]
      BY <2>1, CatalogAssumption DEF CatalogInv, TypeOK, CatalogAssumption
  <2>3. \A h \in Hashes : OnGpu(h)' => OnGpu(h)
      BY <2>2 DEF OnGpu
  <2>4. plain' => OneCopyOneKey'
    <3> SUFFICES ASSUME plain PROVE OneCopyOneKey'
        BY <2>1
    <3>1. /\ \A h \in Hashes : gpu[h] <= 1
          /\ \A f, h \in Hashes : OnGpu(f) /\ OnGpu(h) => f.extra = h.extra
        BY DEF ExactInv, OneCopyOneKey
    <3>2. \A h \in Hashes : gpu'[h] <= 1
        BY <2>2, <3>1
    <3> QED
        BY <2>3, <3>1, <3>2 DEF OneCopyOneKey
  <2>5. ASSUME status' = "HEALTHY", plain', NEW h \in Hashes, OnGpu(h)'
        PROVE  h \in DOMAIN blocks' /\ PlaceOf(h) \in DOMAIN index' /\ index'[PlaceOf(h)] = h
    <3>1. Complete /\ \A f \in Hashes : gpu[f] <= 1
        BY <2>1, <2>5 DEF ExactInv, OneCopyOneKey
    <3>2. h # g
      <4>1. gpu'[g] = gpu[g] - 1 /\ gpu[g] \in Nat /\ gpu[g] <= 1
          BY <2>2, <3>1
      <4> QED
          BY <2>5, <4>1 DEF OnGpu
    <3>3. /\ h \in DOMAIN blocks /\ PlaceOf(h) \in DOMAIN index /\ index[PlaceOf(h)] = h
          /\ g \in DOMAIN blocks /\ index[PlaceOf(g)] = g
        BY <2>1, <2>3, <2>5, <3>1 DEF Complete
    <3>4. blocks[g] = PlaceOf(g) /\ PlaceOf(h) # PlaceOf(g)
        BY <3>2, <3>3 DEF CatalogInv, BlocksPlaced
    <3> QED
        BY <2>1, <3>2, <3>3, <3>4
  <2> QED
      BY <2>4, <2>5 DEF ExactInv, Complete
<1>3. CASE Reset
  <2>1. \A h \in Hashes : gpu'[h] = 0
      BY <1>3 DEF Reset
  <2> QED
      BY <2>1 DEF ExactInv, OneCopyOneKey, Complete, OnGpu
<1>4. CASE UNCHANGED vars
    BY <1>4 DEF vars, ExactInv, OneCopyOneKey, Complete, OnGpu
<1> QED
    BY <1>1, <1>2, <1>3, <1>4 DEF Next

\* A complete catalog leads along the whole cached prefix of a prompt.
LEMMA LookupIsComplete ==
    ASSUME CatalogInv, Complete, NEW prompt \in Prompts, NEW e \in Extras
    PROVE  LongestPrefix(prompt) >= CachedPrefix(e, prompt)
<1> DEFINE c == CachedPrefix(e, prompt)
<1>1. Len(prompt) \in Nat
    BY PrefixIs
<1>2. PICK f : /\ Reaches(f, prompt)
               /\ \A i \in {k \in 0..Len(prompt) : f[k] # {}} : LongestPrefix(prompt) >= i
    BY <1>1, LongestPrefixIs
<1>3. c \in 0..Len(prompt) /\ \A i \in 1..c : OnGpu(Hash(e, Prefix(prompt, i)))
    BY CachedPrefixIs
<1> HIDE DEF c
<1> DEFINE at(i) == IF i = 0 THEN None ELSE Hash(e, Prefix(prompt, i))
           Bad == {i \in 0..c : at(i) \notin f[i]}
<1>4. 0 \notin Bad
    BY <1>1, <1>2, ReachesAt
<1>5. ASSUME NEW i \in 1..c, at(i - 1) \in f[i - 1] PROVE at(i) \in f[i]
  <2>1. i \in 1..Len(prompt) /\ at(i) = Hash(e, Prefix(prompt, i))
      BY <1>1, <1>3
  <2>2. at(i) \in Hashes /\ PlaceOf(at(i)) = Place(at(i - 1), prompt[i])
    <3>1. i - 1 = 0 <=> i = 1
        BY <1>1, <2>1
    <3> QED
        BY <2>1, <3>1, PrefixPlace
  <2>3. OnGpu(at(i))
      BY <1>3, <2>1
  <2>4. Place(at(i - 1), prompt[i]) \in DOMAIN index /\ index[Place(at(i - 1), prompt[i])] = at(i)
      BY <2>2, <2>3 DEF Complete
  <2>5. f[i] = {index[k] : k \in {Place(p, prompt[i]) : p \in f[i - 1]} \cap DOMAIN index}
      BY <1>1, <1>2, <2>1, ReachesAt
  <2> HIDE DEF at
  <2> QED
      BY <1>5, <2>4, <2>5
<1>6. Bad = {}
  <2> SUFFICES ASSUME Bad # {} PROVE FALSE
      OBVIOUS
  <2> HIDE DEF at
  <2>1. Bad \in SUBSET Nat
      BY <1>1, <1>3
  <2>2. PICK m \in Bad : \A k \in Bad : m <= k
    <3> HIDE DEF Bad
    <3> QED
        BY <2>1, Least
  <2>3. m \in 1..c /\ m - 1 \in 0..c /\ m - 1 \notin Bad
      BY <1>1, <1>3, <1>4, <2>2
  <2>4. at(m - 1) \in f[m - 1]
      BY <2>3
  <2> QED
      BY <1>5, <2>2, <2>3, <2>4
<1>7. c \in {k \in 0..Len(prompt) : f[k] # {}}
  <2>1. c \notin Bad /\ c \in 0..c
      BY <1>1, <1>3, <1>6
  <2> QED
      BY <1>3, <2>1
<1> QED
    BY <1>2, <1>7 DEF c

\* A catalog in state HEALTHY finds the whole cached prefix of every prompt,
\* as long as one extra key and one copy of each block are on the GPU.
THEOREM LookupIsExact == Spec => []PrefixIsExact
<1>1. CatalogInv /\ ExactInv => PrefixIsExact
  <2> SUFFICES ASSUME CatalogInv, Complete, NEW prompt \in Prompts
               PROVE  LongestPrefix(prompt) = Max({CachedPrefix(e, prompt) : e \in Extras})
      BY DEF PrefixIsExact, ExactInv
  <2> DEFINE C == {CachedPrefix(e, prompt) : e \in Extras}
  <2>1. Len(prompt) \in Nat
      BY PrefixIs
  <2>2. C \in SUBSET (0..Len(prompt)) /\ C # {}
      BY CachedPrefixIs, CatalogAssumption DEF CatalogAssumption
  <2>3. Max(C) \in C /\ \A k \in C : Max(C) >= k
    <3> HIDE DEF C
    <3> QED
        BY <2>1, <2>2, MaxIs
  <2>4. \A k \in C : LongestPrefix(prompt) >= k
      BY LookupIsComplete
  <2>5. \E k \in C : LongestPrefix(prompt) <= k
      BY LookupIsCached DEF PrefixIsCached
  <2>6. LongestPrefix(prompt) \in 0..Len(prompt)
      BY <2>1, LongestPrefixIs
  <2>7. PICK k \in C : LongestPrefix(prompt) <= k
      BY <2>5
  <2> HIDE DEF C
  <2>8. Max(C) >= k /\ LongestPrefix(prompt) >= Max(C)
      BY <2>3, <2>4
  <2>9. Max(C) \in Int /\ k \in Int /\ LongestPrefix(prompt) \in Int
    <3>1. \A x \in 0..Len(prompt) : x \in Int
        BY <2>1
    <3> QED
        BY <2>2, <2>3, <2>6, <3>1
  <2>10. ASSUME NEW x \in Int, NEW y \in Int, NEW z \in Int, x <= z, y >= z, x >= y PROVE x = y
      BY <2>10
  <2>11. LongestPrefix(prompt) = Max(C)
      BY <2>7, <2>8, <2>9, <2>10
  <2> QED
      BY <2>11 DEF C
<1>2. CatalogInv /\ ExactInv /\ [Next]_vars => ExactInv'
    BY ExactStep
<1>3. Spec => []ExactInv
    BY <1>2, ExactInit, CatalogInvariant, PTL DEF Spec
<1> QED
    BY <1>1, <1>3, CatalogInvariant, PTL
=============================================================================
