------------------------ MODULE Verification_proofs ------------------------
(***************************************************************************)
(* The Merkle whitelist verifies its members and nobody else, and metadata *)
(* claims nothing without signatures: for whitelists of any size, proofs   *)
(* of any length and all metadata.                                         *)
(***************************************************************************)
EXTENDS Verification, FiniteSetTheorems, TLAPS

-----------------------------------------------------------------------------
(* Induction, over sets of numbers *)

LEMMA NatSetInduction ==
    ASSUME NEW S, 0 \in S, \A n \in Nat : n \in S => n + 1 \in S
    PROVE  Nat \subseteq S
<1> DEFINE R == {p \in Nat \X Nat : p[1] < p[2]}
           T == Nat \ S
<1>1. IsWellFoundedOn(R, Nat)
  <2>1. OpToRel(<, Nat) = R
    BY DEF OpToRel
  <2> QED
    BY <2>1, NatLessThanWellFounded
<1>2. SUFFICES ASSUME T # {} PROVE FALSE
  OBVIOUS
<1> HIDE DEF R
<1>3. PICK n \in T : \A k \in T : ~(<<k, n>> \in R)
  BY <1>1, <1>2, WFMin, Zenon
<1>4. n \in Nat /\ n \notin S /\ n # 0
  BY <1>3
<1>5. n - 1 \in T
  <2>1. n - 1 \in Nat /\ (n - 1) + 1 = n
    BY <1>4
  <2> QED
    BY <1>4, <2>1
<1>6. <<n - 1, n>> \in R
  BY <1>4, <1>5 DEF R
<1> QED
  BY <1>3, <1>5, <1>6

\* The same from any number up to any other.
LEMMA IntervalInduction ==
    ASSUME NEW m \in Nat, NEW n \in Nat, NEW S,
           m \in S, \A i \in m..(n - 1) : i \in S => i + 1 \in S
    PROVE  m..n \subseteq S
<1> DEFINE T == {k \in Nat : m + k <= n => m + k \in S}
<1>1. 0 \in T
  OBVIOUS
<1>2. ASSUME NEW k \in Nat, k \in T PROVE k + 1 \in T
  <2>1. SUFFICES ASSUME m + (k + 1) <= n PROVE m + (k + 1) \in S
    OBVIOUS
  <2>2. m + k \in m..(n - 1) /\ m + k \in S
    BY <1>2, <2>1
  <2> QED
    BY <2>2
<1>3. Nat \subseteq T
  <2> HIDE DEF T
  <2> QED
    BY <1>1, <1>2, NatSetInduction
<1>4. ASSUME NEW i \in m..n PROVE i \in S
  <2>1. i - m \in Nat /\ m + (i - m) = i
    OBVIOUS
  <2> QED
    BY <1>3, <2>1
<1> QED
  BY <1>4

-----------------------------------------------------------------------------
(* The recursive functions are defined *)

LEMMA ComputedHashesDefined ==
    ASSUME NEW proof, NEW leaf, Len(proof) \in Nat
    PROVE  ComputedHashes(proof, leaf) =
               [i \in 0..Len(proof) |->
                   IF i = 0 THEN leaf
                   ELSE HashPair(ComputedHashes(proof, leaf)[i - 1], proof[i])]
<1> DEFINE F(h, k) == [i \in 0..k |-> IF i = 0 THEN leaf ELSE HashPair(h[i - 1], proof[i])]
           S == {k \in Nat : \E h : h = F(h, k)}
<1>1. 0 \in S
  <2>1. [i \in 0..0 |-> leaf] = F([i \in 0..0 |-> leaf], 0)
    OBVIOUS
  <2> QED
    BY <2>1
<1>2. ASSUME NEW k \in Nat, k \in S PROVE k + 1 \in S
  <2>1. PICK h : h = F(h, k)
    BY <1>2
  <2> DEFINE g == [i \in 0..(k + 1) |-> IF i <= k THEN h[i] ELSE HashPair(h[k], proof[k + 1])]
  <2>2. ASSUME NEW i \in 0..(k + 1)
        PROVE  g[i] = IF i = 0 THEN leaf ELSE HashPair(g[i - 1], proof[i])
    <3>1. CASE i = 0
      BY <2>1, <3>1
    <3>2. CASE i \in 1..k
      BY <2>1, <3>2
    <3>3. CASE i = k + 1
      BY <2>1, <3>3
    <3> QED
      BY <3>1, <3>2, <3>3
  <2>3. g = [i \in 0..(k + 1) |-> g[i]]
    OBVIOUS
  <2> HIDE DEF g
  <2>4. g = F(g, k + 1)
    BY <2>2, <2>3
  <2> QED
    BY <2>4
<1>3. Nat \subseteq S
  <2> HIDE DEF S
  <2> QED
    BY <1>1, <1>2, NatSetInduction
<1>4. \E h : h = F(h, Len(proof))
  <2>1. Len(proof) \in S
    BY <1>3
  <2> HIDE DEF F
  <2> QED
    BY <2>1
<1> QED
  BY <1>4 DEF ComputedHashes

LEMMA MerkleLayersDefined ==
    ASSUME NEW leaves, Len(leaves) \in Nat
    PROVE  MerkleLayers(leaves) =
               [k \in 1..Len(leaves) |->
                   IF k = 1 THEN leaves
                   ELSE LayerAbove(MerkleLayers(leaves)[k - 1])]
<1> DEFINE F(h, m) ==
               [k \in 1..m |->
                   IF k = 1 THEN leaves
                   ELSE LayerAbove(h[k - 1])]
           S == {m \in Nat : \E h : h = F(h, m)}
<1>1. 0 \in S
  <2>1. [k \in 1..0 |-> leaves] = F([k \in 1..0 |-> leaves], 0)
    OBVIOUS
  <2> QED
    BY <2>1
<1>2. ASSUME NEW m \in Nat, m \in S PROVE m + 1 \in S
  <2>1. PICK h : h = F(h, m)
    BY <1>2
  <2> DEFINE g == [k \in 1..(m + 1) |->
                      IF k <= m THEN h[k]
                      ELSE IF m + 1 = 1 THEN leaves
                      ELSE LayerAbove(h[m])]
  <2>2. ASSUME NEW k \in 1..(m + 1)
        PROVE  g[k] = IF k = 1 THEN leaves
                      ELSE LayerAbove(g[k - 1])
    <3>1. CASE k = 1
      BY <2>1, <3>1
    <3>2. CASE k \in (1 + 1)..m
      BY <2>1, <3>2
    <3>3. CASE k = m + 1
      BY <2>1, <3>3
    <3> QED
      BY <3>1, <3>2, <3>3
  <2>3. g = [k \in 1..(m + 1) |-> g[k]]
    OBVIOUS
  <2> HIDE DEF g
  <2>4. g = F(g, m + 1)
    BY <2>2, <2>3
  <2> QED
    BY <2>4
<1>3. Nat \subseteq S
  <2> HIDE DEF S
  <2> QED
    BY <1>1, <1>2, NatSetInduction
<1>4. \E h : h = F(h, Len(leaves))
  <2>1. Len(leaves) \in S
    BY <1>3
  <2> HIDE DEF F
  <2> QED
    BY <2>1
<1> QED
  BY <1>4 DEF MerkleLayers

LEMMA PositionsDefined ==
    ASSUME NEW leaves, NEW i, Len(leaves) \in Nat
    PROVE  Positions(leaves, i) =
               [k \in 1..Len(leaves) |->
                   IF k = 1 THEN i
                   ELSE (Positions(leaves, i)[k - 1] + 1) \div 2]
<1> DEFINE F(h, m) ==
               [k \in 1..m |->
                   IF k = 1 THEN i
                   ELSE (h[k - 1] + 1) \div 2]
           S == {m \in Nat : \E h : h = F(h, m)}
<1>1. 0 \in S
  <2>1. [k \in 1..0 |-> i] = F([k \in 1..0 |-> i], 0)
    OBVIOUS
  <2> QED
    BY <2>1
<1>2. ASSUME NEW m \in Nat, m \in S PROVE m + 1 \in S
  <2>1. PICK h : h = F(h, m)
    BY <1>2
  <2> DEFINE g == [k \in 1..(m + 1) |->
                      IF k <= m THEN h[k]
                      ELSE IF m + 1 = 1 THEN i
                      ELSE (h[m] + 1) \div 2]
  <2>2. ASSUME NEW k \in 1..(m + 1)
        PROVE  g[k] = IF k = 1 THEN i
                      ELSE (g[k - 1] + 1) \div 2
    <3>1. CASE k = 1
      BY <2>1, <3>1
    <3>2. CASE k \in (1 + 1)..m
      BY <2>1, <3>2
    <3>3. CASE k = m + 1
      BY <2>1, <3>3
    <3> QED
      BY <3>1, <3>2, <3>3
  <2>3. g = [k \in 1..(m + 1) |-> g[k]]
    OBVIOUS
  <2> HIDE DEF g
  <2>4. g = F(g, m + 1)
    BY <2>2, <2>3
  <2> QED
    BY <2>4
<1>3. Nat \subseteq S
  <2> HIDE DEF S
  <2> QED
    BY <1>1, <1>2, NatSetInduction
<1>4. \E h : h = F(h, Len(leaves))
  <2>1. Len(leaves) \in S
    BY <1>3
  <2> HIDE DEF F
  <2> QED
    BY <2>1
<1> QED
  BY <1>4 DEF Positions

LEMMA MerkleProofsDefined ==
    ASSUME NEW leaves, NEW i, Len(leaves) \in Nat
    PROVE  MerkleProofs(leaves, i) =
               [k \in 0..Len(leaves) |->
                   IF k = 0 THEN <<>>
                   ELSE WithSibling(MerkleProofs(leaves, i)[k - 1], MerkleLayers(leaves)[k], Positions(leaves, i)[k])]
<1> DEFINE F(h, m) ==
               [k \in 0..m |->
                   IF k = 0 THEN <<>>
                   ELSE WithSibling(h[k - 1], MerkleLayers(leaves)[k], Positions(leaves, i)[k])]
           S == {m \in Nat : \E h : h = F(h, m)}
<1>1. 0 \in S
  <2>1. [k \in 0..0 |-> <<>>] = F([k \in 0..0 |-> <<>>], 0)
    OBVIOUS
  <2> QED
    BY <2>1
<1>2. ASSUME NEW m \in Nat, m \in S PROVE m + 1 \in S
  <2>1. PICK h : h = F(h, m)
    BY <1>2
  <2> DEFINE g == [k \in 0..(m + 1) |->
                      IF k <= m THEN h[k]
                      ELSE IF m + 1 = 0 THEN <<>>
                      ELSE WithSibling(h[m], MerkleLayers(leaves)[m + 1], Positions(leaves, i)[m + 1])]
  <2>2. ASSUME NEW k \in 0..(m + 1)
        PROVE  g[k] = IF k = 0 THEN <<>>
                      ELSE WithSibling(g[k - 1], MerkleLayers(leaves)[k], Positions(leaves, i)[k])
    <3>1. CASE k = 0
      BY <2>1, <3>1
    <3>2. CASE k \in (0 + 1)..m
      BY <2>1, <3>2
    <3>3. CASE k = m + 1
      BY <2>1, <3>3
    <3> QED
      BY <3>1, <3>2, <3>3
  <2>3. g = [k \in 0..(m + 1) |-> g[k]]
    OBVIOUS
  <2> HIDE DEF g
  <2>4. g = F(g, m + 1)
    BY <2>2, <2>3
  <2> QED
    BY <2>4
<1>3. Nat \subseteq S
  <2> HIDE DEF S
  <2> QED
    BY <1>1, <1>2, NatSetInduction
<1>4. \E h : h = F(h, Len(leaves))
  <2>1. Len(leaves) \in S
    BY <1>3
  <2> HIDE DEF F
  <2> QED
    BY <2>1
<1> QED
  BY <1>4 DEF MerkleProofs

-----------------------------------------------------------------------------
(* The layers of a tree *)

\* A sequence that is not empty.
IsLayer(layer) ==
    /\ Len(layer) \in Nat \ {0}
    /\ layer = [i \in 1..Len(layer) |-> layer[i]]

\* Half a layer, rounded up.
LEMMA Half ==
    ASSUME NEW l \in Nat
    PROVE  /\ (l + 1) \div 2 \in Nat
           /\ l <= 2 * ((l + 1) \div 2) /\ 2 * ((l + 1) \div 2) <= l + 1
           /\ \A i \in 1..((l + 1) \div 2) : 2 * i - 1 \in 1..l
OBVIOUS

LEMMA LayerAboveIsLayer ==
    ASSUME NEW layer, IsLayer(layer)
    PROVE  /\ IsLayer(LayerAbove(layer))
           /\ Len(LayerAbove(layer)) = (Len(layer) + 1) \div 2
<1> DEFINE m == (Len(layer) + 1) \div 2
           up == LayerAbove(layer)
<1>1. m \in Nat \ {0}
  BY DEF IsLayer
<1>2. up = [i \in 1..m |-> up[i]]
  BY DEF LayerAbove
<1> HIDE DEF m, up
<1>3. up \in Seq({up[i] : i \in 1..m}) /\ Len(up) = m
  BY <1>1, <1>2
<1> QED
  BY <1>1, <1>2, <1>3 DEF IsLayer, m, up

\* Each layer is shorter than the one below, down to one digest.
LEMMA LayersShape ==
    ASSUME NEW leaves, IsLayer(leaves), NEW k \in 1..Len(leaves)
    PROVE  /\ IsLayer(MerkleLayers(leaves)[k])
           /\ Len(MerkleLayers(leaves)[k]) <= Len(leaves) - k + 1
           /\ k = 1 => MerkleLayers(leaves)[k] = leaves
           /\ k # 1 => MerkleLayers(leaves)[k] = LayerAbove(MerkleLayers(leaves)[k - 1])
<1> DEFINE n == Len(leaves)
           layers == MerkleLayers(leaves)
           S == {j \in 1..n : IsLayer(layers[j]) /\ Len(layers[j]) <= n - j + 1}
<1>1. n \in Nat \ {0}
  BY DEF IsLayer
<1>2. \A j \in 1..n : layers[j] = IF j = 1 THEN leaves ELSE LayerAbove(layers[j - 1])
  <2>1. layers = [j \in 1..n |-> IF j = 1 THEN leaves ELSE LayerAbove(layers[j - 1])]
    BY <1>1, MerkleLayersDefined
  <2> HIDE DEF layers
  <2> QED
    BY <2>1
<1> HIDE DEF layers, n
<1>3. 1 \in S
  BY <1>1, <1>2 DEF n
<1>4. ASSUME NEW j \in 1..(n - 1), j \in S PROVE j + 1 \in S
  <2>1. j + 1 \in 1..n /\ (j + 1) - 1 = j /\ j + 1 # 1
    BY <1>1
  <2>2. layers[j + 1] = LayerAbove(layers[j])
    BY <1>2, <2>1
  <2>3. IsLayer(layers[j + 1]) /\ Len(layers[j + 1]) = (Len(layers[j]) + 1) \div 2
    BY <1>4, <2>2, LayerAboveIsLayer
  <2>4. Len(layers[j]) \in Nat /\ Len(layers[j]) <= n - j + 1 /\ n - j >= 1
    BY <1>1, <1>4 DEF IsLayer
  <2>5. (Len(layers[j]) + 1) \div 2 <= n - (j + 1) + 1
    <3> DEFINE l == Len(layers[j])
               q == (l + 1) \div 2
    <3>1. q \in Nat /\ l \in Nat /\ 2 * q <= l + 1
      BY <2>4, Half
    <3>2. l <= n - j + 1 /\ n - j >= 1 /\ n \in Nat /\ j \in Nat
      BY <1>1, <2>4
    <3> HIDE DEF q, l
    <3>3. q <= n - (j + 1) + 1
      BY <3>1, <3>2
    <3> QED
      BY <3>3 DEF q, l
  <2> QED
    BY <2>1, <2>3, <2>5
<1>5. 1..n \subseteq S
  <2> HIDE DEF S
  <2> QED
    BY <1>1, <1>3, <1>4, IntervalInduction
<1> QED
  BY <1>2, <1>5 DEF n, layers

\* The last layer is the root.
LEMMA RootAlone ==
    ASSUME NEW leaves, IsLayer(leaves)
    PROVE  Len(MerkleLayers(leaves)[Len(leaves)]) = 1
<1> DEFINE n == Len(leaves)
           top == Len(MerkleLayers(leaves)[n])
<1>1. n \in 1..n /\ n \in Nat
  BY DEF IsLayer
<1>2. top \in Nat \ {0} /\ top <= n - n + 1
  BY <1>1, LayersShape DEF IsLayer
<1> HIDE DEF n, top
<1>3. top = 1
  BY <1>1, <1>2
<1> QED
  BY <1>3 DEF n, top

-----------------------------------------------------------------------------
(* No mint but those of the whitelist is verified *)

\* The digests of a tree are leaves, or hashes of two of them.
LEMMA TreeClosed ==
    ASSUME NEW leaves, IsLayer(leaves), NEW d \in TreeDigests(leaves)
    PROVE  \/ d \in Range(leaves)
           \/ \E a, b \in TreeDigests(leaves) : d = NodeHash(a, b)
<1> DEFINE n == Len(leaves)
           layers == MerkleLayers(leaves)
           T == TreeDigests(leaves)
           C == {c \in T : c \in Range(leaves) \/ \E a, b \in T : c = NodeHash(a, b)}
           S == {k \in 1..n : Range(layers[k]) \subseteq C}
<1>1. n \in Nat \ {0}
  BY DEF IsLayer
<1>2. DOMAIN layers = 1..n
  BY <1>1, MerkleLayersDefined
<1>3. \A k \in 1..n : Range(layers[k]) \subseteq T
  BY <1>2 DEF TreeDigests, Range
<1>4. 1 \in S
  <2>1. 1 \in 1..n /\ layers[1] = leaves
    BY <1>1, LayersShape
  <2> QED
    BY <1>3, <2>1
<1>5. ASSUME NEW k \in 1..(n - 1), k \in S PROVE k + 1 \in S
  <2>1. k + 1 \in 1..n /\ k \in 1..n /\ (k + 1) - 1 = k /\ k + 1 # 1
    BY <1>1
  <2>2. IsLayer(layers[k]) /\ layers[k + 1] = LayerAbove(layers[k])
    BY <2>1, LayersShape
  <2> DEFINE low == layers[k]
  <2>3. ASSUME NEW i \in DOMAIN LayerAbove(low) PROVE LayerAbove(low)[i] \in C
    <3>1. i \in 1..((Len(low) + 1) \div 2) /\ Len(low) \in Nat /\ DOMAIN low = 1..Len(low)
      BY <2>2 DEF LayerAbove, IsLayer
    <3>2. 2 * i - 1 \in DOMAIN low
      <4>1. 2 * i - 1 \in 1..Len(low)
        BY <3>1, Half
      <4> QED
        BY <3>1, <4>1
    <3>3. LayerAbove(low)[i] = IF 2 * i <= Len(low)
                               THEN MerklePair(low[2 * i - 1], low[2 * i])
                               ELSE low[2 * i - 1]
      BY <3>1 DEF LayerAbove
    <3>4. LayerAbove(low)[i] \in T
      BY <1>3, <2>1, <2>2, <2>3 DEF Range
    <3>5. CASE 2 * i <= Len(low)
      <4>1. 2 * i \in DOMAIN low
        BY <3>1, <3>5
      <4>2. low[2 * i - 1] \in T /\ low[2 * i] \in T
        BY <1>3, <2>1, <3>2, <4>1 DEF Range
      <4> QED
        BY <3>3, <3>4, <3>5, <4>2 DEF MerklePair
    <3>6. CASE ~(2 * i <= Len(low))
      BY <1>5, <3>2, <3>3, <3>6 DEF Range
    <3> QED
      BY <3>5, <3>6
  <2> QED
    BY <2>1, <2>2, <2>3 DEF Range
<1>6. 1..n \subseteq S
  <2> HIDE DEF S
  <2> QED
    BY <1>1, <1>4, <1>5, IntervalInduction
<1>7. PICK k \in 1..n : d \in Range(layers[k])
  BY <1>2 DEF TreeDigests, Range
<1> QED
  BY <1>6, <1>7

LEMMA RootInTree ==
    ASSUME NEW leaves, IsLayer(leaves)
    PROVE  MerkleRoot(leaves) \in TreeDigests(leaves)
<1> DEFINE layers == MerkleLayers(leaves)
           n == Len(leaves)
<1>1. n \in 1..n /\ DOMAIN layers = 1..n
  BY MerkleLayersDefined DEF IsLayer
<1>2. 1 \in DOMAIN layers[n]
  <2>1. IsLayer(layers[n])
    BY <1>1, LayersShape
  <2> HIDE DEF layers
  <2> QED
    BY <2>1 DEF IsLayer
<1> QED
  BY <1>1, <1>2 DEF MerkleRoot, TreeDigests, Range

\* A proof can only go up from a digest of the tree to another.
LEMMA OnlyMembers ==
    ASSUME NEW leaves, IsLayer(leaves), NEW M, Range(leaves) \subseteq LeafHashes(M),
           NEW mint, NEW proof, Len(proof) \in Nat,
           verify_proof(proof, MerkleRoot(leaves), LeafHash(mint))
    PROVE  mint \in M
<1> DEFINE T == TreeDigests(leaves)
           h == ComputedHashes(proof, LeafHash(mint))
           n == Len(proof)
           S == {i \in 0..n : h[n - i] \in T}
<1>1. \A i \in 0..n : h[i] = IF i = 0 THEN LeafHash(mint) ELSE HashPair(h[i - 1], proof[i])
  <2>1. h = [i \in 0..n |-> IF i = 0 THEN LeafHash(mint) ELSE HashPair(h[i - 1], proof[i])]
    BY ComputedHashesDefined
  <2> HIDE DEF h
  <2> QED
    BY <2>1
<1>2. \A m, a, b : LeafHash(m) # NodeHash(a, b)
  BY DEF LeafHash, NodeHash
<1>3. 0 \in S
  BY RootInTree DEF verify_proof, ComputedHash
<1>4. ASSUME NEW i \in 0..(n - 1), i \in S PROVE i + 1 \in S
  <2> DEFINE j == n - i
  <2>1. j \in 0..n /\ j # 0 /\ j - 1 = n - (i + 1) /\ i + 1 \in 0..n
    OBVIOUS
  <2>2. h[j] = HashPair(h[j - 1], proof[j]) /\ h[j] \in T
    BY <1>1, <1>4, <2>1
  <2> HIDE DEF j, h, T
  <2>3. h[j] \notin Range(leaves)
    BY <1>2, <2>2 DEF LeafHashes, HashPair
  <2>4. PICK a, b \in T : h[j] = NodeHash(a, b)
    BY <2>2, <2>3, TreeClosed DEF T
  <2>5. h[j - 1] \in T
    BY <2>2, <2>4 DEF HashPair, NodeHash
  <2> QED
    BY <2>1, <2>5
<1>5. 0..n \subseteq S
  <2> HIDE DEF S
  <2> QED
    BY <1>3, <1>4, IntervalInduction
<1>6. LeafHash(mint) \in T
  <2>1. n \in S /\ n - n = 0
    BY <1>5
  <2> HIDE DEF h
  <2> QED
    BY <1>1, <2>1
<1>7. LeafHash(mint) \in LeafHashes(M)
  BY <1>2, <1>6, TreeClosed
<1> QED
  BY <1>7 DEF LeafHashes, LeafHash

-----------------------------------------------------------------------------
(* Every mint of the whitelist is verified by its proof *)

LEMMA ComputedHashOfNone ==
    ASSUME NEW leaf
    PROVE  ComputedHash(<<>>, leaf) = leaf
BY ComputedHashesDefined DEF ComputedHash

\* One more element is one more hash.
LEMMA ComputedHashAppend ==
    ASSUME NEW D, NEW proof \in Seq(D), NEW x \in D, NEW leaf
    PROVE  ComputedHash(Append(proof, x), leaf) = HashPair(ComputedHash(proof, leaf), x)
<1> DEFINE n == Len(proof)
           longer == Append(proof, x)
           g == ComputedHashes(proof, leaf)
           h == ComputedHashes(longer, leaf)
           S == {i \in 0..n : g[i] = h[i]}
<1>1. /\ n \in Nat /\ Len(longer) = n + 1 /\ longer[n + 1] = x
      /\ \A i \in 1..n : longer[i] = proof[i]
  OBVIOUS
<1>2. g = [i \in 0..n |-> IF i = 0 THEN leaf ELSE HashPair(g[i - 1], proof[i])]
  BY <1>1, ComputedHashesDefined
<1>3. h = [i \in 0..(n + 1) |-> IF i = 0 THEN leaf ELSE HashPair(h[i - 1], longer[i])]
  <2>1. Len(longer) \in Nat
    BY <1>1
  <2>2. h = [i \in 0..Len(longer) |->
                IF i = 0 THEN leaf ELSE HashPair(h[i - 1], longer[i])]
    BY <2>1, ComputedHashesDefined
  <2> HIDE DEF h, longer, n
  <2> QED
    BY <1>1, <2>2
<1> HIDE DEF g, h, n, longer
<1>4. /\ \A i \in 0..n : g[i] = IF i = 0 THEN leaf ELSE HashPair(g[i - 1], proof[i])
      /\ \A i \in 0..(n + 1) : h[i] = IF i = 0 THEN leaf ELSE HashPair(h[i - 1], longer[i])
  BY <1>2, <1>3
<1>5. 0 \in S
  BY <1>1, <1>4
<1>6. ASSUME NEW i \in 0..(n - 1), i \in S PROVE i + 1 \in S
  <2>1. i + 1 \in 1..n /\ i + 1 \in 0..n /\ i + 1 \in 0..(n + 1) /\ (i + 1) - 1 = i
        /\ i + 1 # 0
    BY <1>1
  <2> QED
    BY <1>1, <1>4, <1>6, <2>1
<1>7. 0..n \subseteq S
  <2> HIDE DEF S
  <2> QED
    BY <1>1, <1>5, <1>6, IntervalInduction
<1>8. g[n] = h[n]
  BY <1>1, <1>7
<1>9. h[n + 1] = HashPair(h[n], x)
  BY <1>1, <1>4
<1> QED
  BY <1>1, <1>8, <1>9 DEF ComputedHash, g, h, n, longer

\* The digest above one of a layer is what it hashes to with its sibling, on
\* either side, or itself if it has none.
LEMMA ParentHash ==
    ASSUME NEW low, IsLayer(low), NEW p \in 1..Len(low),
           \A a \in Range(low) : Bytes(a) \in Nat,
           \A a, b \in Range(low) : Bytes(a) = Bytes(b) => a = b
    PROVE  LET q == (p + 1) \div 2
           IN  /\ q \in 1..Len(LayerAbove(low))
               /\ Sibling(p) <= Len(low) => /\ low[Sibling(p)] \in Range(low)
                                            /\ LayerAbove(low)[q] =
                                                   HashPair(low[p], low[Sibling(p)])
               /\ ~(Sibling(p) <= Len(low)) => LayerAbove(low)[q] = low[p]
<1> DEFINE l == Len(low)
           q == (p + 1) \div 2
<1>1. l \in Nat \ {0} /\ DOMAIN low = 1..l /\ p \in 1..l
  BY DEF IsLayer
<1>2. /\ q \in 1..((l + 1) \div 2)
      /\ Sibling(p) >= 1
      /\ \/ Sibling(p) = p + 1 /\ 2 * q = p + 1
         \/ Sibling(p) = p - 1 /\ 2 * q = p
  BY <1>1 DEF Sibling
<1>3. q \in 1..Len(LayerAbove(low))
  BY <1>2, LayerAboveIsLayer
<1>4. LayerAbove(low)[q] = IF 2 * q <= l THEN MerklePair(low[2 * q - 1], low[2 * q])
                           ELSE low[2 * q - 1]
  BY <1>2 DEF LayerAbove
<1>5. q \in Int
  BY <1>2
<1> HIDE DEF q, l
<1>6. ASSUME Sibling(p) <= l
      PROVE  /\ low[Sibling(p)] \in Range(low)
             /\ LayerAbove(low)[q] = HashPair(low[p], low[Sibling(p)])
  <2>1. Sibling(p) \in DOMAIN low /\ p \in DOMAIN low
    BY <1>1, <1>2, <1>5, <1>6
  <2>2. low[Sibling(p)] \in Range(low) /\ low[p] \in Range(low)
    BY <2>1 DEF Range
  <2>3. \/ LayerAbove(low)[q] = MerklePair(low[p], low[Sibling(p)])
        \/ LayerAbove(low)[q] = MerklePair(low[Sibling(p)], low[p])
    BY <1>1, <1>2, <1>4, <1>5, <1>6
  <2>4. ASSUME NEW a \in Range(low), NEW b \in Range(low)
        PROVE  MerklePair(a, b) = HashPair(a, b) /\ MerklePair(b, a) = HashPair(a, b)
    <3>1. Bytes(a) \in Nat /\ Bytes(b) \in Nat /\ (Bytes(a) = Bytes(b) => a = b)
      OBVIOUS
    <3> QED
      BY <3>1 DEF MerklePair, HashPair, NotAfter
  <2> QED
    BY <2>2, <2>3, <2>4
<1>7. ASSUME ~(Sibling(p) <= l) PROVE LayerAbove(low)[q] = low[p]
  BY <1>1, <1>2, <1>4, <1>5, <1>7
<1> QED
  BY <1>3, <1>6, <1>7 DEF q, l

\* Leaf i is verified by the siblings on its way to the root.
LEMMA MembersVerified ==
    ASSUME NEW leaves, IsLayer(leaves), NEW i \in 1..Len(leaves),
           \A a \in TreeDigests(leaves) : Bytes(a) \in Nat,
           \A a, b \in TreeDigests(leaves) : Bytes(a) = Bytes(b) => a = b
    PROVE  verify_proof(MerkleProof(leaves, i), MerkleRoot(leaves), leaves[i])
<1> DEFINE n == Len(leaves)
           T == TreeDigests(leaves)
           layers == MerkleLayers(leaves)
           position == Positions(leaves, i)
           proofs == MerkleProofs(leaves, i)
           Reached(k) == /\ position[k] \in 1..Len(layers[k])
                         /\ proofs[k - 1] \in Seq(T)
                         /\ ComputedHash(proofs[k - 1], leaves[i]) = layers[k][position[k]]
           S == {k \in 1..n : Reached(k)}
<1>1. n \in Nat \ {0} /\ DOMAIN layers = 1..n
  BY MerkleLayersDefined DEF IsLayer
<1>2. \A k \in 1..n : position[k] = IF k = 1 THEN i ELSE (position[k - 1] + 1) \div 2
  <2>1. position = [k \in 1..n |-> IF k = 1 THEN i ELSE (position[k - 1] + 1) \div 2]
    BY <1>1, PositionsDefined
  <2> HIDE DEF position
  <2> QED
    BY <2>1
<1>3. \A k \in 0..n : proofs[k] = IF k = 0 THEN <<>>
                                   ELSE WithSibling(proofs[k - 1], layers[k], position[k])
  <2>1. proofs = [k \in 0..n |-> IF k = 0 THEN <<>>
                                 ELSE WithSibling(proofs[k - 1], layers[k], position[k])]
    BY <1>1, MerkleProofsDefined
  <2> HIDE DEF proofs
  <2> QED
    BY <2>1
<1>4. \A k \in 1..n : IsLayer(layers[k]) /\ Range(layers[k]) \subseteq T
  <2>1. \A k \in 1..n : IsLayer(layers[k])
    BY LayersShape
  <2>2. \A k \in 1..n : Range(layers[k]) \subseteq T
    BY <1>1 DEF TreeDigests, Range
  <2> QED
    BY <2>1, <2>2
<1>5. 1 \in S
  <2>1. 1 \in 1..n /\ 0 \in 0..n /\ 1 - 1 = 0
    BY <1>1
  <2>2. layers[1] = leaves
    BY <2>1, LayersShape
  <2>3. position[1] = i /\ proofs[0] = <<>>
    <3> HIDE DEF layers, position, proofs
    <3> QED
      BY <1>2, <1>3, <2>1
  <2>4. ComputedHash(<<>>, leaves[i]) = leaves[i] /\ <<>> \in Seq(T)
    BY ComputedHashOfNone
  <2> HIDE DEF T, layers, position, proofs
  <2>5. Reached(1)
    BY <2>1, <2>2, <2>3, <2>4
  <2> QED
    BY <2>1, <2>5
<1>6. ASSUME NEW k \in 1..(n - 1), k \in S PROVE k + 1 \in S
  <2> DEFINE low == layers[k]
             p == position[k]
             q == (p + 1) \div 2
  <2>1. k \in 1..n /\ k \in 0..n /\ k # 0 /\ k + 1 \in 1..n /\ k + 1 # 1 /\ (k + 1) - 1 = k
    BY <1>1
  <2>2. /\ layers[k + 1] = LayerAbove(low)
        /\ position[k + 1] = q
        /\ proofs[k] = WithSibling(proofs[k - 1], low, p)
    BY <1>2, <1>3, <2>1, LayersShape
  <2>3. IsLayer(low) /\ Range(low) \subseteq T /\ Reached(k) /\ p \in 1..Len(low)
    BY <1>4, <1>6, <2>1
  <2> HIDE DEF T, layers, position, proofs
  <2>4. /\ q \in 1..Len(LayerAbove(low))
        /\ Sibling(p) <= Len(low) => /\ low[Sibling(p)] \in Range(low)
                                     /\ LayerAbove(low)[q] =
                                            HashPair(low[p], low[Sibling(p)])
        /\ ~(Sibling(p) <= Len(low)) => LayerAbove(low)[q] = low[p]
    <3>1. /\ \A a \in Range(low) : Bytes(a) \in Nat
          /\ \A a, b \in Range(low) : Bytes(a) = Bytes(b) => a = b
      BY <2>3 DEF T
    <3> HIDE DEF low, p
    <3> QED
      BY <2>3, <3>1, ParentHash
  <2> HIDE DEF low, p, q
  <2>5. proofs[k - 1] \in Seq(T) /\ ComputedHash(proofs[k - 1], leaves[i]) = low[p]
    BY <2>3 DEF low, p
  <2>6. /\ proofs[k] \in Seq(T)
        /\ ComputedHash(proofs[k], leaves[i]) = LayerAbove(low)[q]
    <3>1. CASE Sibling(p) <= Len(low)
      <4>1. proofs[k] = Append(proofs[k - 1], low[Sibling(p)]) /\ low[Sibling(p)] \in T
        BY <2>2, <2>3, <2>4, <3>1 DEF WithSibling
      <4>2. ComputedHash(proofs[k], leaves[i]) = HashPair(low[p], low[Sibling(p)])
        BY <2>5, <4>1, ComputedHashAppend
      <4>3. proofs[k] \in Seq(T)
        BY <2>5, <4>1
      <4> QED
        BY <2>4, <3>1, <4>2, <4>3
    <3>2. CASE ~(Sibling(p) <= Len(low))
      BY <2>2, <2>4, <2>5, <3>2 DEF WithSibling
    <3> QED
      BY <3>1, <3>2
  <2> QED
    BY <2>1, <2>2, <2>4, <2>6
<1>7. 1..n \subseteq S
  <2> HIDE DEF S
  <2> QED
    BY <1>1, <1>5, <1>6, IntervalInduction
<1>8. Reached(n) /\ n \in 0..n /\ n # 0
  <2>1. n \in 1..n /\ n \in 0..n /\ n # 0
    BY <1>1
  <2> HIDE DEF Reached, n
  <2> QED
    BY <1>7, <2>1
<1>9. Len(layers[n]) = 1
  BY RootAlone
<1> HIDE DEF T, layers, position, proofs, n
<1>10. position[n] = 1 /\ ~(Sibling(position[n]) <= Len(layers[n]))
  BY <1>8, <1>9 DEF Sibling
<1>11. proofs[n] = proofs[n - 1]
  BY <1>3, <1>8, <1>10 DEF WithSibling
<1>12. ComputedHash(proofs[n], leaves[i]) = layers[n][1]
  BY <1>8, <1>10, <1>11
<1> QED
  BY <1>12 DEF verify_proof, MerkleProof, MerkleRoot, proofs, layers, n

-----------------------------------------------------------------------------
(* The leaves *)

LEMMA LeavesSorted ==
    ASSUME NEW M, IsFiniteSet(M), M # {},
           \A a \in LeafHashes(M) : Bytes(a) \in Nat,
           \A a, b \in LeafHashes(M) : Bytes(a) = Bytes(b) => a = b
    PROVE  /\ IsLayer(Leaves(M))
           /\ Range(Leaves(M)) = LeafHashes(M)
<1> DEFINE L == LeafHashes(M)
           Below(d) == {e \in L : Bytes(e) < Bytes(d)}
           n == Cardinality(M)
           rank == [d \in L |-> Cardinality(Below(d))]
           At(i) == CHOOSE d \in L : Cardinality(Below(d)) = i - 1
<1>1. IsFiniteSet(L) /\ Cardinality(L) = n /\ n \in Nat \ {0}
  <2> DEFINE f == [m \in M |-> LeafHash(m)]
  <2>1. f \in Bijection(M, L)
    BY DEF Bijection, Injection, IsInjective, Surjection, LeafHashes, LeafHash
  <2>2. IsFiniteSet(L) /\ Cardinality(L) = n
    BY <2>1, FS_Bijection DEF ExistsBijection
  <2> QED
    BY <2>2, FS_CardinalityType, FS_EmptySet
<1>2. \A d \in L : IsFiniteSet(Below(d)) /\ Cardinality(Below(d)) \in 0..(n - 1)
  <2> SUFFICES ASSUME NEW d \in L
               PROVE  IsFiniteSet(Below(d)) /\ Cardinality(Below(d)) \in 0..(n - 1)
    OBVIOUS
  <2>1. Below(d) \in SUBSET L /\ Below(d) # L
    OBVIOUS
  <2> QED
    BY <1>1, <2>1, FS_Subset, FS_CardinalityType
<1>3. \A d, e \in L : Bytes(d) < Bytes(e) => Cardinality(Below(d)) # Cardinality(Below(e))
  <2> SUFFICES ASSUME NEW d \in L, NEW e \in L, Bytes(d) < Bytes(e)
               PROVE  Cardinality(Below(d)) # Cardinality(Below(e))
    OBVIOUS
  <2>1. Below(d) \in SUBSET Below(e) /\ d \in Below(e) /\ d \notin Below(d)
    OBVIOUS
  <2> HIDE DEF Below
  <2> QED
    BY <1>2, <2>1, FS_Subset
<1>4. rank \in Surjection(L, 0..(n - 1))
  <2>1. rank \in [L -> 0..(n - 1)]
    BY <1>2
  <2>2. \A d, e \in L : rank[d] = rank[e] => d = e
    <3> SUFFICES ASSUME NEW d \in L, NEW e \in L, d # e PROVE rank[d] # rank[e]
      OBVIOUS
    <3>1. Bytes(d) < Bytes(e) \/ Bytes(e) < Bytes(d)
      OBVIOUS
    <3> QED
      BY <1>3, <3>1
  <2>3. rank \in Injection(L, 0..(n - 1))
    BY <2>1, <2>2 DEF Injection, IsInjective
  <2>4. IsFiniteSet(0..(n - 1)) /\ Cardinality(0..(n - 1)) = n
    BY <1>1, FS_Interval
  <2> HIDE DEF rank
  <2> QED
    BY <1>1, <2>3, <2>4, FS_Injection
<1>5. \A i \in 1..n : At(i) \in L /\ Cardinality(Below(At(i))) = i - 1
  <2> SUFFICES ASSUME NEW i \in 1..n
               PROVE  \E d \in L : Cardinality(Below(d)) = i - 1
    OBVIOUS
  <2>1. i - 1 \in 0..(n - 1)
    BY <1>1
  <2>2. PICK d \in L : rank[d] = i - 1
    BY <1>4, <2>1 DEF Surjection
  <2> QED
    BY <2>2
<1>6. Leaves(M) = [i \in 1..n |-> At(i)]
  BY DEF Leaves
<1> HIDE DEF At
<1>7. \A d \in L : \E i \in 1..n : At(i) = d
  <2> SUFFICES ASSUME NEW d \in L PROVE \E i \in 1..n : At(i) = d
    OBVIOUS
  <2> DEFINE c == Cardinality(Below(d))
  <2>1. c \in 0..(n - 1)
    BY <1>2
  <2> HIDE DEF c
  <2>2. c + 1 \in 1..n /\ (c + 1) - 1 = c
    BY <1>1, <2>1
  <2>3. At(c + 1) \in L /\ Cardinality(Below(At(c + 1))) = c
    BY <1>5, <2>2
  <2>4. At(c + 1) = d
    <3>1. ~(Bytes(At(c + 1)) < Bytes(d)) /\ ~(Bytes(d) < Bytes(At(c + 1)))
      BY <1>3, <2>3 DEF c
    <3> QED
      BY <2>3, <3>1
  <2> QED
    BY <2>2, <2>4
<1> DEFINE leaves == Leaves(M)
<1> HIDE DEF L, Below, n, rank, leaves
<1>8. leaves = [i \in 1..n |-> leaves[i]] /\ \A i \in 1..n : leaves[i] = At(i)
  BY <1>6 DEF leaves
<1>9. leaves \in Seq(L) /\ Len(leaves) = n
  <2>1. leaves \in [1..n -> L]
    BY <1>5, <1>8
  <2> QED
    BY <1>1, <2>1
<1>10. Range(leaves) = L
  BY <1>5, <1>7, <1>8 DEF Range
<1> QED
  BY <1>1, <1>8, <1>9, <1>10 DEF IsLayer, leaves, L

-----------------------------------------------------------------------------
(* The whitelist of a bucket *)

WhitelistInv ==
    /\ mints \in (SUBSET Mints) \ {{}}
    /\ whitelist_proof # None => whitelist_proof \in Seq(Known)

LEMMA WhitelistInvHolds == Spec => []WhitelistInv
<1>1. Init => WhitelistInv
  <2> SUFFICES ASSUME Init PROVE WhitelistInv
    OBVIOUS
  <2>1. mints \in (SUBSET Mints) \ {{}}
    BY MintsAssumption DEF Init, MintsAssumption
  <2>2. whitelist_proof \in {None, <<>>} /\ <<>> \in Seq(Known)
    BY DEF Init
  <2> QED
    BY <2>1, <2>2 DEF WhitelistInv
<1>2. WhitelistInv /\ [Next]_<<mints, info, metadata, whitelist_proof>> => WhitelistInv'
  <2> SUFFICES ASSUME WhitelistInv, [Next]_<<mints, info, metadata, whitelist_proof>>
               PROVE  WhitelistInv'
    OBVIOUS
  <2>1. ASSUME NEW digest \in Known, TryLongerProof(digest) PROVE WhitelistInv'
    BY <2>1 DEF WhitelistInv, TryLongerProof, Known
  <2>2. CASE UNCHANGED <<mints, info, metadata, whitelist_proof>>
    BY <2>2 DEF WhitelistInv, Known
  <2> QED
    BY <2>1, <2>2 DEF Next
<1> QED
  BY <1>1, <1>2, PTL DEF Spec

\* The tree of a whitelist has the leaves it should, and the bytes of its
\* digests tell them apart.
LEMMA WhitelistTree ==
    ASSUME NEW M \in (SUBSET Mints) \ {{}}
    PROVE  /\ IsLayer(Leaves(M))
           /\ Range(Leaves(M)) = LeafHashes(M)
           /\ \A a \in TreeDigests(Leaves(M)) : Bytes(a) \in Nat
           /\ \A a, b \in TreeDigests(Leaves(M)) : Bytes(a) = Bytes(b) => a = b
<1>1. IsFiniteSet(M) /\ M # {}
  <2>1. M \in SUBSET Mints /\ M # {} /\ IsFiniteSet(Mints)
    BY MintsAssumption DEF MintsAssumption
  <2> QED
    BY <2>1, FS_Subset
<1>2. LeafHashes(M) \subseteq Digests /\ TreeDigests(Leaves(M)) \subseteq Digests
  <2>1. LeafHashes(M) \subseteq LeafHashes(Mints)
    BY DEF LeafHashes
  <2> QED
    BY <2>1 DEF Digests
<1> QED
  BY <1>1, <1>2, BytesAssumption, LeavesSorted DEF BytesAssumption

\* A mint is verified by the proof that the tree of the whitelist gives, if it
\* is a member, and by no other: a proof goes up through digests of the tree
\* only, and the only leaves of the tree are members (verify_proof).
THEOREM WhitelistExactHolds == Spec => []WhitelistExact
<1>1. ASSUME WhitelistInv PROVE WhitelistExact
  <2> DEFINE leaves == Leaves(mints)
             mint == metadata.mint
  <2>1. /\ IsLayer(leaves)
        /\ Range(leaves) = LeafHashes(mints)
        /\ \A a \in TreeDigests(leaves) : Bytes(a) \in Nat
        /\ \A a, b \in TreeDigests(leaves) : Bytes(a) = Bytes(b) => a = b
    BY <1>1, WhitelistTree DEF WhitelistInv
  <2> HIDE DEF leaves, mint
  <2>2. ASSUME mint \in mints
        PROVE  verify_proof(WhitelistProof(mints, mint), MerkleRoot(leaves), LeafHash(mint))
    <3> DEFINE i == CHOOSE i \in DOMAIN leaves : leaves[i] = LeafHash(mint)
    <3>1. LeafHash(mint) \in Range(leaves)
      BY <2>1, <2>2 DEF LeafHashes
    <3>2. i \in DOMAIN leaves /\ leaves[i] = LeafHash(mint)
      BY <3>1 DEF Range
    <3>3. DOMAIN leaves = 1..Len(leaves)
      BY <2>1 DEF IsLayer
    <3>4. WhitelistProof(mints, mint) = MerkleProof(leaves, i)
      BY DEF WhitelistProof, leaves
    <3> HIDE DEF i
    <3>5. verify_proof(MerkleProof(leaves, i), MerkleRoot(leaves), leaves[i])
      BY <2>1, <3>2, <3>3, MembersVerified
    <3> QED
      BY <3>2, <3>4, <3>5
  <2>3. ASSUME whitelist_proof # None,
               verify_proof(whitelist_proof, MerkleRoot(leaves), LeafHash(mint))
        PROVE  mint \in mints
    <3>1. Len(whitelist_proof) \in Nat
      BY <1>1, <2>3 DEF WhitelistInv
    <3> QED
      BY <2>1, <2>3, <3>1, OnlyMembers
  <2> QED
    BY <2>2, <2>3 DEF WhitelistExact, Proves, WhitelistRoot, leaves, mint
<1> QED
  BY <1>1, WhitelistInvHolds, PTL

-----------------------------------------------------------------------------
(* Claims without signatures *)

Creators == [address : Keys, verified : BOOLEAN]

\* The metadata offered is a record, and its creators, if any, are a set of
\* creators; offering a longer proof does not change it.
MetadataRecord ==
    /\ metadata = [mint |-> metadata.mint, symbol |-> metadata.symbol,
                   creators |-> metadata.creators, collection |-> metadata.collection]
    /\ metadata.creators = None \/ metadata.creators \in SUBSET Creators

LEMMA MetadataRecordHolds == Spec => []MetadataRecord
<1>1. Init => MetadataRecord
  <2> SUFFICES ASSUME Init PROVE MetadataRecord
    OBVIOUS
  <2>1. ASSUME NEW mint \in Mints, metadata = Matching(mint) PROVE MetadataRecord
    <3>1. metadata.creators = [address : Keys, verified : {TRUE}]
      BY <2>1 DEF Matching
    <3>2. metadata = [mint |-> metadata.mint, symbol |-> metadata.symbol,
                      creators |-> metadata.creators, collection |-> metadata.collection]
      BY <2>1 DEF Matching
    <3>3. [address : Keys, verified : {TRUE}] \in SUBSET Creators
      BY DEF Creators
    <3> QED
      BY <3>1, <3>2, <3>3 DEF MetadataRecord
  <2>2. CASE metadata \in MCMetadata
    <3> DEFINE C == {None} \cup SUBSET Creators
               D == {None} \cup [key : Keys, verified : BOOLEAN]
    <3>1. metadata \in [mint : FewMints, symbol : MCSymbol, creators : C, collection : D]
      BY <2>2 DEF MCMetadata, Creators
    <3> HIDE DEF C, D
    <3>2. /\ metadata.creators \in C
          /\ metadata = [mint |-> metadata.mint, symbol |-> metadata.symbol,
                         creators |-> metadata.creators,
                         collection |-> metadata.collection]
      BY <3>1
    <3> QED
      BY <3>2 DEF MetadataRecord, C
  <2> QED
    BY <2>1, <2>2 DEF Init
<1>2. MetadataRecord /\ [Next]_<<mints, info, metadata, whitelist_proof>> => MetadataRecord'
  BY DEF MetadataRecord, Next, TryLongerProof
<1> QED
  BY <1>1, <1>2, PTL DEF Spec

\* A verdict for metadata with unsigned claims holds without them: V1 asks for
\* the signature of the creator it counts, V2 for that of the collection.
THEOREM ClaimsNeedSignaturesHolds == Spec => []ClaimsNeedSignatures
<1>1. ASSUME MetadataRecord PROVE ClaimsNeedSignatures
  <2> DEFINE b == BucketInfo
             bare == Unsigned(metadata)
             signed == {c \in metadata.creators : c.verified}
  <2>1. /\ bare.mint = metadata.mint
        /\ bare.symbol = metadata.symbol
        /\ bare.creators = IF metadata.creators = None THEN None ELSE signed
        /\ bare.collection = IF metadata.collection = None \/ metadata.collection.verified
                             THEN metadata.collection ELSE None
    BY <1>1 DEF MetadataRecord, Unsigned
  <2> HIDE DEF b, bare
  <2>2. ASSUME VerifyV1(metadata, b, whitelist_proof)
        PROVE  VerifyV1(bare, b, whitelist_proof)
    <3>1. metadata.creators # None /\ metadata.creators \in SUBSET Creators
      BY <1>1, <2>2 DEF VerifyV1, MetadataRecord
    <3>2. bare.creators = signed /\ bare.creators # None
      BY <2>1, <3>1, NoneAssumption DEF NoneAssumption, Creators
    <3>3. \E creator \in signed : CreatorVerified(creator, b.verified_creators)
      BY <2>2 DEF VerifyV1, CreatorVerified
    <3> HIDE DEF signed
    <3> QED
      BY <2>1, <2>2, <3>2, <3>3 DEF VerifyV1
  <2>3. ASSUME VerifyV2(metadata, b) PROVE VerifyV2(bare, b)
    BY <2>1, <2>3 DEF VerifyV2, CollectionVerified
  <2> QED
    BY <2>2, <2>3 DEF ClaimsNeedSignatures, Accepted, verify_collection, b, bare
<1> QED
  BY <1>1, MetadataRecordHolds, PTL
=============================================================================
