--------------------------- MODULE CollectionInfo ---------------------------
(***************************************************************************)
(* Whether an NFT belongs to the collection of a bucket: by the symbol and *)
(* a verified creator in its metadata and a Merkle whitelist of mints      *)
(* (V1), or by its verified collection (V2).                               *)
(*                                                                         *)
(* keccak has no collisions: a digest is the term it was made from, so that *)
(* two of them are equal only if made alike.  A leaf hashes 32 bytes and   *)
(* an inner node 64, so no digest is of both kinds.  Digests are compared  *)
(* by the numbers that their bytes are, whatever these may be.             *)
(***************************************************************************)
EXTENDS Integers, Sequences, FiniteSets, Functions

CONSTANTS
    Bytes(_),    \* the 32 bytes of a digest, as a number
    None

LeafHash(mint) == <<mint>>

NodeHash(left, right) == <<left, right>>

NotAfter(digest1, digest2) == Bytes(digest1) <= Bytes(digest2)

-----------------------------------------------------------------------------
(* verify_proof *)

\* Mutant: the computed digest always comes first.
HashUnsorted(computed_hash, proof_element) == NodeHash(computed_hash, proof_element)

\* The smaller digest comes first.
HashPair(computed_hash, proof_element) ==
    IF NotAfter(computed_hash, proof_element)
    THEN NodeHash(computed_hash, proof_element)
    ELSE NodeHash(proof_element, computed_hash)

\* computed_hash before the loop over the proof and after each element.
ComputedHashes(proof, leaf) ==
    LET computed_hash[i \in 0..Len(proof)] ==
            IF i = 0 THEN leaf ELSE HashPair(computed_hash[i - 1], proof[i])
    IN  computed_hash

ComputedHash(proof, leaf) == ComputedHashes(proof, leaf)[Len(proof)]

verify_proof(proof, root, leaf) == ComputedHash(proof, leaf) = root

-----------------------------------------------------------------------------
(* verify_collection *)

\* A symbol is its text and the number of zero characters around it.
Trimmed(symbol) == [symbol EXCEPT !.zeros = 0]

\* Mutant: a creator need not have signed.
CreatorListed(creator, verified_creators) == creator.address \in verified_creators

CreatorVerified(creator, verified_creators) ==
    creator.verified /\ creator.address \in verified_creators

\* The instruction fails, as for an NFT of another collection, if the metadata
\* has no creators or the caller gives no proof.
VerifyV1(metadata, info, whitelist_proof) ==
    /\ Trimmed(metadata.symbol) = info.symbol
    /\ metadata.creators # None
    /\ \E creator \in metadata.creators : CreatorVerified(creator, info.verified_creators)
    /\ whitelist_proof # None
    /\ verify_proof(whitelist_proof, info.whitelist_root, LeafHash(metadata.mint))

\* Mutant: whoever writes the metadata names the collection.
CollectionNamed(collection, collection_mint) == collection.key = collection_mint

CollectionVerified(collection, collection_mint) ==
    collection.key = collection_mint /\ collection.verified

VerifyV2(metadata, info) ==
    metadata.collection # None /\ CollectionVerified(metadata.collection, info.collection_mint)

verify_collection(metadata, info, whitelist_proof) ==
    IF info.variant = "V1" THEN VerifyV1(metadata, info, whitelist_proof)
                           ELSE VerifyV2(metadata, info)

-----------------------------------------------------------------------------
(* How the whitelists are made: merkletreejs, sorting leaves and pairs *)

MerklePair(digest1, digest2) ==
    IF NotAfter(digest1, digest2) THEN NodeHash(digest1, digest2)
                                  ELSE NodeHash(digest2, digest1)

\* The layer above a layer of digests; the last of an odd number is promoted.
LayerAbove(layer) ==
    [i \in 1..((Len(layer) + 1) \div 2) |->
        IF 2 * i <= Len(layer) THEN MerklePair(layer[2 * i - 1], layer[2 * i])
                               ELSE layer[2 * i - 1]]

\* The layers of the tree.  There are at most as many as leaves; the layer of
\* the root alone is the one above itself, so it may come more than once.
MerkleLayers(leaves) ==
    LET layer[k \in 1..Len(leaves)] ==
            IF k = 1 THEN leaves ELSE LayerAbove(layer[k - 1])
    IN  layer

\* All digests of the tree.
TreeDigests(leaves) == UNION {Range(layer) : layer \in Range(MerkleLayers(leaves))}

\* Where leaf i and the nodes above it are in their layers.
Positions(leaves, i) ==
    LET position[k \in 1..Len(leaves)] ==
            IF k = 1 THEN i ELSE (position[k - 1] + 1) \div 2
    IN  position

Sibling(position) == IF position % 2 = 1 THEN position + 1 ELSE position - 1

\* The last of an odd number of digests has no sibling.
WithSibling(proof, layer, position) ==
    IF Sibling(position) <= Len(layer) THEN Append(proof, layer[Sibling(position)]) ELSE proof

\* The siblings on the way from leaf i up through the first k layers.
MerkleProofs(leaves, i) ==
    LET proof[k \in 0..Len(leaves)] ==
            IF k = 0 THEN <<>>
            ELSE WithSibling(proof[k - 1], MerkleLayers(leaves)[k], Positions(leaves, i)[k])
    IN  proof

\* The whole way to the root, which has no sibling.
MerkleProof(leaves, i) == MerkleProofs(leaves, i)[Len(leaves)]

LeafHashes(mints) == {LeafHash(mint) : mint \in mints}

\* In ascending order: leaf i is the one that i - 1 others are less than.
Leaves(mints) ==
    LET Below(digest) == {other \in LeafHashes(mints) : Bytes(other) < Bytes(digest)}
    IN  [i \in 1..Cardinality(mints) |->
            CHOOSE digest \in LeafHashes(mints) : Cardinality(Below(digest)) = i - 1]

MerkleRoot(leaves) == MerkleLayers(leaves)[Len(leaves)][1]

WhitelistRoot(mints) == MerkleRoot(Leaves(mints))

WhitelistProof(mints, mint) ==
    LET leaves == Leaves(mints)
    IN  MerkleProof(leaves, CHOOSE i \in DOMAIN leaves : leaves[i] = LeafHash(mint))
=============================================================================
