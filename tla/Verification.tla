---------------------------- MODULE Verification ----------------------------
(***************************************************************************)
(* An NFT is offered to a bucket with a proof that grows by one digest at  *)
(* a time, out of all those anybody can know of: any mint to any           *)
(* whitelist, and, for few mints, any metadata to any collection info.     *)
(***************************************************************************)
EXTENDS CollectionInfo, TLC

CONSTANTS
    Mints,          \* mints, as positive numbers
    FewMints,       \* those offered with metadata of all kinds
    Symbols,        \* texts of symbols
    Keys,           \* addresses of creators and of collections
    MAX_PROOF,      \* bound on the length of proofs
    MAX_FEW_PROOF   \* the same for FewMints

ASSUME MintsAssumption == IsFiniteSet(Mints) /\ FewMints \subseteq Mints

\* keccak has no collisions in the trees of the whitelists.
Digests ==
    LeafHashes(Mints)
    \cup UNION {TreeDigests(Leaves(whitelist)) : whitelist \in (SUBSET Mints) \ {{}}}

ASSUME BytesAssumption ==
    /\ \A digest \in Digests : Bytes(digest) \in Nat
    /\ \A digest1, digest2 \in Digests :
           Bytes(digest1) = Bytes(digest2) => digest1 = digest2

\* Metadata without creators is not metadata with an empty list of them.
ASSUME NoneAssumption ==
    \A creators \in SUBSET [address : Keys, verified : BOOLEAN] : None # creators

VARIABLES
    mints,          \* the whitelist of the bucket
    info,           \* its collection info
    metadata,       \* the metadata of the NFT offered
    whitelist_proof

MCSymbol == [text : Symbols, zeros : 0..1]

MCInfos ==
    [variant : {"V1"}, symbol : MCSymbol, verified_creators : (SUBSET Keys) \ {{}}]
    \cup [variant : {"V2"}, collection_mint : Keys]

MCMetadata ==
    [mint : FewMints, symbol : MCSymbol,
     creators : {None} \cup SUBSET [address : Keys, verified : BOOLEAN],
     collection : {None} \cup [key : Keys, verified : BOOLEAN]]

\* An info and metadata that agree in all but the mint.
Unpadded == [text |-> CHOOSE text \in Symbols : TRUE, zeros |-> 0]

MatchingInfo == [variant |-> "V1", symbol |-> Unpadded, verified_creators |-> Keys]

Matching(mint) ==
    [mint |-> mint, symbol |-> Unpadded,
     creators |-> [address : Keys, verified : {TRUE}], collection |-> None]

\* The digests of mints and those in the tree of the whitelist.
Known == LeafHashes(Mints) \cup TreeDigests(Leaves(mints))

Init ==
    /\ \/ /\ mints \in (SUBSET Mints) \ {{}}
          /\ info = MatchingInfo
          /\ metadata \in {Matching(mint) : mint \in Mints}
       \/ /\ mints \in (SUBSET FewMints) \ {{}}
          /\ info \in MCInfos
          /\ metadata \in MCMetadata
    /\ whitelist_proof \in {None, <<>>}

ProofBound ==
    IF info = MatchingInfo /\ metadata = Matching(metadata.mint)
    THEN MAX_PROOF ELSE MAX_FEW_PROOF

TryLongerProof(digest) ==
    /\ whitelist_proof # None
    /\ Len(whitelist_proof) < ProofBound
    /\ whitelist_proof' = Append(whitelist_proof, digest)
    /\ UNCHANGED <<mints, info, metadata>>

Next == \E digest \in Known : TryLongerProof(digest)

Spec == Init /\ [][Next]_<<mints, info, metadata, whitelist_proof>>

-----------------------------------------------------------------------------
Proves(mint, proof) == verify_proof(proof, WhitelistRoot(mints), LeafHash(mint))

\* A mint of the whitelist is verified by the proof its tree gives, and no
\* proof made of digests somebody can know verifies another mint.
WhitelistExact ==
    /\ metadata.mint \in mints
           => Proves(metadata.mint, WhitelistProof(mints, metadata.mint))
    /\ whitelist_proof # None /\ Proves(metadata.mint, whitelist_proof)
           => metadata.mint \in mints

BucketInfo ==
    IF info.variant = "V1" THEN info @@ [whitelist_root |-> WhitelistRoot(mints)] ELSE info

Accepted(data) == verify_collection(data, BucketInfo, whitelist_proof)

\* What the metadata says without the signature it needs.
Unsigned(data) ==
    [data EXCEPT !.creators = IF @ = None THEN None ELSE {c \in @ : c.verified},
                 !.collection = IF @ = None \/ @.verified THEN @ ELSE None]

\* What an NFT claims of its creators and its collection without their
\* signatures does not get it into a bucket (verify_collection).
ClaimsNeedSignatures == Accepted(metadata) => Accepted(Unsigned(metadata))
=============================================================================
