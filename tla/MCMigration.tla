---------------------------- MODULE MCMigration -----------------------------
(***************************************************************************)
(* Small instances of Migration: NFTs worth 10 lamports, of which wallets  *)
(* also move parts.                                                        *)
(***************************************************************************)
EXTENDS Migration, TLC

CONSTANTS u1, n1, n2, d1, d2

MCOneUser == {u1}
MCNfts == {n1, n2}
MCDroplets == {d1, d2}

\* Both buckets take both NFTs.
MCAll == {MCNfts}

MCSymmetry == Permutations(MCNfts) \cup Permutations(MCDroplets)
=============================================================================
