----------------------------- MODULE MCSolvent ------------------------------
(***************************************************************************)
(* Small instances of Solvent.  One NFT is worth 10 lamports; a swap costs *)
(* 2, of which the distributor gets 1; a liquidator gets a fifth.          *)
(***************************************************************************)
EXTENDS SolventVaults, TLC

CONSTANTS u1, u2, n1, n2, n3, n4, d1, d2

MCUsers == {u1, u2}
MCOneUser == {u1}
MCTwoNfts == {n1, n2}
MCThreeNfts == {n1, n2, n3}
MCFourNfts == {n1, n2, n3, n4}
MCLastNft == {n4}
MCOneDroplet == {d1}
MCDroplets == {d1, d2}

\* Collections: one of all NFTs, and two that share one NFT.
MCAll == {Nfts}
MCOverlapping == {{n1, n2}, {n1}}

\* What the instances do not tell apart.
MCNftSymmetry == Permutations(MCThreeNfts)
MCSymmetry == Permutations(MCUsers) \cup MCNftSymmetry
MCDropletSymmetry == Permutations(MCDroplets)
=============================================================================
