----------------------------- MODULE MCStaking ------------------------------
(***************************************************************************)
(* Small instances of Staking: farms whose managers switch between a       *)
(* configuration that may be staked in and ones that may not.              *)
(***************************************************************************)
EXTENDS Staking, TLC

CONSTANTS u1, n1, n2, d1, f1, f2

MCOneUser == {u1}
MCOneNft == {n1}
MCTwoNfts == {n1, n2}
MCOneDroplet == {d1}
MCOneFarm == {f1}
MCFarms == {f1, f2}

MCAll == {Nfts}

Config(min_staking, cooldown, fee) ==
    [min_staking_period_sec |-> min_staking, cooldown_period_sec |-> cooldown,
     unstaking_fee_lamp |-> fee]

\* A configuration that may be staked in; ones that may not, for the cooldown
\* and for the minimum period and a fee below the minimum; and one with a fee
\* that may be staked in, but that unstake_nft by itself does not pay.
MCConfigs == {Config(0, 0, 3), Config(0, 1, 0), Config(1, 0, 1), Config(0, 0, 5)}

\* One that may be staked in, and one with a cooldown and a fee not paid.
MCTwoConfigs == {Config(0, 0, 3), Config(0, 1, 5)}

MCSymmetry == Permutations(MCTwoNfts)
=============================================================================
