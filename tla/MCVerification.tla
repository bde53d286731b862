--------------------------- MODULE MCVerification ---------------------------
(***************************************************************************)
(* Numbers for the bytes of digests, which have to look random: both       *)
(* orders of siblings occur on every level of the trees.                   *)
(***************************************************************************)
EXTENDS Verification

CONSTANT MODULUS    \* one more than the largest number

RECURSIVE MCBytes(_)
MCBytes(digest) ==
    IF Len(digest) = 1 THEN (digest[1] * 3) % 7
    ELSE (MCBytes(digest[1]) * 97 + MCBytes(digest[2]) * 31 + 5) % MODULUS
=============================================================================
