------------------------------- MODULE Totals -------------------------------
(***************************************************************************)
(* The sum of the values of a function from a finite set to the natural    *)
(* numbers, defined by counting: a value v contributes v distinct units.   *)
(* Counting avoids recursion, so facts about totals can be proved from     *)
(* facts about the cardinality of finite sets.                             *)
(***************************************************************************)
EXTENDS Integers, FiniteSets

UnitsOf(f, x) == {x} \X (1..f[x])

Units(f, S) == UNION {UnitsOf(f, x) : x \in S}

Total(f) == Cardinality(Units(f, DOMAIN f))
=============================================================================
