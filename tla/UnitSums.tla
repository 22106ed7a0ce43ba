------------------------------ MODULE UnitSums ------------------------------
(***************************************************************************)
(* Sums of bounded natural quantities, defined by counting units.  The     *)
(* ledgers of this project hold whole budget units, so the total held by a *)
(* set of reservations is the number of pairs (reservation, unit).  TLC    *)
(* evaluates the definition directly and TLAPS can reason about it with    *)
(* the cardinality theorems, without an induction over data.               *)
(***************************************************************************)
EXTENDS Integers, FiniteSets

\* The units u in 1..bound that f grants to the members of S.
Units(f, S, bound) == {p \in S \X (1..bound) : p[2] <= f[p[1]]}

\* The sum of f[x] over x \in S, for f[x] \in 0..bound.
UnitSum(f, S, bound) == Cardinality(Units(f, S, bound))
=============================================================================
