------------------------------- MODULE MCBcache --------------------------------
(***************************************************************************)
(* Three disks with two bcaches and a cache set, or with one that is left  *)
(* of two.                                                                 *)
(***************************************************************************)
EXTENDS Bcache

CONSTANTS d1, d2, d3, b1, b2, b3, s1, s2

On(d, number, cset) == [on |-> d, number |-> number, cset |-> cset, mode |-> "through"]

MCProbes ==
  {[x \in {} |-> None],
   [x \in {b1, b2, s1} |-> CASE x = b1 -> On(d1, 0, s1) [] x = b2 -> On(d2, 1, None)
                             [] x = s1 -> [on |-> d3]],
   [x \in {b2} |-> On(d2, 1, None)]}
=============================================================================
