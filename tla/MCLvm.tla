-------------------------------- MODULE MCLvm --------------------------------
(* One disk with a volume group on two partitions, a filesystem on its       *)
(* logical volume, and an unused partition.                                  *)
EXTENDS Commit

CONSTANTS disk, t1, p1, p2, p3, pv1, pv2, pv3, pv4, v1, v2, lv1, lv2, f1, f2, m1

Data == <<"data">>

Part(n, start, size) == [Blank({t1}) EXCEPT !.name = n, !.start = start, !.size = size]

Installed ==
  disk :> [Blank({}) EXCEPT !.size = 4] @@ t1 :> Blank({disk})
  @@ p1 :> Part(1, 0, 1) @@ pv1 :> Blank({p1})
  @@ p2 :> Part(2, 1, 1) @@ pv2 :> Blank({p2})
  @@ p3 :> Part(3, 2, 1)
  @@ v1 :> [Blank({pv1, pv2}) EXCEPT !.name = "system"]
  @@ lv1 :> [Blank({v1}) EXCEPT !.name = "data", !.size = 1]
  @@ f1 :> Blank({lv1}) @@ m1 :> [Blank({f1}) EXCEPT !.name = Data, !.active = TRUE, !.listed = TRUE]

MCProbes == {Installed}
MCPath == {Data}
MCVgName == {"system", "other"}
MCLvName == {"data", "more"}
=============================================================================
