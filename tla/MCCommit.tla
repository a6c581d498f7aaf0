------------------------------- MODULE MCCommit -------------------------------
(* One disk with a partition table, the root filesystem and an encrypted     *)
(* /home.                                                                    *)
EXTENDS Commit

CONSTANTS disk, t1, p1, p2, p3, l1, l2, f1, f2, f3, m1, m2, m3

Root == << >>
Home == <<"home">>
Srv == <<"home", "srv">>

Part(n, start, size) == [Blank({t1}) EXCEPT !.name = n, !.start = start, !.size = size]
Mp(f, path) == [Blank({f}) EXCEPT !.name = path, !.active = TRUE, !.listed = TRUE]

Installed ==
  disk :> [Blank({}) EXCEPT !.size = 4] @@ t1 :> Blank({disk})
  @@ p1 :> Part(1, 0, 1) @@ f1 :> Blank({p1}) @@ m1 :> Mp(f1, Root)
  @@ p2 :> Part(2, 1, 2) @@ l1 :> [Blank({p2}) EXCEPT !.active = TRUE, !.listed = TRUE]
  @@ f2 :> Blank({l1}) @@ m2 :> Mp(f2, Home)

MCProbes == {Installed}
MCPath == {Home, Srv}
=============================================================================
