------------------------------- MODULE MCMount -------------------------------
(* Filesystems and a swap that are mounted or not, as during an installation *)
(* to new (MCFresh) or with existing mount points (MCInstalled).             *)
EXTENDS Commit

CONSTANTS disk, t1, p1, p2, p3, f1, f2, f3, m1, m2, m3

Root == << >>
Home == <<"home">>
Srv == <<"home", "srv">>

Part(n) == [Blank({t1}) EXCEPT !.name = n, !.start = n - 1, !.size = 1]
Mp(f, path) == [Blank({f}) EXCEPT !.name = path, !.active = TRUE, !.listed = TRUE]

MCFresh ==
  disk :> [Blank({}) EXCEPT !.size = 3] @@ t1 :> Blank({disk})
  @@ p1 :> Part(1) @@ f1 :> Blank({p1}) @@ p2 :> Part(2) @@ f2 :> Blank({p2})
  @@ p3 :> Part(3) @@ f3 :> Blank({p3})

MCInstalled == m1 :> Mp(f1, Root) @@ m2 :> Mp(f2, SwapPath) @@ m3 :> Mp(f3, Home) @@ MCFresh

MCProbes == {MCFresh, MCInstalled}
MCPath == {Root, Home, Srv, SwapPath}
=============================================================================
