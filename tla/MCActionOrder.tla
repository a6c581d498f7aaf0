---------------------------- MODULE MCActionOrder ----------------------------
(* Six actions, two of them sync-only and one mounting a swap.  The graphs  *)
(* have up to four edges, or up to two edges and one more parallel to one   *)
(* of them, with and without cycles.                                        *)
EXTENDS ActionOrder

CONSTANTS a, b, c, s, t, w

MCAction == {a, b, c, s, t, w}

Simple == {<<u, v, << >>>> : u \in MCAction, v \in MCAction}

Parallel(e) == <<Source(e), Target(e), <<a>>>>

More(gs, es) == gs \cup {g \cup {e} : g \in gs, e \in es}

MCGraph ==
  LET upTo2 == More({{}} \cup {{e} : e \in Simple}, Simple)
      distinct == {e \in Simple : Source(e) # Target(e)}
  IN  More(More(upTo2, Simple), distinct)
      \cup {{e, f, Parallel(e)} : e \in Simple, f \in Simple}
=============================================================================
