---------------------------- MODULE MCActivation ----------------------------
(* A logical volume on a LUKS on a logical volume on a LUKS on a logical     *)
(* volume on a partition of a multipath; a RAID of a partition and a disk,   *)
(* whose content is found on both, with a partition that is the backing      *)
(* device of a bcache, on which the second volume group is too; a Btrfs on a *)
(* partition and a disk.                                                     *)
EXTENDS Prober, TLC

CONSTANTS l1, l2, lv1, lv2, lv3,
          d1, d2, d3, d4, d5, mp, t1, p1, p2, p4, md, t2, p3, b0, c0,
          pv1, pv2, pv3, pv4, v1, v2, v3, f1, f2

MCBeneath ==
  d1 :> {} @@ d2 :> {} @@ mp :> {d1, d2} @@ t1 :> {mp} @@ p1 :> {t1} @@ p2 :> {t1} @@ p4 :> {t1}
  @@ pv1 :> {p1} @@ v1 :> {pv1} @@ lv1 :> {v1} @@ l1 :> {lv1}
  @@ pv2 :> {l1} @@ v2 :> {pv2, pv4} @@ lv2 :> {v2} @@ l2 :> {lv2}
  @@ pv3 :> {l2} @@ v3 :> {pv3} @@ lv3 :> {v3} @@ f1 :> {lv3}
  @@ d3 :> {} @@ md :> {d3, p2} @@ t2 :> {md} @@ p3 :> {t2}
  @@ d4 :> {} @@ c0 :> {d4} @@ b0 :> {p3, c0} @@ pv4 :> {b0}
  @@ d5 :> {} @@ f2 :> {p4, d5}

MCListing == <<d1, d2, d3, d4, d5, mp, md, v1, v2, v3, pv1, pv2, pv3, pv4, lv1, lv2, lv3, b0, c0,
               t1, p1, p2, p4, t2, p3, l1, l2, f1, f2>>

MCMirrors == {<<d1, mp>>, <<d2, mp>>, <<d3, md>>}

MCStack == lv1 :> {} @@ l1 :> {lv1} @@ lv2 :> {l1} @@ l2 :> {lv2} @@ lv3 :> {l2}
MCUuid == l1 :> "uuid1" @@ l2 :> "uuid2"
MCKey == l1 :> "secret1" @@ l2 :> "secret2"
=============================================================================
