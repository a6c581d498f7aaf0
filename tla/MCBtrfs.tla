--------------------------------- MODULE MCBtrfs ---------------------------------
(***************************************************************************)
(* A Btrfs with a subvolume that counts in a quota group, one without      *)
(* quota and with another subvolume in the first, and an empty disk.       *)
(***************************************************************************)
EXTENDS Btrfs

CONSTANTS a, b

MCQgroupId == {<<1, 0>>, <<2, 0>>}

Subvolume(id, on, name) == [id |-> id, on |-> on, name |-> name]
TopLevel == Subvolume(TopId, None, None)

MCProbes ==
  {OnDisk(NoBtrfs),
   [there |-> TRUE, quota |-> TRUE, default |-> FirstId,
    subs |-> {TopLevel, Subvolume(FirstId, TopId, a)},
    qgroups |-> {KernelQgroup(<<0, TopId>>), KernelQgroup(<<0, FirstId>>), KernelQgroup(<<1, 0>>)},
    rel |-> {<<<<0, FirstId>>, <<1, 0>>>>}],
   [there |-> TRUE, quota |-> FALSE, default |-> TopId,
    subs |-> {TopLevel, Subvolume(FirstId, TopId, a), Subvolume(FirstId + 1, FirstId, b)},
    qgroups |-> {}, rel |-> {}]}
=============================================================================
