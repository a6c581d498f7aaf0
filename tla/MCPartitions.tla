---------------------------- MODULE MCPartitions ----------------------------
(* An MS-DOS disk with a primary and an extended partition and three logical *)
(* ones, two of them swaps or the last one empty, so that it can be resized *)
(* after its number has moved, and a GPT disk with a free number in the     *)
(* middle.  Sectors in pairs are aligned.  The other disk of the pool has a *)
(* partition behind a large free space.                                     *)
EXTENDS Pool, TLC

CONSTANTS p1, p2, p3, p4, p5, n1, n2

MCSid == {p1, p2, p3, p4, p5, n1, n2}

Part(type, number, start, length, listed, active) ==
  [type |-> type, number |-> number, region |-> [start |-> start, length |-> length],
   listed |-> listed, active |-> active]

MCDisks ==
  {[pt |-> "MSDOS",
    partitions |-> p1 :> Part("PRIMARY", 1, 1, 2, FALSE, FALSE)
                   @@ p2 :> Part("EXTENDED", 2, 3, 17, FALSE, FALSE)
                   @@ p3 :> Part("LOGICAL", 5, 5, 2, FALSE, FALSE)
                   @@ p4 :> Part("LOGICAL", 6, 9, 4, TRUE, FALSE)
                   @@ p5 :> Part("LOGICAL", 7, 15, 2, last.listed, last.active)] :
     last \in {x \in [listed : BOOLEAN, active : BOOLEAN] : x.active => x.listed}}
  \cup
  {[pt |-> "GPT",
    partitions |-> p1 :> Part("PRIMARY", 1, 3, 4, FALSE, FALSE)
                   @@ p2 :> Part("PRIMARY", 2, 9, 2, TRUE, FALSE)
                   @@ p3 :> Part("PRIMARY", 4, 11, 4, FALSE, FALSE)]}

MCOtherDisk == [pt |-> "GPT", partitions |-> p1 :> Part("PRIMARY", 1, 13, 6, FALSE, FALSE)]
=============================================================================
