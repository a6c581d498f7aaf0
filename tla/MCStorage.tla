------------------------------- MODULE MCStorage -------------------------------
(***************************************************************************)
(* A disk, named in LIBSTORAGE_TABOOS, and a partition that may be         *)
(* created; one name for backups; perhaps a file that an earlier program   *)
(* saved, whose storage id is one this program gives to another thing.      *)
(***************************************************************************)
EXTENDS Storage

CONSTANTS sda, sda1

MCSaved == {Null, [s \in {1} |-> sda1]}
=============================================================================
