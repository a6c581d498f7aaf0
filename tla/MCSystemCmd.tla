----------------------------- MODULE MCSystemCmd -----------------------------
(* A text that does not fit into the pipe, and outputs that do not either or *)
(* are read in several pieces.                                               *)
EXTENDS SystemCmd

MCRoom == [stdin |-> 1, stdout |-> 2, stderr |-> 1]
MCChar == [stdout |-> {"a", NewLine}, stderr |-> {"a"}]
MCMaxOut == [stdout |-> 3, stderr |-> 1]
=============================================================================
