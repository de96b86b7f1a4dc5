---------------------------- MODULE MCFat32Delete ----------------------------
(* The volume of MCFat32, with rm. *)
EXTENDS Fat32Delete

MCInitRoot == << [name |-> "k", attr |-> "archive", first |-> 3, size |-> 2], ZeroEntry >>
=============================================================================
