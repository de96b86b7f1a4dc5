-------------------------------- MODULE MCFat32 --------------------------------
(***************************************************************************)
(* A volume of 14 clusters of 2 bytes and 2 directory entries; the image   *)
(* holds one file, "k", in cluster 3.  Command lines redirect to "a" and   *)
(* "b" with writes of up to 3 bytes, so writes cross clusters, the         *)
(* root directory grows a second cluster, and a file is rewritten.         *)
(***************************************************************************)
EXTENDS Fat32

MCInitRoot == << [name |-> "k", attr |-> "archive", first |-> 3, size |-> 2], ZeroEntry >>
=============================================================================
