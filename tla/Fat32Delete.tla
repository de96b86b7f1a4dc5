----------------------------- MODULE Fat32Delete -----------------------------
(***************************************************************************)
(* The terminal's "rm name" (terminal.cpp 723-728) added to the redirects  *)
(* of Fat32: fat32::DeleteFile frees the file's chain with FreeCluster and *)
(* marks its entry deleted (name[0] = 0xe5), and AllocateEntry hands such  *)
(* an entry to the next CreateFile.                                        *)
(***************************************************************************)
EXTENDS Fat32

RECURSIVE FreeCluster(_, _)
\* FreeCluster(cluster): the rest of the chain first, then this entry.
FreeCluster(f, c) ==
  IF IsEndOfClusterchain(f[c]) \/ f[c] = 0 THEN [f EXCEPT ![c] = 0]
  ELSE [FreeCluster(f, f[c]) EXCEPT ![c] = 0]

\* DeleteFile(name, err_str) (fat.cpp 332-387) for a name without '/': no
\* such file, a directory and a system file are refused; so is a file whose
\* previous 32 bytes are a long-name entry, and for the first entry of a
\* cluster those bytes lie outside it (any value).  Otherwise the chain is
\* freed and the entry marked deleted.
Rm(n) ==
  /\ fd = NoFd
  /\ LET p == FindFile(n)
         ent == Entry(dirent, p)
     IN  /\ p /= NoPos
         /\ ent.attr \notin {"dir", "system"}
         /\ \E prev_lfn \in IF p[2] = 1 THEN BOOLEAN
                            ELSE {dirent[p[1]][p[2] - 1].attr = "lfn"} :
              ~prev_lfn
         /\ fat' = FreeCluster(fat, ent.first)
         /\ dirent' = [dirent EXCEPT ![p[1]][p[2]].name = "deleted"]
  /\ UNCHANGED <<fd, wild>>

NextDelete == Next \/ \E n \in Names : Rm(n)

SpecDelete == Init /\ [][NextDelete]_vars

\* Every file's chain is its own: each cluster on it is a data cluster in use
\* in the FAT, and no other file's chain has it.  A file the terminal
\* creates after an rm must not inherit clusters that rm gave back.
FilesOwnTheirClusters ==
  /\ \A p \in Files : \A i \in DOMAIN FileChain(p) :
        InData(FileChain(p)[i]) /\ fat[FileChain(p)[i]] /= 0
  /\ \A p, q \in Files : p /= q => ToSet(FileChain(p)) \cap ToSet(FileChain(q)) = {}
=============================================================================
