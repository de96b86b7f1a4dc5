-------------------------------- MODULE Fat32 --------------------------------
(***************************************************************************)
(* The FAT32 volume of fat.cpp as the terminal writes to it: a command     *)
(* line with "> name" (Terminal::ExecuteLine) finds the file in the root   *)
(* directory or creates it (CreateFile, AllocateEntry, SetFileName), opens *)
(* a fat32::FileDescriptor on its directory entry, the command's output    *)
(* goes to FileDescriptor::Write (AllocateClusterChain, ExtendCluster,     *)
(* NextCluster), and the descriptor is dropped at the end of the line.     *)
(* The FAT is GetFAT()'s table, a directory cluster is its entries; the    *)
(* bytes of a file are counted, not kept.  bytes_per_cluster is split into *)
(* the entries a cluster holds and the bytes it holds, both small.         *)
(***************************************************************************)
EXTENDS Naturals, Sequences, SequencesExt

CONSTANTS NC,            \* clusters 2 .. NC + 1 of the volume
          EPC,           \* directory entries per cluster (bytes_per_cluster / 32)
          BPC,           \* bytes per cluster
          Names,         \* the file names command lines redirect to
          InitRoot,      \* the entries of the root cluster in the volume image
          MaxWrite,      \* bound on the length of one Write
          MaxFileSize    \* bound on the bytes written through one descriptor

Clusters == 2 .. NC + 1
kRootCluster == 2
kEndOfClusterchain == 268435455    \* 0x0fffffff
kMediaEntry == 268435448           \* FAT[0]: 0x0ffffff8
\* IsEndOfClusterchain
IsEndOfClusterchain(c) == c >= 268435448

\* A directory entry: name is "end" for name[0] == 0x00, "deleted" for
\* name[0] == 0xe5, or the file's name; first is FirstCluster().
ZeroEntry == [name |-> "end", attr |-> "none", first |-> 0, size |-> 0]
NoPos == <<0, 0>>
NoFd == [pos |-> NoPos, wr_off |-> 0, wr_cluster |-> 0, wr_cluster_off |-> 0]

VARIABLES fat,      \* GetFAT(): cluster -> next cluster, 0 (free) or end of chain
          dirent,   \* cluster -> its EPC directory entries
          fd,       \* the redirect's FileDescriptor, or NoFd
          wild      \* a Write went to a cluster outside the data region

vars == <<fat, dirent, fd, wild>>

-----------------------------------------------------------------------------
(* The FAT.                                                                *)

\* NextCluster
NextCluster(f, c) == IF IsEndOfClusterchain(f[c]) THEN kEndOfClusterchain ELSE f[c]

RECURSIVE ChainFrom(_, _, _)
\* The clusters from c on by NextCluster, at most k of them.
ChainFrom(f, c, k) ==
  IF c = kEndOfClusterchain \/ k = 0 THEN << >>
  ELSE <<c>> \o ChainFrom(f, NextCluster(f, c), k - 1)

Chain(f, c) == IF c = 0 THEN << >> ELSE ChainFrom(f, c, NC + 2)

RECURSIVE ChainEnd(_, _)
\* The first loop of ExtendCluster: the cluster whose FAT entry ends the chain.
ChainEnd(f, c) == IF IsEndOfClusterchain(f[c]) THEN c ELSE ChainEnd(f, f[c])

RECURSIVE LinkFreeAny(_, _, _, _)
\* Mutant of LinkFree: the candidate loop does not skip used clusters.
LinkFreeAny(f, cur, cand, k) ==
  IF k = 0 THEN [fat |-> [f EXCEPT ![cur] = kEndOfClusterchain], last |-> cur, short |-> FALSE]
  ELSE IF cand > NC + 1 THEN [fat |-> f, last |-> cur, short |-> TRUE]
  ELSE IF cand = cur THEN LinkFreeAny(f, cur, cand + 1, k)
  ELSE LinkFreeAny([f EXCEPT ![cur] = cand], cand, cand + 1, k - 1)

RECURSIVE LinkFree(_, _, _, _)
\* The candidate loop of ExtendCluster from candidate on: each free cluster
\* is linked after current until n are; then current ends the chain.  The
\* loop has no bound (fat.cpp 231): short says it would have run past the
\* FAT.
LinkFree(f, cur, cand, k) ==
  IF k = 0 THEN [fat |-> [f EXCEPT ![cur] = kEndOfClusterchain], last |-> cur, short |-> FALSE]
  ELSE IF cand > NC + 1 THEN [fat |-> f, last |-> cur, short |-> TRUE]
  ELSE IF f[cand] /= 0 THEN LinkFree(f, cur, cand + 1, k)
  ELSE LinkFree([f EXCEPT ![cur] = cand], cand, cand + 1, k - 1)

\* ExtendCluster(eoc_cluster, n): the last cluster it linked, or eoc_cluster.
ExtendCluster(f, eoc, n) == LinkFree(f, ChainEnd(f, eoc), 2, n)

\* AllocateClusterChain(n): the first free cluster ends a chain, extended by
\* n - 1 clusters.
AllocateClusterChain(f, n) ==
  LET free == {c \in Clusters : f[c] = 0}
      first == Min(free)
      f1 == [f EXCEPT ![first] = kEndOfClusterchain]
      e == IF n > 1 THEN ExtendCluster(f1, first, n - 1)
           ELSE [fat |-> f1, last |-> first, short |-> FALSE]
  IN  IF free = {} THEN [fat |-> f, first |-> 0, short |-> TRUE]
      ELSE [fat |-> e.fat, first |-> first, short |-> e.short]

-----------------------------------------------------------------------------
(* The root directory.                                                     *)

RootChain == Chain(fat, kRootCluster)

\* The entries of a cluster, in order, up to the first end marker.
Live(e) == LET ends == {i \in 1 .. EPC : e[i].name = "end"}
           IN  IF ends = {} THEN 1 .. EPC ELSE 1 .. Min(ends) - 1

RECURSIVE FindIn(_, _, _)
\* The loop of FindFile over the directory's chain: the first entry of
\* that name before an end marker; an end marker stops the search.
FindIn(cs, k, n) ==
  IF k > Len(cs) THEN NoPos
  ELSE LET e == dirent[cs[k]]
           hits == {i \in Live(e) : e[i].name = n}
       IN  IF hits /= {} THEN <<cs[k], Min(hits)>>
           ELSE IF Live(e) /= 1 .. EPC THEN NoPos
           ELSE FindIn(cs, k + 1, n)

\* FindFile(name) for a name without '/': the root directory.
FindFile(n) == FindIn(RootChain, 1, n)

RECURSIVE FreeIn(_, _)
\* The loop of AllocateEntry over the chain: the first entry whose name[0]
\* is 0x00 or 0xe5.
FreeIn(cs, k) ==
  IF k > Len(cs) THEN NoPos
  ELSE LET e == dirent[cs[k]]
           free == {i \in 1 .. EPC : e[i].name \in {"end", "deleted"}}
       IN  IF free /= {} THEN <<cs[k], Min(free)>> ELSE FreeIn(cs, k + 1)

\* Mutant of AllocateEntry: the entry after the free one is returned.
AllocateEntryNext(f, d) ==
  LET p == FreeIn(Chain(f, kRootCluster), 1)
      e == ExtendCluster(f, kRootCluster, 1)
  IN  IF p /= NoPos /\ p[2] < EPC
      THEN [pos |-> <<p[1], p[2] + 1>>, fat |-> f, dirent |-> d, short |-> FALSE]
      ELSE [pos |-> <<e.last, 1>>, fat |-> e.fat,
            dirent |-> [d EXCEPT ![e.last] = [i \in 1 .. EPC |-> ZeroEntry]],
            short |-> e.short]

\* AllocateEntry(root_cluster): a free entry of the chain, or the first
\* entry of a cluster the directory is extended by, zeroed.
AllocateEntry(f, d) ==
  LET p == FreeIn(Chain(f, kRootCluster), 1)
      e == ExtendCluster(f, kRootCluster, 1)
  IN  IF p /= NoPos
      THEN [pos |-> p, fat |-> f, dirent |-> d, short |-> FALSE]
      ELSE [pos |-> <<e.last, 1>>, fat |-> e.fat,
            dirent |-> [d EXCEPT ![e.last] = [i \in 1 .. EPC |-> ZeroEntry]],
            short |-> e.short]

Entry(d, p) == d[p[1]][p[2]]

-----------------------------------------------------------------------------
(* Init and the redirect.                                                  *)

\* The volume image: the root directory in cluster 2, and each file of it
\* in one cluster.
Init ==
  /\ fat = [c \in 0 .. NC + 1 |->
              IF c = 0 THEN kMediaEntry
              ELSE IF c = 1 \/ c = kRootCluster THEN kEndOfClusterchain
              ELSE IF \E i \in 1 .. EPC : InitRoot[i].first = c THEN kEndOfClusterchain
              ELSE 0]
  /\ dirent = [c \in Clusters |->
                 IF c = kRootCluster THEN InitRoot ELSE [i \in 1 .. EPC |-> ZeroEntry]]
  /\ fd = NoFd
  /\ wild = FALSE

\* CreateFile(name) for a name without '/' (fat.cpp 293-328): AllocateEntry
\* in the root directory, SetFileName, which sets the name and nothing else,
\* and file_size = 0.
CreateFile(f, d, n) ==
  LET a == AllocateEntry(f, d) IN
  [a EXCEPT !.dirent = [@ EXCEPT ![a.pos[1]][a.pos[2]].name = n,
                                 ![a.pos[1]][a.pos[2]].size = 0]]

\* "> name" in ExecuteLine (terminal.cpp 479-499): FindFile, or CreateFile;
\* a directory is refused; then a FileDescriptor on the entry.
RedirectOpen(n) ==
  /\ fd = NoFd
  /\ LET p == FindFile(n)
         cf == CreateFile(fat, dirent, n)
     IN  IF p /= NoPos
         THEN /\ Entry(dirent, p).attr /= "dir"
              /\ fd' = [NoFd EXCEPT !.pos = p]
              /\ UNCHANGED <<fat, dirent>>
         ELSE /\ ~cf.short
              /\ fat' = cf.fat
              /\ dirent' = cf.dirent
              /\ fd' = [NoFd EXCEPT !.pos = cf.pos]
  /\ UNCHANGED wild

-----------------------------------------------------------------------------
(* FileDescriptor::Write.                                                  *)

\* num_cluster(bytes)
NumCluster(bytes) == (bytes + BPC - 1) \div BPC

\* A cluster Write may copy into: GetSectorByCluster of anything else is
\* outside the data region (cluster 0 or 1 lies in the FAT).
InData(c) == c \in Clusters

RECURSIVE WriteLoop(_, _)

\* Mutant of WriteLoop: the copy ignores the offset in the cluster.
WriteLoopWholeCluster(w, len) ==
  IF w.total >= len \/ w.short THEN w
  ELSE LET nx == NextCluster(w.fat, w.cl)
           e  == ExtendCluster(w.fat, w.cl, NumCluster(len - w.total))
           w1 == IF w.off /= BPC THEN w
                 ELSE IF nx = kEndOfClusterchain
                 THEN [w EXCEPT !.fat = e.fat, !.cl = e.last, !.off = 0, !.short = e.short]
                 ELSE [w EXCEPT !.cl = nx, !.off = 0]
           n  == Min({len, BPC})
       IN  WriteLoop([w1 EXCEPT !.total = @ + n, !.off = @ + n,
                                !.wild = @ \/ ~InData(w1.cl)], len)

\* The while loop of Write: at the end of a cluster, the next one, or an
\* ExtendCluster by num_cluster(len - total) whose last cluster is written
\* next; then min(len, bytes_per_cluster - _wr_cluster_off) bytes.
WriteLoop(w, len) ==
  IF w.total >= len \/ w.short THEN w
  ELSE LET nx == NextCluster(w.fat, w.cl)
           e  == ExtendCluster(w.fat, w.cl, NumCluster(len - w.total))
           w1 == IF w.off /= BPC THEN w
                 ELSE IF nx = kEndOfClusterchain
                 THEN [w EXCEPT !.fat = e.fat, !.cl = e.last, !.off = 0, !.short = e.short]
                 ELSE [w EXCEPT !.cl = nx, !.off = 0]
           n  == Min({len, BPC - w1.off})
       IN  WriteLoop([w1 EXCEPT !.total = @ + n, !.off = @ + n,
                                !.wild = @ \/ ~InData(w1.cl)], len)

\* Mutant of Write's size update: file_size grows by what was written.
SetSizeAppend(ent, wr_off, total) == ent.size + total

\* _fat_entry.file_size = _wr_off
SetSize(ent, wr_off, total) == wr_off

\* Write(buf, len) through the redirect (the output of one PrintToFD): a
\* descriptor without a cluster takes the entry's first cluster, or an
\* AllocateClusterChain(num_cluster(len)) it stores in the entry; then the
\* loop, _wr_off and file_size.
Write(len) ==
  /\ fd /= NoFd /\ fd.wr_off < MaxFileSize
  /\ LET ent == Entry(dirent, fd.pos)
         ac  == AllocateClusterChain(fat, NumCluster(len))
         new == fd.wr_cluster = 0 /\ ent.first = 0
         c0  == IF fd.wr_cluster /= 0 THEN fd.wr_cluster
                ELSE IF ent.first /= 0 THEN ent.first ELSE ac.first
         w   == WriteLoop([fat |-> IF new THEN ac.fat ELSE fat, cl |-> c0,
                           off |-> fd.wr_cluster_off, total |-> 0,
                           wild |-> wild, short |-> new /\ ac.short], len)
     IN  /\ ~w.short
         /\ fat' = w.fat
         /\ dirent' = [dirent EXCEPT
                         ![fd.pos[1]][fd.pos[2]].first = IF new THEN ac.first ELSE @,
                         ![fd.pos[1]][fd.pos[2]].size =
                            SetSize(ent, fd.wr_off + w.total, w.total)]
         /\ fd' = [fd EXCEPT !.wr_off = @ + w.total, !.wr_cluster = w.cl,
                             !.wr_cluster_off = w.off]
         /\ wild' = w.wild

\* The end of ExecuteLine: _files[1] = original_stdout drops the descriptor.
RedirectClose == /\ fd /= NoFd
                 /\ fd' = NoFd
                 /\ UNCHANGED <<fat, dirent, wild>>

Next == \/ \E n \in Names : RedirectOpen(n)
        \/ \E len \in 1 .. MaxWrite : Write(len)
        \/ RedirectClose

Spec == Init /\ [][Next]_vars

-----------------------------------------------------------------------------
Entries == [name : Names \cup {"end", "deleted"} \cup {InitRoot[i].name : i \in 1 .. EPC}, attr : {"none", "archive", "dir", "system"},
            first : 0 .. NC + 1, size : Nat]

\* The root directory's entries, in the order FindFile reads them.
RootEntries == UNION {{<<c, i>> : i \in 1 .. EPC} : c \in ToSet(RootChain)}
Files == {p \in RootEntries : Entry(dirent, p).name \notin {"end", "deleted"}}
FileChain(p) == Chain(fat, Entry(dirent, p).first)

TypeOK == /\ fat \in [0 .. NC + 1 -> 0 .. NC + 1 \cup {kEndOfClusterchain, kMediaEntry}]
          /\ dirent \in [Clusters -> [1 .. EPC -> Entries]]
          /\ fd \in [pos : RootEntries \cup {NoPos}, wr_off : Nat,
                     wr_cluster : 0 .. NC + 1, wr_cluster_off : 0 .. BPC]
          /\ wild \in BOOLEAN

\* The FAT stays a forest of disjoint chains: the root directory's chain and
\* each file's chain end in the end-of-chain mark without a cycle, no two
\* share a cluster, every used cluster is on one of them, and the reserved
\* entries FAT[0] and FAT[1] keep their values.  ExtendCluster and
\* AllocateClusterChain must take only free clusters, Write must store the
\* chain it allocates in the entry, and no Write may go astray.
FatIsForest ==
  LET chains == {RootChain} \cup {FileChain(p) : p \in Files}
      owned  == UNION {ToSet(s) : s \in chains}
  IN  /\ \A s \in chains : Len(s) <= NC /\ \A i \in DOMAIN s : InData(s[i])
      /\ \A p, q \in Files : p /= q => ToSet(FileChain(p)) \cap ToSet(FileChain(q)) = {}
      /\ \A p \in Files : ToSet(FileChain(p)) \cap ToSet(RootChain) = {}
      /\ {c \in Clusters : fat[c] /= 0} = owned
      /\ fat[0] = kMediaEntry /\ fat[1] = kEndOfClusterchain
      /\ ~wild

\* A file never claims more bytes than its chain holds, so Read, which
\* follows NextCluster for file_size bytes, stays on the file's chain.
SizeWithinChain ==
  \A p \in Files : Entry(dirent, p).size <= Len(FileChain(p)) * BPC

\* A name the terminal created is found again: every named entry of the root
\* directory lies before the first end marker and no two have one name, so
\* the next "> name" opens the same file rather than creating another.
FilesFindable ==
  /\ \A p \in Files : FindFile(Entry(dirent, p).name) = p
=============================================================================
