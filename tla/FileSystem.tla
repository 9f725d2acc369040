----------------------------- MODULE FileSystem ------------------------------
(***************************************************************************)
(* The file system server (servers/fs/fs.cpp, servers/fs/serverstate.cpp)  *)
(* on a FAT32 volume, together with the file descriptors of the            *)
(* application management server that talk to it (FatFileDescriptor of     *)
(* servers/am/filedescriptor.cpp).                                         *)
(*                                                                         *)
(* The server takes requests only from the application management server,  *)
(* one at a time, and its answer is complete before the next request: a    *)
(* step is one request.  A write() holds the application management server *)
(* until its last message, so write() calls do not overlap.  Paths are     *)
(* names in the root directory; subdirectories are searched the same way.  *)
(***************************************************************************)
EXTENDS Integers, Sequences, FiniteSets, SequencesExt

CONSTANTS
  Name,           \* the names programs use
  Stored,         \* SetFileName: the 8.3 name an entry gets for each name
  Compared,       \* NameIsEqual: the 8.3 name an entry must have to match
  LastCluster,    \* clusters 2..LastCluster exist
  ClusterBytes,   \* bytes_per_cluster_
  ClusterEntries, \* directory entries in a cluster
  Chunk,          \* bytes in a message, 16 in the code
  ReadCounts,     \* the counts read() is called with
  WriteCounts,    \* the counts write() is called with
  Fd,             \* file descriptors
  MaxWrites,      \* bound of the model: write() calls
  MaxFiles        \* bound of the model: files that are created

ASSUME FileSystemAssumption ==
  /\ {LastCluster, ClusterBytes, ClusterEntries, Chunk, MaxWrites, MaxFiles} \subseteq Nat \ {0}
  /\ Chunk <= ClusterBytes /\ ReadCounts \cup WriteCounts \subseteq Nat \ {0} /\ LastCluster >= 2
  /\ DOMAIN Stored = Name /\ DOMAIN Compared = Name

Cluster == 2..LastCluster
Free == 0
EOC == -1                 \* 0x0ffffff8 and above
root == 2                 \* bpb_.root_cluster

Empty == "empty"          \* the name of an entry that was never used
Entry(name, first, size) == [name |-> name, first |-> first, size |-> size]
NoEntry == Entry(Empty, 0, 0)

(* A byte is the number of the write() call it comes from and the offset   *)
(* in the file it is meant for.  Junk is what lies in a message behind its *)
(* len bytes.                                                              *)
Zero == <<0, 0>>
Junk == <<-1, 0>>
NoByte == <<-2, 0>>

VARIABLES
  vol,      \* the volume: vol.fat, vol.dir (entries of a directory cluster), vol.data;
            \* vol.lost: the search for a free cluster has left the FAT
  fds,      \* the open file descriptors: filename_, rd_off_, rd_cluster_, wr_off_
  call,     \* the write() under way: descriptor, bytes left, count
  calls,    \* number of write() calls so far
  crashed,  \* the server has used the null pointer of a file it did not find
  written   \* history: what each file should hold, NoByte where nobody cares

vars == <<vol, fds, call, calls, crashed, written>>

NoCall == [fd |-> 0, left |-> 0, count |-> 0]
Offset == 0..(MaxWrites * (CHOOSE m \in WriteCounts : \A n \in WriteCounts : n <= m))
Closed == [name |-> Empty, rd |-> 0, cluster |-> 0, wr |-> 0]
RootDir == "/"

-----------------------------------------------------------------------------
(* The FAT.                                                                *)

NextCluster(v, c) == v.fat[c]

(* The clusters of the chain that starts at c, in order.                   *)
Chain(v, c) ==
  LET after[k \in 0..LastCluster] ==
        IF k = 0 THEN <<c>>
        ELSE LET ch == after[k - 1]
             IN  IF NextCluster(v, Last(ch)) \in Cluster
                 THEN Append(ch, NextCluster(v, Last(ch))) ELSE ch
  IN  after[LastCluster]

FreeClusters(v) == {c \in Cluster : v.fat[c] = Free}
Lowest(S) == CHOOSE c \in S : \A d \in S : c <= d

(* ExtendCluster(eoc_cluster, n): from the end of the chain on, n times    *)
(* the lowest free cluster.  The search has no bound: on a full volume it  *)
(* goes on behind the FAT.                                                 *)
ExtendCluster(v, c, n) ==
  LET after[k \in 0..n] ==
        IF k = 0 THEN v
        ELSE LET w == after[k - 1]
             IN  IF FreeClusters(w) = {} THEN [w EXCEPT !.lost = TRUE]
                 ELSE [w EXCEPT !.fat[Last(Chain(w, c))] = Lowest(FreeClusters(w)),
                                !.fat[Lowest(FreeClusters(w))] = EOC]
  IN  after[n]

(* Mutant of AllocateClusterChain: the FAT is not written back.            *)
AllocateUnmarked(v, n) == v

(* AllocateClusterChain(n): starts with the lowest free cluster.           *)
AllocateClusterChain(v, n) ==
  IF FreeClusters(v) = {} THEN [v EXCEPT !.lost = TRUE]
  ELSE LET c == Lowest(FreeClusters(v))
           w == [v EXCEPT !.fat[c] = EOC]
       IN  IF n > 1 THEN ExtendCluster(w, c, n - 1) ELSE w

-----------------------------------------------------------------------------
(* The root directory: entry k, counted over all its clusters.             *)

Entries(v) ==
  LET ch == Chain(v, root)
  IN  [k \in 0..(Len(ch) * ClusterEntries - 1) |->
         v.dir[ch[(k \div ClusterEntries) + 1]][k % ClusterEntries]]
SetEntry(v, k, e) ==
  [v EXCEPT !.dir[Chain(v, root)[(k \div ClusterEntries) + 1]][k % ClusterEntries] = e]
FirstEntry(v, name) ==
  LET es == Entries(v)
      K  == {k \in DOMAIN es : es[k].name = name}
  IN  IF K = {} THEN -1 ELSE Lowest(K)

Files(v) == {k \in DOMAIN Entries(v) : Entries(v)[k].name # Empty}

(* FindFile, over every cluster of the directory; -1 is the null pointer.  *)
FindFile(v, n) == FirstEntry(v, Compared[n])

(* AllocateEntry: an unused entry, or the first of one more cluster.       *)
AllocateEntry(v) ==
  IF FirstEntry(v, Empty) # -1 THEN v
  ELSE LET w == ExtendCluster(v, root, 1)
       IN  IF w.lost THEN w
           ELSE [w EXCEPT !.dir[Last(Chain(w, root))] = [i \in 0..(ClusterEntries - 1) |-> NoEntry]]

(* Mutant of CreateFile: the new entry always goes to the first place.     *)
CreateFileAtStart(v, n) ==
  LET w == AllocateEntry(v)
  IN  IF w.lost THEN w ELSE SetEntry(w, 0, Entry(Stored[n], 0, 0))

CreateFile(v, n) ==
  LET w == AllocateEntry(v)
  IN  IF w.lost THEN w
      ELSE SetEntry(w, FirstEntry(w, Empty), Entry(Stored[n], 0, 0))

-----------------------------------------------------------------------------
(* WriteState: one message with the bytes ds for offset off of the file    *)
(* whose chain starts at first.                                            *)

(* Mutant of Locate: the walk along the chain is missing.                  *)
LocateFirst(v, first, k) == [v |-> v, c |-> first]

(* The k-th cluster of the chain, which is extended when it is too short.  *)
Locate(v, first, k) ==
  LET w == IF Len(Chain(v, first)) > k THEN v
           ELSE ExtendCluster(v, first, k + 1 - Len(Chain(v, first)))
  IN  [v |-> w, c |-> IF w.lost THEN first ELSE Chain(w, first)[k + 1]]

Put(v, c, at, bytes) ==
  [v EXCEPT !.data[c] = [i \in 1..ClusterBytes |->
     IF i \in (at + 1)..(at + Len(bytes)) THEN bytes[i - at] ELSE @[i]]]

(* At the end of a cluster the rest goes to the next one, which gets len   *)
(* bytes: those that remain, and what lies behind them in the message.     *)
WriteBytes(v, first, off, ds) ==
  LET at   == off % ClusterBytes
      here == Locate(v, first, off \div ClusterBytes)
      room == ClusterBytes - at
      next == Locate(here.v, first, (off \div ClusterBytes) + 1)
      rest == [i \in 1..Len(ds) |->
                 IF room + i <= Len(ds) THEN ds[room + i] ELSE Junk]
  IN  IF here.v.lost THEN here.v
      ELSE IF Len(ds) <= room THEN Put(here.v, here.c, at, ds)
      ELSE IF next.v.lost THEN next.v
      ELSE Put(Put(next.v, here.c, at, SubSeq(ds, 1, room)), next.c, 0, rest)

-----------------------------------------------------------------------------
(* ReadState.                                                              *)

(* The bytes with total in off .. off + count - 1, as far as the file and  *)
(* its chain go.  p starts with each cluster and moves only with a byte    *)
(* that is sent: in the cluster of off the bytes before off do not count.  *)
ReadFile(v, e, off, count) ==
  LET ch     == IF e.first = 0 THEN <<>> ELSE Chain(v, e.first)
      bytes  == IF e.size < Len(ch) * ClusterBytes THEN e.size ELSE Len(ch) * ClusterBytes
      end    == IF off + count < bytes THEN off + count ELSE bytes
      At(total) == LET c     == total \div ClusterBytes
                       begin == IF off > c * ClusterBytes THEN off ELSE c * ClusterBytes
                   IN  v.data[ch[c + 1]][total - begin + 1]
  IN  [i \in 1..(IF end > off THEN end - off ELSE 0) |-> At(off + i - 1)]

(* One entry of the root directory.  The cluster comes from the cluster of *)
(* the request; the index is reduced after the cluster has been found.     *)
ReadDir(v, cluster, off) ==
  LET ch     == Chain(v, root)
      big    == ClusterEntries <= off
      newCl  == IF big THEN off \div ClusterEntries ELSE cluster
      index  == IF big THEN off % ClusterEntries ELSE off
      e      == v.dir[ch[cluster + 1]][index]
  IN  IF cluster >= Len(ch) \/ e.name = Empty
      THEN [name |-> Empty, len |-> 0, cluster |-> cluster]
      ELSE [name |-> e.name, len |-> index + 1 + ClusterEntries * newCl - off, cluster |-> newCl]

(* Mutant of CopyToBuffer: offset is not advanced.                         *)
CopyToSameOffset(v, e) ==
  LET copy(acc, c) ==
        IF acc.remain >= ClusterBytes
        THEN [acc EXCEPT !.buf = v.data[c], !.remain = @ - ClusterBytes]
        ELSE [acc EXCEPT !.buf = SubSeq(v.data[c], 1, acc.remain)]
  IN  FoldLeft(copy, [buf |-> <<>>, remain |-> e.size],
               IF e.first = 0 THEN <<>> ELSE Chain(v, e.first)).buf

(* CopyToBufferState, when a file is executed; the volume does not change. *)
(* Cluster by cluster; once less than a cluster is left, every further     *)
(* cluster of the chain is copied to the same place.                       *)
CopyToBuffer(v, e) ==
  LET copy(acc, c) ==
        IF acc.remain >= ClusterBytes
        THEN [buf |-> SubSeq(acc.buf, 1, acc.off) \o v.data[c],
              off |-> acc.off + ClusterBytes, remain |-> acc.remain - ClusterBytes]
        ELSE [acc EXCEPT !.buf = SubSeq(@, 1, acc.off) \o SubSeq(v.data[c], 1, acc.remain)]
  IN  FoldLeft(copy, [buf |-> <<>>, off |-> 0, remain |-> e.size],
               IF e.first = 0 THEN <<>> ELSE Chain(v, e.first)).buf

-----------------------------------------------------------------------------
(* An empty volume.                                                        *)
Init ==
  /\ vol = [fat  |-> [c \in Cluster |-> IF c = root THEN EOC ELSE Free],
            dir  |-> [c \in Cluster |-> [i \in 0..(ClusterEntries - 1) |-> NoEntry]],
            data |-> [c \in Cluster |-> [i \in 1..ClusterBytes |-> Zero]],
            lost |-> FALSE]
  /\ fds = [f \in Fd |-> Closed]
  /\ call = NoCall
  /\ calls = 0
  /\ crashed = FALSE
  /\ written = [key \in {Stored[n] : n \in Name} |-> [o \in Offset |-> NoByte]]

(* The server takes the next request: it has not crashed, has not left the *)
(* FAT, and the application management server is not inside a write().     *)
Ready == call = NoCall /\ ~ crashed /\ ~ vol.lost

Opened(name) == [Closed EXCEPT !.name = name]

(* OpenState and AllocateFDState.  ENOENT without O_CREAT changes nothing. *)
Open(f, n, create) ==
  /\ Ready /\ fds[f] = Closed
  /\ IF FindFile(vol, n) # -1 THEN UNCHANGED vol
     ELSE /\ create /\ Cardinality(Files(vol)) < MaxFiles
          /\ vol' = CreateFile(vol, n)
  /\ fds' = IF vol'.lost THEN fds ELSE [fds EXCEPT ![f] = Opened(n)]
  /\ UNCHANGED <<call, calls, crashed, written>>

OpenDir(f) ==
  /\ Ready /\ fds[f] = Closed
  /\ fds' = [fds EXCEPT ![f] = Opened(RootDir)]
  /\ UNCHANGED <<vol, call, calls, crashed, written>>

(* The application exits; nothing is sent to the server.                   *)
Close(f) ==
  /\ call = NoCall /\ fds[f] # Closed
  /\ fds' = [fds EXCEPT ![f] = Closed]
  /\ UNCHANGED <<vol, call, calls, crashed, written>>

(* A read() of count bytes: kRead messages and the empty one at the end.   *)
ReadCall(f, count) ==
  /\ Ready /\ fds[f].name \in Name
  /\ LET k == FindFile(vol, fds[f].name)
     IN  IF k = -1 THEN crashed' = TRUE /\ UNCHANGED fds
         ELSE /\ fds' = [fds EXCEPT ![f].rd =
                           @ + Len(ReadFile(vol, Entries(vol)[k], @, count))]
              /\ UNCHANGED crashed
  /\ UNCHANGED <<vol, call, calls, written>>

ReadDirCall(f) ==
  /\ Ready /\ fds[f].name = RootDir
  /\ LET r == ReadDir(vol, fds[f].cluster, fds[f].rd)
     IN  /\ r.len # 0
         /\ fds' = [fds EXCEPT ![f].rd = @ + r.len, ![f].cluster = r.cluster]
  /\ UNCHANGED <<vol, call, calls, crashed, written>>

WriteCall(f, count) ==
  /\ Ready /\ fds[f].name \in Name
  /\ calls < MaxWrites
  /\ call' = [fd |-> f, left |-> count, count |-> count]
  /\ calls' = calls + 1
  /\ UNCHANGED <<vol, fds, crashed, written>>

(* The next message of the write(): a chunk, or the empty one, which sets  *)
(* the size of the file to the end of what was written.                    *)
WriteMessage ==
  LET fd  == fds[call.fd]
      k   == FindFile(vol, fd.name)
      e   == Entries(vol)[k]
      len == IF call.left > Chunk THEN Chunk ELSE call.left
      ds  == [i \in 1..len |-> <<calls, fd.wr + i - 1>>]
      new == AllocateClusterChain(vol, (call.count + ClusterBytes - 1) \div ClusterBytes)
      ent == IF e.first # 0 THEN e ELSE [e EXCEPT !.first = Lowest(FreeClusters(vol))]
      v   == IF e.first # 0 THEN vol
             ELSE IF new.lost THEN new ELSE SetEntry(new, k, ent)
      w   == IF v.lost THEN v
             ELSE IF len = 0 THEN SetEntry(v, k, [ent EXCEPT !.size = fd.wr])
             ELSE WriteBytes(v, ent.first, fd.wr, ds)
      old == written[e.name]
  IN  /\ call # NoCall /\ ~ crashed /\ ~ vol.lost
      /\ IF k = -1 THEN crashed' = TRUE /\ UNCHANGED <<vol, fds, call, written>>
         ELSE /\ vol' = w
              /\ fds' = [fds EXCEPT ![call.fd].wr = @ + len]
              /\ call' = IF len = 0 THEN NoCall ELSE [call EXCEPT !.left = @ - len]
              /\ written' = [written EXCEPT ![e.name] = [o \in Offset |->
                   IF o \in fd.wr..(fd.wr + len - 1) THEN <<calls, o>>
                   ELSE IF len = 0 /\ o >= fd.wr THEN NoByte ELSE old[o]]]
              /\ UNCHANGED crashed
      /\ UNCHANGED calls

Next ==
  \/ \E f \in Fd :
       \/ \E n \in Name, create \in BOOLEAN : Open(f, n, create)
       \/ OpenDir(f) \/ Close(f) \/ ReadDirCall(f)
       \/ \E count \in ReadCounts : ReadCall(f, count)
       \/ \E count \in WriteCounts : WriteCall(f, count)
  \/ WriteMessage

Spec == Init /\ [][Next]_vars

-----------------------------------------------------------------------------
Found(n) == FindFile(vol, n) # -1
FileOf(n) == Entries(vol)[FindFile(vol, n)]

(* bytes is what the file should hold from off on, as far as it is known.  *)
Agrees(bytes, key, off) ==
  \A i \in 1..Len(bytes) : written[key][off + i - 1] \in {NoByte, bytes[i]}

(* The chains of the directory and of all files are without loops, end in  *)
(* an end mark, have no cluster in common and hold the size of the file;   *)
(* a cluster that is in no chain is free (nothing is lost).                *)
VolumeConsistent ==
  LET es     == Entries(vol)
      chains == {[owner |-> -1, size |-> 0, cs |-> Chain(vol, root)]} \cup
                {[owner |-> k, size |-> es[k].size,
                  cs |-> IF es[k].first = 0 THEN <<>> ELSE Chain(vol, es[k].first)] : k \in Files(vol)}
  IN  ~ vol.lost =>
        /\ \A x \in chains : /\ IsInjective(x.cs)
                             /\ x.cs # <<>> => vol.fat[Last(x.cs)] = EOC
                             /\ x.size <= Len(x.cs) * ClusterBytes
        /\ \A x, y \in chains : x # y => Range(x.cs) \cap Range(y.cs) = {}
        /\ FreeClusters(vol) = Cluster \ UNION {Range(x.cs) : x \in chains}

(* Between two write() calls a file read from its start has its full size  *)
(* and every byte that was written, in its place, whatever chunks crossed  *)
(* a cluster, and whatever other files were written in between.            *)
ContentsKept ==
  call = NoCall /\ ~ vol.lost => \A n \in Name : Found(n) =>
    LET e     == FileOf(n)
        bytes == ReadFile(vol, e, 0, e.size)
    IN  Len(bytes) = e.size /\ Agrees(bytes, e.name, 0)

(* The image of a program that is executed is the file, unless its chain   *)
(* is longer than the size needs (a file that was rewritten shorter).      *)
ImageIsFile ==
  call = NoCall /\ ~ vol.lost => \A n \in Name : Found(n) =>
    LET e     == FileOf(n)
        chain == IF e.first = 0 THEN <<>> ELSE Chain(vol, e.first)
        bytes == CopyToBuffer(vol, e)
    IN  Len(chain) * ClusterBytes < e.size + ClusterBytes =>
          Len(bytes) = e.size /\ Agrees(bytes, e.name, 0)

(* A name that can be found keeps meaning the same directory entry: no     *)
(* entry moves, is overwritten, or is hidden by one that is created later. *)
FilesStay ==
  [][\A n \in Name : Found(n) => FindFile(vol', n) = FindFile(vol, n)]_vars

(* rd_off_ of a file is an offset in bytes: the next read() returns the    *)
(* bytes that follow those of the reads before.                            *)
ReadAtOffset ==
  call = NoCall /\ ~ vol.lost => \A f \in Fd, count \in ReadCounts :
    fds[f].name \in Name /\ Found(fds[f].name) =>
      LET e == FileOf(fds[f].name)
      IN  Agrees(ReadFile(vol, e, fds[f].rd, count), e.name, fds[f].rd)

(* rd_off_ of a directory is the index of an entry: the next entry that is *)
(* returned is the first one at or behind it.                              *)
ListAtIndex ==
  ~ vol.lost => \A f \in Fd :
    LET r == ReadDir(vol, fds[f].cluster, fds[f].rd)
    IN  fds[f].name = RootDir /\ r.len # 0 =>
          fds[f].rd \in DOMAIN Entries(vol) /\ r.name = Entries(vol)[fds[f].rd].name
=============================================================================
