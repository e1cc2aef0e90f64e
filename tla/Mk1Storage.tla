----------------------------- MODULE Mk1Storage -----------------------------
(***************************************************************************)
(* Microkernel1's storage stack: the FAT file server (fs/fat) and the      *)
(* virtio block driver (device/virtio) it reads sectors from.  Both serve  *)
(* one message at a time.  The content of the disk is the symbolic byte    *)
(* <<cluster, sector, byte>>; a buffer byte nobody wrote is Garbage.       *)
(* Directories are one sector long.                                        *)
(***************************************************************************)
EXTENDS Integers, Sequences, FiniteSets, SequencesExt

CONSTANTS
  Sector,      \* FAT_SECTOR_SIZE
  SPC,         \* bpb->sectors_per_cluster
  Layout,      \* bpb: reserved, fat_num, fat_size, root_size (sectors)
  ClusterNum,  \* clusters 2..ClusterNum+1
  Words,       \* <<lba, i>> -> the i-th FAT entry after the start of a sector
  Types,       \* the disk types a run tries
  Root,        \* entries of the root directory
  Dirs,        \* cluster of a directory -> its entries
  NameMax,     \* 8
  ExtMax,      \* 3
  Paths,       \* what clients open: the memory at the path, and its length
  Offsets, Sizes,
  FILES_MAX, QueueNum

VARIABLES
  type,    \* disk->type
  files,   \* files[]
  desc,    \* the descriptors of the request queue
  req      \* what the servers are doing

vars == <<type, files, desc, req>>

Garbage == <<0, 0, 0>>
END == -1                      \* FAT_CLUSTER_END
ERROR == -2                    \* what read_disk returns when it fails
NUL == "NUL"
Idle == [phase |-> "idle"]

(* opendisk: where the FAT, the root directory and the data begin. *)
RootDirLba == Layout.reserved + Layout.fat_size * Layout.fat_num
DataLba == RootDirLba + Layout.root_size
\* Mutant: clusters are numbered from 0.
ClusterToLbaFromZero(c) == IF c = 0 THEN RootDirLba ELSE c * SPC + DataLba
ClusterToLba(c) == IF c = 0 THEN RootDirLba ELSE (c - 2) * SPC + DataLba
(* The disk: the byte b of a sector. *)
Byte(lba, b) ==
  IF lba >= DataLba /\ lba < DataLba + ClusterNum * SPC
  THEN <<(lba - DataLba) \div SPC + 2, (lba - DataLba) % SPC, b>>
  ELSE Garbage

(* get_next_cluster: the first sector of the FAT is taken for the number   *)
(* of a cluster, and the array of entries is indexed with an offset in     *)
(* bytes.  When the disk cannot be read, the error is the next cluster.    *)
NextClusters(c) ==
  LET width == IF type = 32 THEN 4 ELSE 2
      at == <<ClusterToLba(Layout.reserved) + (c * width) \div Sector, (c * width) % Sector>>
  IN  IF c = 0 \/ type = 12 THEN {0}
      ELSE {IF at \in DOMAIN Words THEN Words[at] ELSE END, ERROR}
RECURSIVE Follow(_, _)
Follow(c, n) == IF n = 0 THEN {c} ELSE UNION {Follow(d, n - 1) : d \in NextClusters(c)}

-----------------------------------------------------------------------------
(* get_next_filename: the name up to '/', '.' or NameMax characters, then  *)
(* the extension up to '/' or ExtMax.  The '.' and the '/' that are passed *)
(* over are not taken off the length, so the last name may be read past    *)
(* its NUL, up to what follows it in memory.                               *)
Scanned(text, size, max, stops) ==
  LET n == Min({size, max, Len(text)})
      at == {i \in 1..n : text[i] \in stops}
  IN  IF at = {} THEN n ELSE Min(at) - 1
Stopped(text, size, max, k, char) == k < Min({size, max, Len(text)}) /\ text[k + 1] = char
CString(text) ==
  LET nul == {i \in 1..Len(text) : text[i] = NUL}
  IN  IF nul = {} THEN text ELSE SubSeq(text, 1, Min(nul) - 1)
After(text, k) == SubSeq(text, k + 1, Len(text))
GetNextFilename(text, size) ==
  LET k == Scanned(text, size, NameMax, {"/", "."})
      p == After(text, IF Stopped(text, size, NameMax, k, ".") THEN k + 1 ELSE k)
      m == Scanned(p, size - k, ExtMax, {"/"})
  IN  [name |-> CString(SubSeq(text, 1, k)), ext |-> CString(SubSeq(p, 1, m)),
       rest |-> After(p, IF Stopped(p, size - k, ExtMax, m, "/") THEN m + 1 ELSE m),
       size |-> size - k - m]

(* compare_filename: only as many characters as the path has. *)
CompareFilename(e, f) == IsPrefix(f.name, e.name) /\ IsPrefix(f.ext, e.ext)

(* lookup with opendir and readdir: the entry, or none.  A cluster of a    *)
(* file has no entries.                                                    *)
NotFound == [name |-> <<>>, ext |-> <<>>, cluster |-> END]
Entries(c) == IF c = 0 THEN Root ELSE IF c \in DOMAIN Dirs THEN Dirs[c] ELSE <<>>
RECURSIVE LookupIn(_, _, _)
LookupIn(c, text, size) ==
  LET f == GetNextFilename(text, size)
      found == SelectSeq(Entries(c), LAMBDA e : CompareFilename(e, f))
  IN IF found = <<>> THEN NotFound
     ELSE IF f.rest = <<>> \/ Head(f.rest) = NUL THEN Head(found)
     ELSE LookupIn(Head(found).cluster, f.rest, f.size)
Lookup(path) == LookupIn(0, path.text, path.size)

-----------------------------------------------------------------------------
FreeFile == [used |-> FALSE, cluster |-> END, cluster_begin |-> END, lba_offset |-> 0, offset |-> 0]
FreeDesc == [len |-> 0, next |-> 0, linked |-> FALSE]
Init ==
  /\ type \in Types
  /\ files = [i \in 0..FILES_MAX - 1 |-> FreeFile]
  /\ desc = [i \in 0..QueueNum - 1 |-> FreeDesc]
  /\ req = Idle

(* fat_alloc_file_id. *)
AllocFileId ==
  LET free == {i \in 1..FILES_MAX - 1 : ~files[i].used}
  IN IF free = {} THEN 0 ELSE CHOOSE i \in free : \A j \in free : i <= j

(* handle_open: the id is taken before the lookup, and kept if it fails;   *)
(* without a free id file 0 is opened.                                     *)
HandleOpen(path) ==
  LET e == Lookup(path)
      id == AllocFileId
      used == IF id = 0 THEN files[0].used ELSE TRUE
  IN files' = [files EXCEPT ![id] =
       IF e = NotFound THEN [@ EXCEPT !.used = used]
       ELSE [@ EXCEPT !.used = used, !.cluster = e.cluster, !.cluster_begin = e.cluster, !.lba_offset = 0]]
(* handle_close. *)
HandleClose(id) == files[id].used /\ files' = [files EXCEPT ![id].used = FALSE]

(* seek: the cluster is followed from where the last read left it, and the *)
(* offset in the cluster is taken in bytes for one in sectors.             *)
Seek(file, offset) ==
  {[file EXCEPT !.cluster = c,
                !.lba_offset = offset % (SPC * Sector),
                !.offset = offset % Sector] :
     c \in Follow(file.cluster, offset \div (SPC * Sector))}
(* handle_read and the pager's handle_fill: read starts. *)
HandleRead(id, offset, size) ==
  /\ files[id].cluster_begin # END
  /\ \E f \in Seek(files[id], offset) : files' = [files EXCEPT ![id] = f]
  /\ req' = [phase |-> "sector", id |-> id, offset |-> offset, size |-> size, remain |-> size,
             base |-> 0, buf |-> [o \in 0..size - 1 |-> Garbage], result |-> TRUE,
             walked |-> files[id].cluster # files[id].cluster_begin]

(* Server handler: one message is taken when the last one is done. *)
ServerHandler ==
  /\ req.phase \in {"idle", "reply"}
  /\ \/ /\ \/ \E path \in Paths : HandleOpen(path)
           \/ \E id \in DOMAIN files : HandleClose(id)
        /\ req' = Idle
     \/ \E id \in DOMAIN files, o \in Offsets, n \in Sizes : HandleRead(id, o, n)
  /\ UNCHANGED <<type, desc>>

-----------------------------------------------------------------------------
(* alloc_desc: the first descriptor of length 0. *)
FreeDescs(d) == {i \in DOMAIN d : d[i].len = 0}
AllocDesc(d) == CHOOSE i \in FreeDescs(d) : \A j \in FreeDescs(d) : i <= j
(* virtio_send_request with the three parts of a block request: header,    *)
(* data, status.  Without descriptors it writes outside of the table.      *)
SendRequest ==
  LET a == AllocDesc(desc)
      b == AllocDesc([desc EXCEPT ![a].len = 1])
      c == AllocDesc([desc EXCEPT ![a].len = 1, ![b].len = 1])
  IN IF Cardinality(FreeDescs(desc)) < 3 THEN req' = [req EXCEPT !.phase = "lost"] /\ UNCHANGED desc
     ELSE /\ desc' = [desc EXCEPT ![a] = [len |-> 1, next |-> b, linked |-> TRUE],
                                  ![b] = [len |-> Sector, next |-> c, linked |-> TRUE],
                                  ![c] = [len |-> 1, next |-> 0, linked |-> FALSE]]
          /\ req' = [req EXCEPT !.phase = "wait"]
(* read: a sector of the file is asked of the driver (read_disk,           *)
(* virtio_blk_read).                                                       *)
ReadDisk ==
  /\ req.phase = "sector"
  /\ IF req.remain > 0 THEN SendRequest
     ELSE req' = [req EXCEPT !.phase = "reply"] /\ UNCHANGED desc
  /\ UNCHANGED <<type, files>>
(* External: the device writes the sector and moves its used index. *)
DeviceUses ==
  req.phase = "wait" /\ req' = [req EXCEPT !.phase = "used"] /\ UNCHANGED <<type, files, desc>>
(* The driver answers with an error: read ends where it is, with what the  *)
(* buffer has so far.                                                      *)
ReadFails ==
  /\ req.phase = "sector" /\ req.remain > 0
  /\ req' = [req EXCEPT !.phase = "reply", !.result = FALSE]
  /\ UNCHANGED <<type, files, desc>>
(* virtio_free_desc on what desc_index is after the loop: descriptor 0. *)
RECURSIVE FreeChain(_, _)
FreeChain(d, i) ==
  LET freed == [d EXCEPT ![i].len = 0]
  IN IF d[i].linked THEN FreeChain(freed, d[i].next) ELSE freed
VirtioFreeDesc(d) == FreeChain(d, 0)
(* The sector is copied, and the position moves to the next one. *)
SectorRead ==
  /\ req.phase = "used"
  /\ LET f == files[req.id]
         lba == ClusterToLba(f.cluster) + f.lba_offset
         copied == IF req.remain > Sector - f.offset THEN Sector - f.offset ELSE req.remain
         buf == [o \in DOMAIN req.buf |->
                   IF o \in req.base..req.base + copied - 1
                   THEN Byte(lba, f.offset + o - req.base) ELSE req.buf[o]]
         moved == IF f.lba_offset >= SPC
                  THEN {[f EXCEPT !.cluster = c, !.lba_offset = 0] : c \in NextClusters(f.cluster)}
                  ELSE {[f EXCEPT !.lba_offset = @ + 1]}
         last == req.remain < Sector
     IN /\ \E g \in moved :
             files' = [files EXCEPT ![req.id] = IF last THEN g ELSE [g EXCEPT !.offset = 0]]
        /\ req' = [req EXCEPT !.phase = IF last THEN "reply" ELSE "sector", !.buf = buf,
                              !.remain = @ - (Sector - f.offset), !.base = @ + Sector]
  /\ desc' = VirtioFreeDesc(desc)
  /\ UNCHANGED type

Next == ServerHandler \/ ReadDisk \/ ReadFails \/ DeviceUses \/ SectorRead
Spec == Init /\ [][Next]_vars

-----------------------------------------------------------------------------
(* Whatever was opened, closed and read before, whichever reads failed,    *)
(* and however the table of descriptors was used: a read that is answered  *)
(* with OK, from the start of a file that no earlier read followed out of  *)
(* its first cluster, returns that cluster's bytes, and the driver never   *)
(* runs out of descriptors.  Past the first cluster the code does not      *)
(* follow the FAT.                                                         *)
ReadsRight ==
  /\ req.phase # "lost"
  /\ req.phase = "reply" /\ req.result /\ ~req.walked /\ req.offset = 0 /\ req.size <= SPC * Sector =>
       \A o \in 0..req.size - 1 :
         req.buf[o] = <<files[req.id].cluster_begin, o \div Sector, o % Sector>>
=============================================================================
