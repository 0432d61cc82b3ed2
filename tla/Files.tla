------------------------------- MODULE Files --------------------------------
(***************************************************************************)
(* src/src/fs: the path parser and the table of file descriptors, over the  *)
(* file system of Fat16.  Every call runs to its end inside the kernel;     *)
(* callers hold several descriptors and use them in any order.              *)
(***************************************************************************)
EXTENDS Fat16, TLC

CONSTANTS TOYOS_MAX_FILE_DESCRIPTORS,
          TOYOS_MAX_PATH,
          Private,      \* the heap's room for descriptors of the file system
          Images,       \* the disks the machine is started with
          Paths,        \* the paths callers open, as sequences of characters
          Sizes,        \* the sizes of one element callers read and write
          Offsets,      \* the offsets callers seek by
          MaxPos        \* bound on the positions they reach

ASSUME FilesAssumption == /\ TOYOS_MAX_FILE_DESCRIPTORS \in Nat \ {0}
                          /\ TOYOS_MAX_PATH \in Nat \ {0}
                          /\ Sizes \subseteq Nat \ {0}
                          /\ Offsets \subseteq Nat /\ MaxPos \in Nat

VARIABLES file_descriptors,  \* index -> the descriptor's private data, or NULL
          private,           \* the file system's descriptors on the heap
          kernel             \* "off", "running", or how it stopped

vars == <<image, fat, disk, fs, file_descriptors, private, kernel>>

NULL == 0
NoPath == [drive_no |-> -1, first |-> <<>>]
Freed == [item |-> NoItem, pos |-> 0, address |-> [table |-> "clone", index |-> NULL]]
Fd == 1 .. TOYOS_MAX_FILE_DESCRIPTORS

Init ==
  /\ image \in Images
  /\ fat = image.fat /\ disk = image.disk
  /\ fs = NoFs
  /\ file_descriptors = [i \in Fd |-> NULL]
  /\ private = [p \in Private |-> Freed]
  /\ kernel = "off"

\* fs_resolve: fs_init has loaded the one driver, which is asked.
fs_resolve(room) == IF fat16_resolve(image, room) = OK THEN "fat16" ELSE NoFs

\* fs_init and disk_search_and_init, when the kernel starts.
disk_search_and_init(room) ==
  /\ kernel = "off" /\ kernel' = "running"
  /\ fs' = fs_resolve(room)
  /\ UNCHANGED <<image, fat, disk, file_descriptors, private>>
-----------------------------------------------------------------------------
is_digit(c) == c \in {"0", "1"}

path_parser_path_valid_format(s) ==
  Len(s) >= 3 /\ is_digit(s[1]) /\ s[2] = ":" /\ s[3] = "/"

\* ctoi of the first character.
path_parser_get_drive_by_path(s) == IF s[1] = "0" THEN 0 ELSE 1

\* The length of the part at the head of s.
PartLength(s) ==
  LET slashes == {i \in DOMAIN s : s[i] = "/"}
  IN IF slashes = {} THEN Len(s) ELSE Min(slashes) - 1

RECURSIVE PartsKeepSlash(_, _)
\* Mutant: the slash after a part is left for the next one.
PartsKeepSlash(s, room) ==
  LET n == PartLength(s)
  IN IF n = 0 \/ room = 0 THEN <<>>
     ELSE <<SubSeq(s, 1, n)>> \o PartsKeepSlash(SubSeq(s, n + 1, Len(s)), room - 1)

RECURSIVE path_parser_parse_path_parts(_, _)
(* path_parser_get_path_part, path_parser_parse_path_part and the loop over *)
(* them: an empty part, or one there is no room for, ends the path.         *)
path_parser_parse_path_parts(s, room) ==
  LET n == PartLength(s)
  IN IF n = 0 \/ room = 0 THEN <<>>
     ELSE <<SubSeq(s, 1, n)>> \o path_parser_parse_path_parts(SubSeq(s, n + 2, Len(s)), room - 1)

\* path_parser_parse; NoPath for a path that is too long or has no drive.
path_parser_parse(s, room) ==
  IF Len(s) > TOYOS_MAX_PATH \/ ~path_parser_path_valid_format(s) THEN NoPath
  ELSE [drive_no |-> path_parser_get_drive_by_path(s),
        first |-> path_parser_parse_path_parts(SubSeq(s, 4, Len(s)), room)]

\* file_get_mode_by_string looks at the first character.
file_get_mode_by_string(str) ==
  IF str \in {"r", "w", "a"} THEN str ELSE "FILE_MODE_INVALID"

\* disk_get: there is one disk.
disk_get(drive) == drive = 0

\* file_get_descriptor: the last entry of the table is out of its reach.
file_get_descriptor(fd) ==
  IF fd <= 0 \/ fd >= TOYOS_MAX_FILE_DESCRIPTORS THEN NULL ELSE file_descriptors[fd]

\* What a path on a mounted disk names, as far as fopen follows it.
Named(s, parts) ==
  LET path == path_parser_parse(s, parts)
  IN IF path.first = <<>> \/ ~disk_get(path.drive_no) \/ fs = NoFs THEN NoItem
     ELSE fat16_get_directory_entry(path.first)

\* file_new_descriptor: the first entry that is not in use, if new has room.
file_new_descriptor(p, new) ==
  LET free == {i \in Fd : file_descriptors[i] = NULL}
  IN IF free = {} \/ ~new THEN file_descriptors ELSE [file_descriptors EXCEPT ![Min(free)] = p]

(* fopen.  parts is the number of path parts the heap has room for.  When   *)
(* no entry of the table is left, or no room for one (new), the file        *)
(* system's descriptor stays allocated.  Every failure answers 0.           *)
fopen(s, mode, parts, new) ==
  LET room == {p \in Private : private[p] = Freed}
      p == Min(room)
      opened == fat16_open(Named(s, parts), file_get_mode_by_string(mode), p)
  IN /\ kernel = "running"
     /\ UNCHANGED <<image, fat, disk, fs, kernel>>
     /\ IF room = {} \/ opened.res # OK THEN UNCHANGED <<file_descriptors, private>>
        ELSE /\ private' = [private EXCEPT ![p] = opened.private]
             /\ file_descriptors' = file_new_descriptor(p, new)
-----------------------------------------------------------------------------
(* fread, fwrite, fseek, fstat and fclose answer -EINVARG and do nothing    *)
(* when fd is not a descriptor.                                             *)
Known(fd) == kernel = "running" /\ file_get_descriptor(fd) # NULL

Of(fd) == private[file_descriptors[fd]]

\* An operation that does not come back stops the kernel for good.
Stops(res) == IF res \in {HANG, "tables overwritten"} THEN res ELSE kernel

\* fstat changes nothing.
fstat(fd) == IF Known(fd) THEN fat16_stat(Of(fd)) ELSE [res |-> "EINVARG"]

\* Callers read and write only what fstat says is a file.
IsFile(fd) == fstat(fd).res = OK

fread(fd, size, nmemb) ==
  /\ IsFile(fd)
  /\ kernel' = Stops(fat16_read(Of(fd), size, nmemb).res)
  /\ UNCHANGED <<image, fat, disk, fs, file_descriptors, private>>

\* The bytes callers write are numbered, apart from every byte of an image.
Written(n) == [k \in 1 .. n |-> -k]

fwrite(fd, size, nmemb) ==
  LET r == fat16_write(Of(fd), Written(size * nmemb))
  IN /\ IsFile(fd)
     /\ kernel' = Stops(r.res)
     /\ disk' = r.disk /\ fat' = r.fat
     /\ private' = [private EXCEPT ![file_descriptors[fd]] = r.private]
     /\ UNCHANGED <<image, fs, file_descriptors>>

fseek(fd, offset, whence) ==
  LET r == fat16_seek(Of(fd), offset, whence)
  IN /\ Known(fd) /\ r.pos <= MaxPos
     /\ private' = [private EXCEPT ![file_descriptors[fd]].pos = r.pos]
     /\ UNCHANGED <<image, fat, disk, fs, file_descriptors, kernel>>

\* Mutant: the entry of the table is left behind.
fclose_keep(fd) ==
  /\ Known(fd)
  /\ private' = [private EXCEPT ![file_descriptors[fd]] = Freed]
  /\ UNCHANGED <<image, fat, disk, fs, file_descriptors, kernel>>

\* fat16_close and fat16_fat_item_free: the copy of the record and the descriptor.
fat16_close(p) == [private EXCEPT ![p] = Freed]

fclose(fd) ==
  /\ Known(fd)
  /\ private' = fat16_close(file_descriptors[fd])
  /\ file_descriptors' = [file_descriptors EXCEPT ![fd] = NULL]
  /\ UNCHANGED <<image, fat, disk, fs, kernel>>

Next ==
  \/ \E room \in BOOLEAN : disk_search_and_init(room)
  \/ \E s \in Paths, mode \in {"w", "a"}, parts \in {1, TOYOS_MAX_PATH}, new \in BOOLEAN :
       fopen(s, mode, parts, new)
  \/ \E fd \in Fd, size \in Sizes, nmemb \in 1 .. 2 : fread(fd, size, nmemb)
  \/ \E fd \in Fd, size \in Sizes : fwrite(fd, size, 1)
  \/ \E fd \in Fd, offset \in Offsets, whence \in {"SEEK_SET", "SEEK_CUR", "SEEK_END"} :
       fseek(fd, offset, whence)
  \/ \E fd \in Fd : fclose(fd)

Spec == Init /\ [][Next]_vars
-----------------------------------------------------------------------------
(* TypeOK: the variables hold what their declarations say.                  *)
TypeOK ==
  /\ image \in Images
  /\ fat \in [DOMAIN image.fat -> Nat]
  /\ DOMAIN disk = DOMAIN image.disk
  /\ fs \in {NoFs, "fat16"}
  /\ file_descriptors \in [Fd -> Private \union {NULL}]
  /\ DOMAIN private = Private
  /\ kernel \in {"off", "running", HANG, "tables overwritten"}

(* SlotsOwnDescriptors: after any sequence of fopen, fclose and failing     *)
(* calls, an entry of file_descriptors holds private data that has not been *)
(* freed, and no two entries hold the same: closing one file never frees    *)
(* what another descriptor uses.                                            *)
SlotsOwnDescriptors ==
  /\ TypeOK
  /\ \A i \in Fd : file_descriptors[i] # NULL =>
       /\ private[file_descriptors[i]] # Freed
       /\ \A j \in Fd : file_descriptors[i] = file_descriptors[j] => i = j

\* The parts of a well formed path, by its slashes.
RECURSIVE Split(_)
Split(s) ==
  LET n == PartLength(s)
  IN IF n = Len(s) THEN <<s>> ELSE <<SubSeq(s, 1, n)>> \o Split(SubSeq(s, n + 2, Len(s)))

Lower(s) == [i \in DOMAIN s |-> tolower(s[i])]

\* The record that parts name below dir, by the rules of the format.
RECURSIVE Lookup(_, _)
Lookup(dir, parts) ==
  LET hits == {i \in Range(dir) : /\ i.filename[1] # "e5"
                                  /\ Lower(fat16_get_full_relative_filename(i)) = Lower(Head(parts))}
      hit == CHOOSE i \in hits : TRUE
  IN IF hits = {} THEN NoItem
     ELSE IF Len(parts) = 1 THEN hit
     ELSE IF IsDirectory(hit) THEN Lookup(image.directory[hit.cluster], Tail(parts)) ELSE NoItem

\* No record of the volume has been deleted.
NothingDeleted ==
  \A dir \in {image.root} \union Range(image.directory) :
    \A i \in DOMAIN dir : dir[i].filename[1] # "e5"

(* OpenFindsTheFile: on a volume without deleted records, fopen of a path   *)
(* on drive 0 without empty parts reaches the record the path names, in     *)
(* whatever case it is written, and reaches nothing when there is none.     *)
OpenFindsTheFile ==
  (fs # NoFs /\ NothingDeleted) =>
    \A s \in Paths :
      LET parts == Split(SubSeq(s, 4, Len(s)))
      IN (path_parser_path_valid_format(s) /\ s[1] = "0" /\ \A i \in DOMAIN parts : parts[i] # <<>>)
         => Named(s, TOYOS_MAX_PATH) = Lookup(image.root, parts)

\* The descriptors callers can read and write through.
Open == {fd \in Fd : IsFile(fd)}

(* ReadsAreExact: an fread of one element inside the file that starts at a  *)
(* cluster's start, or does not go past the cluster it starts in, and does  *)
(* not reach the last byte of the disk, succeeds with the file's bytes from *)
(* the descriptor's position on, however the chain is scattered over the    *)
(* disk and whatever was written before.  The loaders read so, from a fresh *)
(* descriptor with the size that fstat answers.                             *)
ReadsAreExact ==
  \A fd \in Open : \A size \in Sizes \union ({fstat(fd).filesize} \ {0}) :
    LET p == Of(fd)
        oneCluster == (p.pos % ClusterBytes) + size <= ClusterBytes
        at(k) == PositionOf(fat, p.item, p.pos + k - 1)
    IN (/\ p.pos + size <= Capacity(fat, p.item)
        /\ p.pos % ClusterBytes = 0 \/ oneCluster
        /\ \A k \in 1 .. size : at(k) + 1 < Cardinality(DOMAIN disk))
       => fat16_read(p, size, 1) = [res |-> OK, out |-> [k \in 1 .. size |-> disk[at(k)]]]

(* ChainsSound: whatever is written, the chain of every file runs through   *)
(* distinct clusters to an entry that is not a cluster, no cluster belongs  *)
(* to two files, and every cluster in use belongs to one: an fwrite that    *)
(* fails half-way neither loses nor shares a cluster.                       *)
ChainsSound ==
  LET owned == {i.cluster : i \in {x \in Items : x.cluster # 0}} \union DOMAIN image.directory
      chain(c) == ChainUpTo(fat, c, Cardinality(DOMAIN fat) + 1)
  IN /\ \A c \in owned : \A i, j \in DOMAIN chain(c) : chain(c)[i] = chain(c)[j] => i = j
     /\ \A c, e \in owned : c # e => Range(chain(c)) \intersect Range(chain(e)) = {}
     /\ {c \in DOMAIN fat : fat[c] # 0} = UNION {Range(chain(c)) : c \in owned}

(* WritesInPlace: an fwrite that stays in the first sector of a cluster the *)
(* file has puts its bytes at the descriptor's position in the file and     *)
(* changes no other byte of the disk, neither this file's nor another's;    *)
(* a read-only file is not changed at all.                                  *)
WritesInPlace ==
  \A fd \in Open, size \in Sizes :
    LET p == Of(fd)
        w == fat16_write(p, Written(size)).disk
        at == [k \in 1 .. size |-> PositionOf(fat, p.item, p.pos + k - 1)]
    IN IF "READ_ONLY" \in p.item.attribute THEN w = disk
       ELSE (/\ p.pos + size <= Capacity(fat, p.item)
             /\ (p.pos % ClusterBytes) + size <= TOYOS_SECTOR_SIZE)
            => /\ \A k \in 1 .. size : w[at[k]] = -k
               /\ \A q \in DOMAIN disk \ Range(at) : w[q] = disk[q]

(* StopsOnlyThen: a read makes the kernel poll for ever only when it goes   *)
(* beyond the file's clusters, past a cluster it did not start at the       *)
(* beginning of, or up to the last byte of the disk.  A write does only so, *)
(* or when it passes the end of the first sector of a cluster; it           *)
(* overwrites the tables only in a file without clusters.                   *)
StopsOnlyThen ==
  \A fd \in Open, size \in Sizes :
    LET p == Of(fd)
        from == p.pos % ClusterBytes
        beyond == \/ p.pos + size > Capacity(fat, p.item)
                  \/ from # 0 /\ from + size > ClusterBytes
                  \/ \E k \in 1 .. size :
                       PositionOf(fat, p.item, p.pos + k - 1) + 1 = Cardinality(DOMAIN disk)
        w == fat16_write(p, Written(size)).res
    IN /\ fat16_read(p, size, 1).res = HANG => beyond
       /\ w = HANG => beyond \/ from + size > TOYOS_SECTOR_SIZE
       /\ w = "tables overwritten" => p.item.cluster = 0
=============================================================================
