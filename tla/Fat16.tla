------------------------------- MODULE Fat16 --------------------------------
(***************************************************************************)
(* The FAT16 file system of src/src/fs/fat/fat16.c over the disk of         *)
(* Streamer.  The allocation table, the directories and the data are kept   *)
(* apart: fat is the table the code reads and writes entry by entry,        *)
(* image.root and image.directory hold the raw directory records (deleted   *)
(* ones included), and disk is every byte, of which only those after        *)
(* the end of the root directory belong to clusters.  A directory fits in   *)
(* its first cluster.                                                       *)
(***************************************************************************)
EXTENDS Streamer, FiniteSetsExt

CONSTANT DirectoryItemSize   \* the bytes of a directory record

VARIABLES image,     \* what the formatter put on the disk: header and directories
          fat,       \* the allocation table: cluster -> entry
          disk,      \* the bytes of the disk
          fs         \* disk->fs: "fat16" once resolved, else NoFs

NoFs == "NULL"
NoItem == [filename |-> <<>>, ext |-> <<>>, attribute |-> {}, cluster |-> 0, filesize |-> 0]
NoCluster == -1

\* Entries with a meaning: the end marks, bad and reserved marks the code knows.
EndMark == {\hff8, \hfff}
Unfollowed == EndMark \union {\hff7, \hff0, \hff6, 0}

ClusterBytes == image.sectors_per_cluster * TOYOS_SECTOR_SIZE
-----------------------------------------------------------------------------
(* fat16_get_root_directory: where the root directory lies, from the header *)
(* of the volume; a last sector that it fills in part is not counted.       *)
fat16_get_root_directory(img) ==
  LET root_dir_sector_pos == (img.fat_copies * img.sectors_per_fat) + img.reserved_sectors
      root_dir_size == img.root_dir_entries * DirectoryItemSize
  IN [sector_pos |-> root_dir_sector_pos,
      ending_sector_pos |-> root_dir_sector_pos + (root_dir_size \div TOYOS_SECTOR_SIZE)]

\* The first sector of the clusters.
ending_sector_pos == fat16_get_root_directory(image).ending_sector_pos

(* fat16_resolve: the private data, its streams and the copy of the root    *)
(* directory are allocated, and the signature is compared.                  *)
fat16_resolve(img, room) ==
  IF ~room THEN "ENOMEM"
  ELSE IF img.signature # \h29 THEN "EFSNOTUS" ELSE OK

\* fat16_get_total_items_for_directory: the records that are not deleted.
fat16_get_total_items_for_directory(dir) ==
  Cardinality({i \in DOMAIN dir : dir[i].filename[1] # "e5"})

\* fat16_to_proper_string: up to the first blank of the field.
fat16_to_proper_string(in) ==
  LET blanks == {i \in DOMAIN in : in[i] = " "}
  IN IF blanks = {} THEN in ELSE SubSeq(in, 1, Min(blanks) - 1)

fat16_get_full_relative_filename(item) ==
  LET name == fat16_to_proper_string(item.filename)
  IN IF item.ext[1] = " " THEN name
     ELSE name \o <<".">> \o fat16_to_proper_string(item.ext)

\* tolower, for the letters the names are made of.
tolower(c) == CASE c = "A" -> "a" [] c = "B" -> "b" [] c = "D" -> "d" [] OTHER -> c

istrncmp(s, t) == /\ Len(s) = Len(t)
                  /\ \A i \in DOMAIN s : tolower(s[i]) = tolower(t[i])

(* fat16_find_item_in_directory: only as many raw records are looked at as  *)
(* there are live ones, and the last match is the one kept.                 *)
fat16_find_item_in_directory(dir, name) ==
  LET at == {i \in 1 .. fat16_get_total_items_for_directory(dir) :
               istrncmp(fat16_get_full_relative_filename(dir[i]), name)}
  IN IF at = {} THEN NoItem ELSE dir[Max(at)]

IsDirectory(item) == "SUBDIRECTORY" \in item.attribute

\* fat16_load_fat_directory: the records in the directory's cluster.
fat16_load_fat_directory(item) == image.directory[item.cluster]

\* fat16_get_directory_entry: from the root, one directory for each part.
fat16_get_directory_entry(path) ==
  LET item[i \in 1 .. Len(path)] ==
        IF i = 1 THEN fat16_find_item_in_directory(image.root, path[1])
        ELSE IF IsDirectory(item[i - 1])
             THEN fat16_find_item_in_directory(fat16_load_fat_directory(item[i - 1]), path[i])
             ELSE NoItem
  IN item[Len(path)]
-----------------------------------------------------------------------------
\* Mutant: clusters are counted from 0.
ClusterFromZero(cluster) ==
  ending_sector_pos + (cluster * image.sectors_per_cluster)

fat16_cluster_to_sector(cluster) ==
  ending_sector_pos + ((cluster - 2) * image.sectors_per_cluster)

(* fat16_get_fat_entry.  Entries of the table past those modelled are 0.    *)
fat16_get_fat_entry(f, cluster) == IF cluster \in DOMAIN f THEN f[cluster] ELSE 0

\* Mutant: stops one cluster short of the offset's.
fat16_get_cluster_one_short(f, start, offset) ==
  LET hop[i \in 0 .. offset \div ClusterBytes] ==
        IF i <= 1 THEN start
        ELSE IF hop[i - 1] = NoCluster \/ fat16_get_fat_entry(f, hop[i - 1]) \in Unfollowed
             THEN NoCluster
             ELSE fat16_get_fat_entry(f, hop[i - 1])
  IN hop[offset \div ClusterBytes]

(* fat16_get_cluster_for_offset: follow the chain.  The marks it stops at   *)
(* are those of a 12 bit table: the 0xffff a formatter writes at the end of *)
(* a FAT16 chain is followed like a cluster number.                         *)
fat16_get_cluster_for_offset(f, start, offset) ==
  LET hop[i \in 0 .. offset \div ClusterBytes] ==
        IF i = 0 THEN start
        ELSE IF hop[i - 1] = NoCluster \/ fat16_get_fat_entry(f, hop[i - 1]) \in Unfollowed
             THEN NoCluster
             ELSE fat16_get_fat_entry(f, hop[i - 1])
  IN hop[offset \div ClusterBytes]

RECURSIVE fat16_read_internal(_, _, _)
(* fat16_read_internal(_from_stream): at most a cluster's bytes at a time,  *)
(* counted from the offset and not from the start of the cluster.           *)
fat16_read_internal(cluster, offset, total) ==
  LET use == fat16_get_cluster_for_offset(fat, cluster, offset)
      pos == (fat16_cluster_to_sector(use) * TOYOS_SECTOR_SIZE) + (offset % ClusterBytes)
      n == IF total > ClusterBytes THEN ClusterBytes ELSE total
      here == streamer_read(disk, pos, n)
      rest == fat16_read_internal(cluster, offset + n, total - n)
  IN IF use = NoCluster THEN [res |-> EIO, out |-> <<>>]
     ELSE IF here.res # OK \/ n = total THEN here
     ELSE [res |-> rest.res, out |-> here.out \o rest.out]

(* fat16_read: every element is read into the start of the buffer, so what  *)
(* it holds at the end is the last one; pos does not move.  It answers      *)
(* nmemb (OK) or 0.                                                         *)
fat16_read(p, size, nmemb) ==
  LET element(i) == fat16_read_internal(p.item.cluster, p.pos + ((i - 1) * size), size)
      failed == {i \in 1 .. nmemb : element(i).res # OK}
  IN IF failed = {} THEN [res |-> OK, out |-> element(nmemb).out]
     ELSE [res |-> element(Min(failed)).res, out |-> <<>>]
-----------------------------------------------------------------------------
\* Mutant: the new cluster is taken from another chain's end.
fat16_allocate_used(f, current) ==
  LET free == {i \in 2 .. image.number_of_sectors - 1 : fat16_get_fat_entry(f, i) \in EndMark}
  IN IF free = {} THEN [cluster |-> NoCluster, fat |-> f]
     ELSE [cluster |-> Min(free), fat |-> [f EXCEPT ![current] = Min(free), ![Min(free)] = \hfff]]

fat16_set_fat_entry(f, cluster, value) == [f EXCEPT ![cluster] = value]

(* fat16_allocate_cluster: the first unused entry below number_of_sectors   *)
(* is marked as the end and linked behind current.                          *)
fat16_allocate_cluster(f, current) ==
  LET free == {i \in 2 .. image.number_of_sectors - 1 : fat16_get_fat_entry(f, i) = 0}
  IN IF free = {} THEN [cluster |-> NoCluster, fat |-> f]
     ELSE [cluster |-> Min(free),
           fat |-> fat16_set_fat_entry(fat16_set_fat_entry(f, Min(free), \hfff), current, Min(free))]

(* How much one turn of fat16_write's loop writes.  The room left in the    *)
(* sector is compared as an unsigned number: once it is negative it bounds  *)
(* nothing.                                                                 *)
BytesToWrite(offset_from_cluster, total) ==
  LET room == TOYOS_SECTOR_SIZE - offset_from_cluster
  IN IF room >= 0 /\ total > room THEN room ELSE total

RECURSIVE WriteLoop(_, _, _, _, _)
(* The loop of fat16_write.  A turn that writes nothing is repeated for     *)
(* ever; a sector before the clusters is one of the tables.                 *)
WriteLoop(d, f, cluster, offset, in) ==
  LET current == fat16_get_cluster_for_offset(f, cluster, offset)
      from == offset % ClusterBytes
      sector == fat16_cluster_to_sector(current)
      n == BytesToWrite(from, Len(in))
      w == streamer_write(d, (sector * TOYOS_SECTOR_SIZE) + from, SubSeq(in, 1, n))
      rest == SubSeq(in, n + 1, Len(in))
      entry == fat16_get_fat_entry(f, current)
      new == fat16_allocate_cluster(f, current)
  IN CASE in = <<>> -> [res |-> OK, disk |-> d, fat |-> f]
       [] in # <<>> /\ current = NoCluster -> [res |-> EIO, disk |-> d, fat |-> f]
       [] in # <<>> /\ current # NoCluster /\ (n = 0 \/ w.res = HANG) ->
            [res |-> HANG, disk |-> w.disk, fat |-> f]
       [] in # <<>> /\ current # NoCluster /\ n # 0 /\ w.res = OK ->
            IF sector < ending_sector_pos
            THEN [res |-> "tables overwritten", disk |-> w.disk, fat |-> f]
            ELSE IF from + n < ClusterBytes
                 THEN WriteLoop(w.disk, f, cluster, offset + n, rest)
            ELSE IF entry \notin EndMark
                 THEN WriteLoop(w.disk, f, entry, offset + n, rest)
            ELSE IF new.cluster = NoCluster
                 THEN [res |-> EIO, disk |-> w.disk, fat |-> f]
            ELSE WriteLoop(w.disk, new.fat, new.cluster, offset + n, rest)

(* fat16_get_directory_offset looks for the record by its address among     *)
(* those of the root directory; a descriptor's record is a copy.            *)
fat16_get_directory_offset(address) ==
  IF address \in [table : {"root_directory"}, index : DOMAIN image.root]
  THEN address.index ELSE NoCluster

(* fat16_write: all of the data first, then the size in the descriptor's    *)
(* own copy of the record, and last the record on the disk.                 *)
fat16_write(p, in) ==
  LET w == WriteLoop(disk, fat, p.item.cluster, p.pos, in)
      end == p.pos + Len(in)
      grown == [p EXCEPT !.item.filesize = IF end > @ THEN end ELSE @]
  IN IF "READ_ONLY" \in p.item.attribute
     THEN [res |-> "ERDONLY", disk |-> disk, fat |-> fat, private |-> p]
     ELSE IF w.res # OK THEN [res |-> w.res, disk |-> w.disk, fat |-> w.fat, private |-> p]
     ELSE IF fat16_get_directory_offset(p.address) = NoCluster
     THEN [res |-> EIO, disk |-> w.disk, fat |-> w.fat, private |-> grown]
     ELSE [res |-> OK, disk |-> w.disk, fat |-> w.fat, private |-> [grown EXCEPT !.pos = end]]
-----------------------------------------------------------------------------
(* fat16_new_fat_item_for_directory_item: a copy of a record of a directory *)
(* on the heap, at place p.                                                 *)
fat16_new_fat_item_for_directory_item(item, p) ==
  [item |-> item, address |-> [table |-> "clone", index |-> p]]

(* fat16_open: the mode is looked at and forgotten; the descriptor gets a   *)
(* copy of the record that fat16_get_directory_entry found and starts at 0. *)
fat16_open(item, mode, p) ==
  LET copy == fat16_new_fat_item_for_directory_item(item, p) IN
  IF mode \notin {"r", "w"} THEN [res |-> "EINVARG"]
  ELSE IF item = NoItem THEN [res |-> EIO]
  ELSE [res |-> OK, private |-> [item |-> copy.item, pos |-> 0, address |-> copy.address]]

(* fat16_seek: only the offset itself is compared with the size.            *)
fat16_seek(p, offset, whence) ==
  IF IsDirectory(p.item) THEN [res |-> "EINVARG", pos |-> p.pos]
  ELSE IF offset > p.item.filesize THEN [res |-> EIO, pos |-> p.pos]
  ELSE [res |-> OK, pos |-> CASE whence = "SEEK_SET" -> offset
                              [] whence = "SEEK_CUR" -> p.pos + offset
                              [] whence = "SEEK_END" -> p.item.filesize + offset]

\* fat16_stat: what the copy of the record says.
fat16_stat(p) ==
  IF IsDirectory(p.item) THEN [res |-> "EINVARG"]
  ELSE [res |-> OK, filesize |-> p.item.filesize,
        flags |-> p.item.attribute \intersect {"READ_ONLY"}]
-----------------------------------------------------------------------------
(* What a file is, independently of the code: the clusters from its first   *)
(* one on, following the table to any entry that is not a cluster.          *)
RECURSIVE ChainUpTo(_, _, _)
ChainUpTo(f, cluster, n) ==
  IF n = 0 \/ cluster \notin DOMAIN f THEN <<>>
  ELSE <<cluster>> \o ChainUpTo(f, f[cluster], n - 1)

Chain(f, item) == ChainUpTo(f, item.cluster, Cardinality(DOMAIN f) + 1)

Capacity(f, item) == Len(Chain(f, item)) * ClusterBytes

\* Where byte k of a file is on the disk.
PositionOf(f, item, k) ==
  (fat16_cluster_to_sector(Chain(f, item)[(k \div ClusterBytes) + 1]) * TOYOS_SECTOR_SIZE)
    + (k % ClusterBytes)

\* The files of the volume.
Items == {i \in Range(image.root) \union UNION {Range(image.directory[c]) : c \in DOMAIN image.directory} :
            ~IsDirectory(i) /\ i.filename[1] # "e5"}
=============================================================================
