------------------------------ MODULE Streamer ------------------------------
(***************************************************************************)
(* src/src/disk: the sectors of the one disk and the streams that read and  *)
(* write any range of bytes on it, one sector at a time.  A disk is the     *)
(* function from byte positions to bytes.  The driver polls the status port *)
(* for DRQ; for a sector that the disk does not have it never comes.        *)
(***************************************************************************)
EXTENDS Integers, Sequences, FiniteSets

CONSTANT TOYOS_SECTOR_SIZE

ASSUME SectorAssumption == TOYOS_SECTOR_SIZE \in Nat \ {0}

\* The outcomes of an operation on a disk.
OK == "OK"
EIO == "EIO"
HANG == "the poll for DRQ never ends"

Sectors(d) == Cardinality(DOMAIN d) \div TOYOS_SECTOR_SIZE

\* disk_read_block and disk_write_block return only for a sector of the disk.
DrqComes(d, lba) == lba < Sectors(d)

disk_read_block(d, lba) ==
  [j \in 1 .. TOYOS_SECTOR_SIZE |-> d[(lba * TOYOS_SECTOR_SIZE) + j - 1]]

disk_write_block(d, lba, buf) ==
  [p \in DOMAIN d |-> IF p \div TOYOS_SECTOR_SIZE = lba
                      THEN buf[(p % TOYOS_SECTOR_SIZE) + 1] ELSE d[p]]

\* How much of a transfer of total bytes at offset lies in the first sector.
InThisSector(offset, total) ==
  IF offset + total >= TOYOS_SECTOR_SIZE THEN TOYOS_SECTOR_SIZE - offset ELSE total

RECURSIVE streamer_read(_, _, _)
(* streamer_seek and streamer_read: the bytes at pos.  A transfer that ends *)
(* exactly at the end of a sector goes on, with 0 bytes, to the next one.   *)
streamer_read(d, pos, total) ==
  LET lba == pos \div TOYOS_SECTOR_SIZE
      offset == pos % TOYOS_SECTOR_SIZE
      n == InThisSector(offset, total)
      here == SubSeq(disk_read_block(d, lba), offset + 1, offset + n)
      rest == streamer_read(d, pos + n, total - n)
  IN IF ~DrqComes(d, lba) THEN [res |-> HANG, out |-> <<>>]
     ELSE IF offset + total < TOYOS_SECTOR_SIZE THEN [res |-> OK, out |-> here]
     ELSE [res |-> rest.res, out |-> here \o rest.out]

RECURSIVE streamer_write_blind(_, _, _)
\* Mutant: the rest of the sector is not read first.
streamer_write_blind(d, pos, in) ==
  LET lba == pos \div TOYOS_SECTOR_SIZE
      offset == pos % TOYOS_SECTOR_SIZE
      n == InThisSector(offset, Len(in))
      buf == [j \in 1 .. TOYOS_SECTOR_SIZE |->
                IF j \in offset + 1 .. offset + n THEN in[j - offset] ELSE 0]
      written == disk_write_block(d, lba, buf)
  IN IF ~DrqComes(d, lba) THEN [res |-> HANG, disk |-> d]
     ELSE IF offset + Len(in) < TOYOS_SECTOR_SIZE THEN [res |-> OK, disk |-> written]
     ELSE streamer_write_blind(written, pos + n, SubSeq(in, n + 1, Len(in)))

RECURSIVE streamer_write(_, _, _)
\* streamer_seek and streamer_write: read a sector, change it, write it back.
streamer_write(d, pos, in) ==
  LET lba == pos \div TOYOS_SECTOR_SIZE
      offset == pos % TOYOS_SECTOR_SIZE
      n == InThisSector(offset, Len(in))
      old == disk_read_block(d, lba)
      buf == [j \in 1 .. TOYOS_SECTOR_SIZE |->
                IF j \in offset + 1 .. offset + n THEN in[j - offset] ELSE old[j]]
      written == disk_write_block(d, lba, buf)
  IN IF ~DrqComes(d, lba) THEN [res |-> HANG, disk |-> d]
     ELSE IF offset + Len(in) < TOYOS_SECTOR_SIZE THEN [res |-> OK, disk |-> written]
     ELSE streamer_write(written, pos + n, SubSeq(in, n + 1, Len(in)))
=============================================================================
