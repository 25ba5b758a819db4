----------------------------- MODULE DiskStream -----------------------------
(***************************************************************************)
(* The disk stream (src/disk/streamer.c) over the sectors the driver reads *)
(* (src/disk/disk.c), as values.  A byte is its position on the disk.      *)
(***************************************************************************)
EXTENDS Integers, Sequences

CONSTANT SectorSize     \* SIMPOS_SECTOR_SIZE

ASSUME SectorAssumption == SectorSize \in Nat \ {0}

\* A read in progress: the stream's position, the bytes the running call of
\* diskstreamer_read still has to read (negative in some), what was copied to
\* out, and whether the outermost call has returned.
Reading == [pos : Nat, total : Int, out : Seq(Nat), returned : BOOLEAN]

diskstreamer_seek(pos) == pos

Begin(pos, total) == [pos |-> diskstreamer_seek(pos), total |-> total, out |-> <<>>,
                      returned |-> FALSE]

Offset(r) == r.pos % SectorSize
Overflow(r) == Offset(r) + r.total >= SectorSize
total_to_read(r) == IF Overflow(r) THEN SectorSize - Offset(r) ELSE r.total

\* The bytes copied from one sector; a negative count copies none.
Copied(r) == [k \in 1..total_to_read(r) |-> r.pos + k - 1]

\* One call of diskstreamer_read: a sector is read, its bytes are copied and, when
\* the request reaches the end of the sector, the function calls itself with a
\* whole sector's size taken off the total.
diskstreamer_read(r) ==
  [pos |-> r.pos + total_to_read(r),
   total |-> r.total - SectorSize,
   out |-> r.out \o Copied(r),
   returned |-> ~Overflow(r)]

==============================================================================
