-------------------------------- MODULE Fat16 --------------------------------
(***************************************************************************)
(* The FAT16 volume (src/fs/fat/fat16.c): setting up the root directory,   *)
(* opening a file by its path, seeking and reading, through the disk       *)
(* stream one sector at a time.                                            *)
(***************************************************************************)
EXTENDS DiskStream

CONSTANTS ClusterSize,  \* sectors_per_cluster * sector_size, in bytes
          ItemSize,     \* sizeof(struct fat_directory_item)
          Fat,          \* the allocation table: the entry of each cluster
          RootSize,     \* root_dir_entries * ItemSize; the clusters lie behind it
          Volumes,      \* directories: for the root and for the first cluster of
                        \* each other one, the sequence of its entries
          Paths,        \* the paths programs open
          CountLimit,   \* bound: the count of items is not told apart from here on
          Sizes,        \* how many bytes they read
          SeekOffsets,  \* and the offsets they seek
          PositionLimit \* bound: no read begins behind this position

ROOT == 0

\* Table entries that end the walk along the chain with an error: the last entry of
\* a file, a bad sector, a reserved one, no cluster.
SIMPOS_FAT16_BAD_SECTOR == 4087
EndsChain(entry) == entry \in {65528, 65535, SIMPOS_FAT16_BAD_SECTOR, 4080, 4086, 0}

EIO == -1

\* fat16_get_cluster_for_offset follows the chain from the first cluster.
Hops(first, n) ==
  LET hop[k \in 0..n] == IF k = 0 THEN first
                         ELSE LET last == hop[k - 1]
                              IN IF last = EIO \/ EndsChain(Fat[last]) THEN EIO ELSE Fat[last]
  IN hop[n]

ClusterPosition(cluster) == RootSize + ((cluster - 2) * ClusterSize)

\* Numbers of clusters; none reads as the end of a chain.
Cluster == {c \in Nat : c >= 2 /\ ~EndsChain(c)}

\* A file's entry names the first of its clusters, the table leads to the others.
LaidOut(i) ==
  /\ i.chain \in Seq(Cluster) \ {<<>>}
  /\ i.cluster = i.chain[1] /\ Fat[i.chain[Len(i.chain)]] = 65535
  /\ \A k \in 1..Len(i.chain)-1 : Fat[i.chain[k]] = i.chain[k + 1]

Entries(v) == UNION {{v[d][k] : k \in 1..Len(v[d])} : d \in DOMAIN v}

ASSUME Fat16Assumption ==
  /\ ItemSize \in Nat \ {0} /\ 2 * ItemSize <= SectorSize /\ SectorSize % ItemSize = 0
  /\ ClusterSize \in Nat \ {0} /\ ClusterSize % SectorSize = 0
  /\ RootSize \in Nat \ {0} /\ RootSize % SectorSize = 0
  /\ CountLimit \in Nat /\ CountLimit >= SectorSize \div ItemSize
  /\ Sizes \subseteq Nat \ {0} /\ SeekOffsets \subseteq Nat /\ PositionLimit \in Nat

ASSUME VolumesAssumption == \A v \in Volumes :
  /\ ROOT \in DOMAIN v /\ DOMAIN v \subseteq {ROOT} \cup Cluster
  /\ \A d \in DOMAIN v : /\ v[d] \in Seq(Entries(v))
                         /\ Len(v[d]) * ItemSize < (IF d = ROOT THEN RootSize ELSE ClusterSize)
  /\ \A i \in Entries(v) : /\ i.kind \in {"file", "directory", "deleted"}
                           /\ i.kind = "directory" => i.cluster \in DOMAIN v \ {ROOT}
                           /\ i.kind = "file" => LaidOut(i)

VARIABLES volume,       \* what the disk's directories hold
          pc,           \* what the kernel is doing
          stream,       \* the running read of a disk stream
          cluster, offset, total, \* of fat16_read_internal_from_stream
          out,          \* what it has copied
          root_directory, \* the root directory in memory, and how many items count
          directory,    \* the directory that is searched
          path,         \* the parts still to be found
          asked,        \* history: the path that is opened
          item,         \* the item found; while a file is open, its item
          count,        \* items counted so far in the directory
          pos,          \* the open file's position
          request       \* history: offset and size of the file read

reading == <<stream, cluster, offset, total, out>>
opening == <<directory, path, asked, item, count>>
file == <<pos, request>>
vars == <<volume, pc, reading, root_directory, opening, file>>

NULL == [kind |-> "none", base |-> <<>>, ext |-> <<>>, cluster |-> 0]
Empty == [items |-> <<>>, total |-> 0]
Idle == Begin(0, 0)
NoRequest == [offset |-> 0, size |-> 0]

Init ==
  /\ volume \in Volumes
  /\ pc = "boot" /\ stream = Idle /\ cluster = ROOT /\ offset = 0 /\ total = 0 /\ out = <<>>
  /\ root_directory = Empty
  /\ directory = Empty /\ path = <<>> /\ asked = <<>> /\ item = NULL /\ count = 0
  /\ pos = 0 /\ request = NoRequest

------------------------------------------------------------------------------
(* fat16_get_total_items_for_directory *)

\* Where a directory begins on the disk, and the entry at a position.
Start(first) == IF first = ROOT THEN 0 ELSE ClusterPosition(first)

ItemAt(at) ==
  LET holds(d) == at >= Start(d) /\ (at - Start(d)) \div ItemSize < Len(volume[d])
  IN IF \E d \in DOMAIN volume : holds(d)
     THEN LET d == CHOOSE e \in DOMAIN volume : holds(e)
          IN volume[d][((at - Start(d)) \div ItemSize) + 1]
     ELSE NULL

\* The items in the bytes that were copied.
ItemsIn(bytes) == [k \in 1..Len(bytes) \div ItemSize |-> ItemAt(bytes[((k - 1) * ItemSize) + 1])]

\* The stream is moved to the first item.
CountFrom(first) ==
  /\ pc' = "count" /\ cluster' = first /\ count' = 0
  /\ stream' = Begin(Start(first), ItemSize)

\* One sector of the running read of a stream.
ReadSector ==
  /\ ~stream.returned /\ pc \in {"count", "root", "stream"}
  /\ stream' = diskstreamer_read(stream)
  /\ UNCHANGED <<volume, pc, cluster, offset, total, out, root_directory, opening, file>>

Counted == pc = "count" /\ stream.returned

CountItem_FromStart ==
  /\ Counted /\ ItemAt(stream.out[1]).kind # "none"
  /\ count' = IF count = CountLimit THEN count ELSE count + 1
  /\ stream' = Begin(Start(cluster), ItemSize)
  /\ UNCHANGED <<volume, pc, cluster, offset, total, out, root_directory,
                 directory, path, asked, item, file>>

\* The item was read; a deleted one is not counted.
CountItem ==
  /\ Counted /\ ItemAt(stream.out[1]).kind # "none"
  /\ count' = IF ItemAt(stream.out[1]).kind = "deleted" \/ count = CountLimit
               THEN count ELSE count + 1
  /\ stream' = Begin(stream.pos, ItemSize)
  /\ UNCHANGED <<volume, pc, cluster, offset, total, out, root_directory,
                 directory, path, asked, item, file>>

CountEnds == Counted /\ ItemAt(stream.out[1]).kind = "none"

------------------------------------------------------------------------------
(* fat16_resolve and fat16_root_directory_setup *)

Resolve ==
  /\ pc = "boot"
  /\ CountFrom(ROOT)
  /\ UNCHANGED <<volume, offset, total, out, root_directory, directory, path, asked, item, file>>

\* All of the root directory is read, whatever was counted.
RootCounted ==
  /\ CountEnds /\ cluster = ROOT
  /\ pc' = "root" /\ stream' = Begin(0, RootSize)
  /\ UNCHANGED <<volume, cluster, offset, total, out, root_directory, opening, file>>

RootRead ==
  /\ pc = "root" /\ stream.returned
  /\ root_directory' = [items |-> ItemsIn(stream.out), total |-> count]
  /\ pc' = "ready" /\ stream' = Idle /\ count' = 0
  /\ UNCHANGED <<volume, cluster, offset, total, out, directory, path, asked, item, file>>

------------------------------------------------------------------------------
(* fat16_open: names and paths *)

\* The letters that occur; any other character is its own lower case.
Lower == [A |-> "a", B |-> "b", D |-> "d"]
tolower(c) == IF c \in DOMAIN Lower THEN Lower[c] ELSE c

istrncmp(s, t) == Len(s) = Len(t) /\ \A i \in DOMAIN s : tolower(s[i]) = tolower(t[i])

IsString(s) == s \in Seq({s[k] : k \in DOMAIN s})

\* A name of n characters is filled up with spaces.
FilledUp(s, n) == IsString(s) /\ s # <<>> /\ \A k \in 1..Len(s) : s[k] = " " <=> k > n

\* The name of a file, and behind a point its extension if it has one; the first
\* character of a deleted one is no letter.
NamedAs(i) == \E m \in 0..Len(i.base), n \in 0..Len(i.ext) :
  /\ FilledUp(i.base, m) /\ FilledUp(i.ext, n)
  /\ LET name == SubSeq(i.base, 1, m)
     IN IF i.kind = "deleted" THEN i.base[1] = "E5"
        ELSE /\ IsString(i.called)
             /\ istrncmp(i.called, IF n = 0 THEN name ELSE name \o <<".">> \o SubSeq(i.ext, 1, n))

\* No two entries in use of a directory have the same name, whatever the case of its letters.
NamedOnce(v, d) == \A j, k \in 1..Len(v[d]) :
  v[d][j].kind # "deleted" /\ v[d][k].kind # "deleted" /\ istrncmp(v[d][j].called, v[d][k].called)
    => j = k

Parts == UNION {{p[k] : k \in DOMAIN p} : p \in Paths}

ASSUME NamesAssumption ==
  /\ \A v \in Volumes : (\A i \in Entries(v) : NamedAs(i)) /\ \A d \in DOMAIN v : NamedOnce(v, d)
  /\ \A p \in Paths : p \in Seq(Parts) \ {<<>>}
  /\ \A part \in Parts : IsString(part) /\ \A k \in DOMAIN part : part[k] # "E5"

\* The characters before the first space, which fills a name up.
fat16_to_proper_string(s) ==
  SubSeq(s, 1, (CHOOSE n \in 0..Len(s) : /\ n = Len(s) \/ s[n + 1] = " "
                                         /\ \A i \in 1..n : s[i] # " "))

fat16_get_full_relative_filename_Joined(i) ==
  fat16_to_proper_string(i.base) \o fat16_to_proper_string(i.ext)

fat16_get_full_relative_filename(i) ==
  fat16_to_proper_string(i.base)
    \o (IF i.ext[1] = " " THEN <<>> ELSE <<".">> \o fat16_to_proper_string(i.ext))

\* The first items are searched, as many as were counted; the last that has the
\* name is taken.
fat16_find_item_in_directory(d, name) ==
  LET found == {k \in 1..d.total : istrncmp(fat16_get_full_relative_filename(d.items[k]), name)}
  IN IF found = {} THEN NULL ELSE d.items[CHOOSE k \in found : \A j \in found : j <= k]

Open(p) ==
  /\ pc = "ready" /\ item = NULL
  /\ pc' = "find" /\ path' = p /\ asked' = p /\ directory' = root_directory
  /\ UNCHANGED <<volume, reading, root_directory, item, count, file>>

\* fat16_get_directory_entry looks a part up; a directory is loaded when found.
Find ==
  LET found == fat16_find_item_in_directory(directory, path[1])
  IN /\ pc = "find"
     /\ item' = found /\ path' = Tail(path) /\ directory' = Empty
     /\ IF found.kind = "directory"
        THEN CountFrom(found.cluster)
        ELSE pc' = "found" /\ UNCHANGED <<cluster, count, stream>>
     /\ UNCHANGED <<volume, offset, total, out, root_directory, asked, file>>

\* fat16_load_fat_directory reads as many items as it has counted.
DirectoryCounted ==
  /\ CountEnds /\ cluster # ROOT
  /\ pc' = "cluster" /\ offset' = 0 /\ total' = count * ItemSize /\ out' = <<>>
  /\ stream' = Idle
  /\ UNCHANGED <<volume, cluster, root_directory, opening, file>>

DirectoryRead ==
  /\ pc = "done" /\ item.kind = "directory"
  /\ directory' = [items |-> ItemsIn(out), total |-> count]
  /\ pc' = "found" /\ out' = <<>> /\ offset' = 0 /\ cluster' = ROOT /\ count' = 0
  /\ UNCHANGED <<volume, stream, total, root_directory, path, asked, item, file>>

\* The next part is looked for in the directory found; a file has no parts.
NextPart ==
  /\ pc = "found" /\ path # <<>> /\ item # NULL
  /\ IF item.kind = "directory"
     THEN pc' = "find" /\ UNCHANGED <<item, path>>
     ELSE pc' = "found" /\ item' = NULL /\ path' = <<>>
  /\ UNCHANGED <<volume, reading, root_directory, directory, asked, count, file>>

\* Behind a part that is not in its directory, the type of the item at address 0
\* is read; where that is no directory's, the path is not found.  In the root
\* directory the lookup ends at once.
NextPartOfNothing ==
  /\ pc = "found" /\ path # <<>> /\ item = NULL
  /\ path' = <<>>
  /\ pc' \in IF Len(path) + 1 = Len(asked) THEN {"found"} ELSE {"found", "undefined"}
  /\ UNCHANGED <<volume, reading, root_directory, directory, asked, item, count, file>>

\* The descriptor begins at the file's start.
Opened ==
  /\ pc = "found" /\ path = <<>>
  /\ pc' = "opened" /\ pos' = 0 /\ directory' = Empty
  /\ UNCHANGED <<volume, reading, root_directory, path, asked, item, count, request>>

\* fat16_stat refuses what is no file, which is closed, as is what was not found.
Refused ==
  /\ pc = "opened" /\ item.kind # "file"
  /\ pc' = "ready" /\ item' = NULL /\ asked' = <<>>
  /\ UNCHANGED <<volume, reading, root_directory, directory, path, count, file>>

Accepted ==
  /\ pc = "opened" /\ item.kind = "file"
  /\ pc' = "ready" /\ asked' = <<>>
  /\ UNCHANGED <<volume, reading, root_directory, directory, path, item, count, file>>

Close ==
  /\ pc = "ready" /\ item # NULL
  /\ item' = NULL /\ pos' = 0
  /\ UNCHANGED <<volume, pc, reading, root_directory, directory, path, asked, count, request>>

------------------------------------------------------------------------------
(* fat16_seek and fat16_read of the open file *)

Seek(mode, o) ==
  /\ pc = "ready" /\ item # NULL /\ o < item.size
  /\ pos' = IF mode = "SEEK_SET" THEN o ELSE pos + o
  /\ pos' <= PositionLimit
  /\ UNCHANGED <<volume, pc, reading, root_directory, opening, request>>

\* fat16_read of one member of n bytes.
Read(n) ==
  /\ pc = "ready" /\ item # NULL /\ pos <= PositionLimit
  /\ pc' = "cluster" /\ request' = [offset |-> pos, size |-> n]
  /\ cluster' = item.cluster /\ offset' = pos /\ total' = n /\ out' = <<>>
  /\ UNCHANGED <<volume, stream, root_directory, opening, pos>>

fat16_get_cluster_for_offset_Adjacent(first, o) == first + (o \div ClusterSize)

fat16_get_cluster_for_offset_OneAhead(first, o) == Hops(first, (o \div ClusterSize) + 1)

fat16_get_cluster_for_offset(first, o) == Hops(first, o \div ClusterSize)

OneCluster == IF total > ClusterSize THEN ClusterSize ELSE total

\* fat16_read_internal_from_stream: at most a cluster's size is read from the
\* position of the offset inside its cluster.
ReadCluster ==
  LET from == fat16_get_cluster_for_offset(cluster, offset)
  IN /\ pc = "cluster" /\ from # EIO
     /\ stream' = Begin(ClusterPosition(from) + (offset % ClusterSize), OneCluster)
     /\ pc' = "stream"
     /\ UNCHANGED <<volume, cluster, offset, total, out, root_directory, opening, file>>

ReadFails ==
  /\ pc = "cluster" /\ fat16_get_cluster_for_offset(cluster, offset) = EIO
  /\ pc' = "failed"
  /\ UNCHANGED <<volume, reading, root_directory, opening, file>>

\* The next cluster goes to out + total_to_read, whatever the stream copied.
Untouched == -1

ClusterDone ==
  /\ pc = "stream" /\ stream.returned
  /\ out' = out \o [k \in 1..OneCluster |->
                      IF k \in DOMAIN stream.out THEN stream.out[k] ELSE Untouched]
  /\ total' = total - OneCluster /\ offset' = offset + OneCluster
  /\ pc' = IF total' > 0 THEN "cluster" ELSE "done"
  /\ stream' = Idle
  /\ UNCHANGED <<volume, cluster, root_directory, opening, file>>

\* The result goes to the program; a read that failed leaves the position.
Return ==
  /\ pc \in {"done", "failed"} /\ item.kind = "file"
  /\ pos' = IF pc = "done" THEN offset ELSE pos
  /\ pc' = "ready" /\ request' = NoRequest
  /\ cluster' = ROOT /\ offset' = 0 /\ total' = 0 /\ out' = <<>> /\ stream' = Idle
  /\ UNCHANGED <<volume, root_directory, opening>>

Work == \/ ReadSector \/ CountItem
        \/ Resolve \/ RootCounted \/ RootRead
        \/ Find \/ DirectoryCounted \/ DirectoryRead \/ NextPart \/ NextPartOfNothing
        \/ Opened \/ Refused \/ Accepted
        \/ ReadCluster \/ ReadFails \/ ClusterDone \/ Return

Calls == \/ \E p \in Paths : Open(p)
         \/ Close
         \/ \E mode \in {"SEEK_SET", "SEEK_CUR"}, o \in SeekOffsets : Seek(mode, o)
         \/ \E n \in Sizes : Read(n)

\* A path was used that is none; what follows is not followed.
Undefined == pc = "undefined" /\ UNCHANGED vars

Next == Work \/ Calls \/ Undefined

Spec == Init /\ [][Next]_vars /\ WF_vars(Work)

------------------------------------------------------------------------------
(* Correctness *)

\* Byte f of the open file is this byte of the disk.
FileByte(f) == ClusterPosition(item.chain[f \div ClusterSize + 1]) + (f % ClusterSize)

WithinFile == request.offset + request.size =< Len(item.chain) * ClusterSize

\* fat16.c:596 "reads data from cluster to the out pointer", streamer.c:29 "reads
\* x amount of bytes from the disk stream to the out pointer": a read that
\* succeeds, and begins where a cluster begins, delivers the bytes of the file it was
\* asked for, in order, whatever sectors and clusters they are spread over.  (One
\* that begins elsewhere does not subtract its offset in the cluster.)
ReadsTheFile ==
  pc = "done" /\ item.kind = "file" /\ request.offset % ClusterSize = 0 =>
    WithinFile /\ out = [k \in 1..request.size |-> FileByte(request.offset + k - 1)]

\* fat16_get_cluster_for_offset: a read fails only if the file has no cluster for
\* some byte of the request, from wherever it begins; reading a directory never does.
FailsOnlyPastEnd == pc = "failed" => item.kind = "file" /\ ~WithinFile

\* The entry that a path means on the disk, among those that were not deleted.
Entry(d, name) ==
  LET called == {k \in 1..Len(volume[d]) :
                   /\ volume[d][k].kind # "deleted"
                   /\ istrncmp(volume[d][k].called, name)}
  IN IF called = {} THEN NULL ELSE volume[d][CHOOSE k \in called : TRUE]

Meant(p) ==
  LET meant[n \in 1..Len(p)] ==
        IF n = 1 THEN Entry(ROOT, p[1])
        ELSE IF meant[n - 1].kind = "directory" THEN Entry(meant[n - 1].cluster, p[n]) ELSE NULL
  IN meant[Len(p)]

\* No entry that is in use lies behind a deleted one.
Tidy(d) == \A j, k \in 1..Len(volume[d]) :
  j < k /\ volume[d][j].kind = "deleted" => volume[d][k].kind = "deleted"

\* fat16_open, fat16_get_directory_entry: a path opens the entry it means, in any case
\* of its letters, or none; it opens none only if there is none, or if some directory
\* has an entry behind a deleted one (the lookup stops before the last entries then).
OpensWhatIsMeant ==
  pc = "opened" =>
    \/ item = Meant(asked)
    \/ item = NULL /\ \E d \in DOMAIN volume : ~Tidy(d)

\* fat16.c:49 "counts the total number of items in directory": the loop of
\* fat16_get_total_items_for_directory ends, and the volume is resolved.
CountReturns == <>(pc = "ready")

\* Every call returns to its program: resolving the volume, opening any path, and
\* reading any number of bytes from any position; unless it runs into item 0.
CallsReturn == pc # "ready" ~> pc \in {"ready", "undefined"}

==============================================================================
