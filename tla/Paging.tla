------------------------------- MODULE Paging -------------------------------
(***************************************************************************)
(* Page directories (src/memory/paging/paging.c).  A directory is read as  *)
(* its tables; the directory's own entries grant everything to programs    *)
(* and never change.  An entry's low bits, its flags, are kept as a set.   *)
(***************************************************************************)
EXTENDS Integers

CONSTANTS EntriesPerTable, \* PAGING_TOTAL_ENTRIES_PER_TABLE, and tables per directory
          PageSize         \* PAGING_PAGE_SIZE

ASSUME PagingAssumption == EntriesPerTable \in Nat \ {0} /\ PageSize \in Nat \ {0}

Index == 0..(EntriesPerTable-1)
ChunkSize == EntriesPerTable * PageSize
MemorySize == EntriesPerTable * ChunkSize \* 2^32

Address == 0..(MemorySize-1)
PageAddress == {a \in Address : a % PageSize = 0}

Flag == {"present", "writeable", "all"}
Entry == [page : PageAddress, flags : SUBSET Flag]
Directory == [Index -> [Index -> Entry]]

\* The page that entry j of table i is for.
PageAt(i, j) == i * ChunkSize + j * PageSize

paging_new_4gb(flags) ==
  [i \in Index |-> [j \in Index |-> [page |-> PageAt(i, j), flags |-> flags]]]

validate_paging_alignment(a) == a % PageSize = 0

\* paging_get_indexes of an aligned address.
directory_index(virt) == virt \div ChunkSize
table_index(virt) == (virt % ChunkSize) \div PageSize

paging_align_address(a) ==
  IF a % PageSize = 0 THEN a ELSE (a + PageSize - (a % PageSize)) % MemorySize

paging_align_to_lower_page(a) == a - (a % PageSize)

\* Of an address that is not aligned, the first entry: the indexes stay 0.
paging_get(dir, virt) ==
  IF validate_paging_alignment(virt)
  THEN dir[directory_index(virt)][table_index(virt)]
  ELSE dir[0][0]

paging_set(dir, virt, entry) ==
  IF validate_paging_alignment(virt)
  THEN [dir EXCEPT ![directory_index(virt)][table_index(virt)] = entry]
  ELSE dir

paging_map(dir, virt, phys, flags) ==
  IF validate_paging_alignment(virt) /\ validate_paging_alignment(phys)
  THEN paging_set(dir, virt, [page |-> phys, flags |-> flags])
  ELSE dir

\* The loop over count pages, at once: entry (i, j) is set when its page is one of
\* those from virt on, which go around at the end of the 32 bits.
paging_map_range(dir, virt, phys, count, flags) ==
  [i \in Index |-> [j \in Index |->
     LET distance == (PageAt(i, j) - virt) % MemorySize
     IN IF distance < count * PageSize
        THEN [page |-> (phys + distance) % MemorySize, flags |-> flags]
        ELSE dir[i][j]]]

\* Nothing is mapped for addresses that are not aligned or an end before the start.
paging_map_to(dir, virt, phys, phys_end, flags) ==
  IF /\ \A a \in {virt, phys, phys_end} : validate_paging_alignment(a)
     /\ phys <= phys_end
  THEN paging_map_range(dir, virt, phys, (phys_end - phys) \div PageSize, flags)
  ELSE dir

paging_get_physical_address_PageOnly(dir, virt) ==
  paging_get(dir, paging_align_to_lower_page(virt)).page

paging_get_physical_address(dir, virt) ==
  paging_get(dir, paging_align_to_lower_page(virt)).page
    + (virt - paging_align_to_lower_page(virt))

\* The memory a program can write through a directory.
Grants(dir) == {a \in PageAddress : \E i, j \in Index : dir[i][j] = [page |-> a, flags |-> Flag]}

==============================================================================
