------------------------- MODULE ProgramPagesProofs -------------------------
(***************************************************************************)
(* Proofs about programs and their page directories: ProgramPages does     *)
(* what ProcessMemory says, a program sees the memory it holds at the      *)
(* addresses the kernel sees it, reads its segments and its stack where    *)
(* its file puts them, and writes what it asked for and nothing else, for  *)
(* every number of programs and blocks, every page size and every set of   *)
(* program files.                                                          *)
(***************************************************************************)
EXTENDS ProgramPages, ProcessMemoryProofs

------------------------------------------------------------------------------
(* Page directories: paging_get reads what was written *)

\* The sizes of a page, of what a table maps and of memory.
LEMMA Products ==
  /\ ChunkSize \in Nat \ {0} /\ MemorySize \in Nat \ {0}
  /\ ChunkSize = EntriesPerTable * PageSize
  /\ MemorySize = EntriesPerTable * ChunkSize
  /\ PageSize \in Nat \ {0} /\ EntriesPerTable \in Nat \ {0}
BY PagingAssumption DEF ChunkSize, MemorySize

\* Quotient and remainder.
LEMMA Division ==
  ASSUME NEW a \in Int, NEW d \in Nat \ {0}
  PROVE  /\ a \div d \in Int /\ a % d \in 0..(d-1)
         /\ a = d * (a \div d) + (a % d)
OBVIOUS

\* A number has one quotient and one remainder.
LEMMA Unique ==
  ASSUME NEW d \in Nat \ {0}, NEW q \in Int, NEW r \in 0..(d-1)
  PROVE  (d * q + r) \div d = q /\ (d * q + r) % d = r
<1> DEFINE a == d * q + r
           p == a \div d
           s == a % d
<1>1. a \in Int /\ p \in Int /\ s \in 0..(d-1) /\ a = d * p + s
  BY Division
<1>2. d * (p - q) = r - s
  BY <1>1
<1>3. p - q < 1
  <2> SUFFICES ASSUME p - q >= 1 PROVE FALSE
    BY <1>1
  <2>1. d * (p - q) >= d
    BY <1>1
  <2> QED BY <2>1, <1>2, <1>1
<1>4. p - q > -1
  <2> SUFFICES ASSUME q - p >= 1 PROVE FALSE
    BY <1>1
  <2>1. d * (q - p) >= d
    BY <1>1
  <2>2. d * (q - p) = s - r
    BY <1>1
  <2> QED BY <2>1, <2>2, <1>1
<1>5. p = q
  BY <1>1, <1>3, <1>4
<1> QED BY <1>1, <1>5

\* paging_get_indexes of the page an entry is for gives that entry.
LEMMA EntryHasPage ==
  ASSUME NEW i \in Index, NEW j \in Index
  PROVE  /\ PageAt(i, j) \in PageAddress
         /\ directory_index(PageAt(i, j)) = i /\ table_index(PageAt(i, j)) = j
<1> USE Products
<1>1. i \in Int /\ j \in Int /\ 0 <= i /\ i <= EntriesPerTable - 1
      /\ 0 <= j /\ j <= EntriesPerTable - 1
  BY DEF Index
<1>2. j * PageSize \in 0..(ChunkSize - 1)
  <2>1. j * PageSize <= (EntriesPerTable - 1) * PageSize
    BY <1>1
  <2>2. (EntriesPerTable - 1) * PageSize = ChunkSize - PageSize
    OBVIOUS
  <2>3. j * PageSize >= 0
    BY <1>1
  <2> QED
    BY <1>1, <2>1, <2>2, <2>3
<1>3. PageAt(i, j) = ChunkSize * i + j * PageSize
  BY <1>1 DEF PageAt
<1>4. PageAt(i, j) \div ChunkSize = i /\ PageAt(i, j) % ChunkSize = j * PageSize
  BY <1>1, <1>2, <1>3, Unique
<1>5. (PageSize * j + 0) \div PageSize = j
  BY <1>1, Unique
<1>6. PageAt(i, j) = PageSize * (i * EntriesPerTable + j) + 0
  BY <1>1 DEF PageAt
<1>7. PageAt(i, j) % PageSize = 0
  <2>1. i * EntriesPerTable + j \in Int /\ 0 \in 0..(PageSize-1)
    BY <1>1
  <2> QED
    BY <1>6, <2>1, Unique
<1>8. PageAt(i, j) \in 0..(MemorySize-1)
  <2>1. i * ChunkSize <= (EntriesPerTable - 1) * ChunkSize
    BY <1>1
  <2>2. (EntriesPerTable - 1) * ChunkSize = MemorySize - ChunkSize
    OBVIOUS
  <2>3. 0 <= i * ChunkSize
    BY <1>1
  <2> QED
    BY <1>1, <1>2, <1>3, <2>1, <2>2, <2>3
<1> QED
  BY <1>1, <1>4, <1>5, <1>7, <1>8 DEF directory_index, table_index, PageAddress, Address

\* paging_get_indexes gives each page an entry of the directory, and no two the same.
LEMMA PageHasEntry ==
  ASSUME NEW v \in PageAddress
  PROVE  /\ directory_index(v) \in Index /\ table_index(v) \in Index
         /\ PageAt(directory_index(v), table_index(v)) = v
<1> USE Products
<1> DEFINE q == v \div ChunkSize
           r == v % ChunkSize
           k == v \div PageSize
           t == k - EntriesPerTable * q
<1>1. v \in Int /\ 0 <= v /\ v <= MemorySize - 1 /\ v % PageSize = 0
  BY DEF PageAddress, Address
<1>2. q \in Int /\ r \in 0..(ChunkSize-1) /\ v = ChunkSize * q + r
  BY <1>1, Division
<1>3. k \in Int /\ v = PageSize * k
  BY <1>1, Division
<1> HIDE DEF q, r, k
<1>4. t \in Int /\ r = PageSize * t
  BY <1>2, <1>3
<1>5. t \in 0..(EntriesPerTable-1)
  <2>1. t > -1
    <3> SUFFICES ASSUME t <= -1 PROVE FALSE
      BY <1>4
    <3>1. PageSize * t <= -PageSize
      BY <1>4
    <3> QED
      BY <3>1, <1>2, <1>4
  <2>2. t < EntriesPerTable
    <3> SUFFICES ASSUME t >= EntriesPerTable PROVE FALSE
      BY <1>4
    <3>1. PageSize * t >= PageSize * EntriesPerTable
      BY <1>4
    <3> QED
      BY <3>1, <1>2, <1>4
  <2> QED
    BY <1>4, <2>1, <2>2
<1>6. q \in 0..(EntriesPerTable-1)
  <2>1. q > -1
    <3> SUFFICES ASSUME q <= -1 PROVE FALSE
      BY <1>2
    <3>1. ChunkSize * q <= -ChunkSize
      BY <1>2
    <3> QED
      BY <3>1, <1>1, <1>2
  <2>2. q < EntriesPerTable
    <3> SUFFICES ASSUME q >= EntriesPerTable PROVE FALSE
      BY <1>2
    <3>1. ChunkSize * q >= ChunkSize * EntriesPerTable
      BY <1>2
    <3> QED
      BY <3>1, <1>1, <1>2
  <2> QED
    BY <1>2, <2>1, <2>2
<1>7. r \div PageSize = t
  <2>1. r = PageSize * t + 0 /\ 0 \in 0..(PageSize-1)
    BY <1>4
  <2> HIDE DEF t
  <2> QED
    BY <2>1, <1>4, Unique
<1>8. directory_index(v) = q /\ table_index(v) = t
  BY <1>7 DEF directory_index, table_index, q, r
<1> HIDE DEF t
<1> QED
  BY <1>2, <1>4, <1>5, <1>6, <1>8 DEF Index, PageAt

\* paging_set and paging_get: an entry is read back at its own page and nowhere else.
LEMMA GetAfterSet ==
  ASSUME NEW dir \in Directory, NEW a \in PageAddress, NEW e \in Entry
  PROVE  /\ paging_set(dir, a, e) \in Directory
         /\ \A v \in PageAddress :
              paging_get(paging_set(dir, a, e), v) = IF v = a THEN e ELSE paging_get(dir, v)
<1>1. validate_paging_alignment(a)
  BY DEF PageAddress, validate_paging_alignment
<1>2. directory_index(a) \in Index /\ table_index(a) \in Index
  BY PageHasEntry
<1>3. paging_set(dir, a, e) =
        [dir EXCEPT ![directory_index(a)] = [@ EXCEPT ![table_index(a)] = e]]
  BY <1>1 DEF paging_set
<1>4. paging_set(dir, a, e) \in Directory
  BY <1>2, <1>3 DEF Directory
<1>5. ASSUME NEW v \in PageAddress
      PROVE  paging_get(paging_set(dir, a, e), v) = IF v = a THEN e ELSE paging_get(dir, v)
  <2>1. validate_paging_alignment(v)
    BY DEF PageAddress, validate_paging_alignment
  <2>2. /\ directory_index(v) \in Index /\ table_index(v) \in Index
        /\ directory_index(v) = directory_index(a) /\ table_index(v) = table_index(a) => v = a
    BY PageHasEntry
  <2> QED
    BY <1>2, <1>3, <2>1, <2>2 DEF paging_get, Directory
<1> QED
  BY <1>4, <1>5

\* paging_get reads the entry of a page.
LEMMA EntryRead ==
  ASSUME NEW dir \in Directory, NEW i \in Index, NEW j \in Index
  PROVE  paging_get(dir, PageAt(i, j)) = dir[i][j]
BY EntryHasPage DEF paging_get, validate_paging_alignment, PageAddress

\* Two directories that read the same everywhere are the same.
LEMMA DirectoriesEqual ==
  ASSUME NEW c \in Directory, NEW d \in Directory,
         \A v \in PageAddress : paging_get(c, v) = paging_get(d, v)
  PROVE  c = d
<1>1. ASSUME NEW i \in Index, NEW j \in Index PROVE c[i][j] = d[i][j]
  BY EntryRead, EntryHasPage
<1>2. ASSUME NEW i \in Index PROVE c[i] = d[i]
  BY <1>1 DEF Directory
<1> QED
  BY <1>2 DEF Directory

\* paging_get gives an entry.
LEMMA GetType ==
  ASSUME NEW dir \in Directory, NEW v \in PageAddress
  PROVE  paging_get(dir, v) \in Entry
BY PageHasEntry DEF paging_get, validate_paging_alignment, PageAddress, Directory

\* paging_map of aligned addresses sets the entry.
LEMMA MapIsSet ==
  ASSUME NEW dir, NEW virt \in PageAddress, NEW phys \in PageAddress, NEW flags
  PROVE  paging_map(dir, virt, phys, flags) =
           paging_set(dir, virt, [page |-> phys, flags |-> flags])
BY DEF paging_map, validate_paging_alignment, PageAddress

\* copy_string_from_task leaves the directory as it found it.
LEMMA MapAndRestore ==
  ASSUME NEW dir \in Directory, NEW a \in PageAddress, NEW flags \in SUBSET Flag
  PROVE  paging_set(paging_map(dir, a, a, flags), a, paging_get(dir, a)) = dir
<1> DEFINE e == [page |-> a, flags |-> flags]
           c == paging_set(dir, a, e)
<1>1. e \in Entry
  BY DEF Entry
<1>2. c \in Directory /\ paging_map(dir, a, a, flags) = c
  BY <1>1, GetAfterSet, MapIsSet
<1>3. paging_get(dir, a) \in Entry
  BY GetType
<1>4. \A v \in PageAddress : paging_get(c, v) = IF v = a THEN e ELSE paging_get(dir, v)
  BY <1>1, GetAfterSet
<1> HIDE DEF c, e
<1>5. /\ paging_set(c, a, paging_get(dir, a)) \in Directory
      /\ \A v \in PageAddress : paging_get(paging_set(c, a, paging_get(dir, a)), v) = paging_get(dir, v)
  BY <1>2, <1>3, <1>4, GetAfterSet
<1> QED
  BY <1>2, <1>5, DirectoriesEqual

\* 32-bit arithmetic keeps page addresses page addresses.
LEMMA WrappedIsPage ==
  ASSUME NEW a \in Int, a % PageSize = 0
  PROVE  a % MemorySize \in PageAddress
<1> DEFINE k == a \div PageSize
           q == a \div MemorySize
           r == a % MemorySize
           t == k - EntriesPerTable * EntriesPerTable * q
<1>a. MemorySize \in Nat \ {0} /\ PageSize \in Nat \ {0} /\ EntriesPerTable \in Nat \ {0}
  BY Products
<1>1. k \in Int /\ a = PageSize * k
  <2>1. k \in Int /\ a = PageSize * k + (a % PageSize)
    BY <1>a, Division
  <2> QED
    BY <1>a, <2>1
<1>2. q \in Int /\ r \in 0..(MemorySize-1) /\ a = MemorySize * q + r
  BY <1>a, Division
<1> HIDE DEF k, q, r
<1>3. t \in Int /\ r = PageSize * t + 0
  BY <1>1, <1>2, Products
<1> HIDE DEF t
<1>4. r % PageSize = 0
  <2>1. 0 \in 0..(PageSize-1)
    BY <1>a
  <2> QED
    BY <1>a, <2>1, <1>3, Unique
<1> QED
  BY <1>2, <1>4 DEF r, PageAddress, Address

\* Sums and differences of page addresses are whole pages.
LEMMA WholePages ==
  ASSUME NEW a \in Int, NEW b \in Int, a % PageSize = 0, b % PageSize = 0
  PROVE  /\ (a + b) % PageSize = 0 /\ (a - b) % PageSize = 0
         /\ PageSize * ((a - b) \div PageSize) = a - b
         /\ a - b > -PageSize => a >= b
<1> USE Products
<1> DEFINE j == a \div PageSize
           k == b \div PageSize
<1>1. j \in Int /\ k \in Int /\ a = PageSize * j /\ b = PageSize * k
  BY Division
<1> HIDE DEF j, k
<1>2. j + k \in Int /\ j - k \in Int /\ 0 \in 0..(PageSize-1)
      /\ a + b = PageSize * (j + k) + 0 /\ a - b = PageSize * (j - k) + 0
  BY <1>1
<1>3. (a + b) % PageSize = 0 /\ (a - b) % PageSize = 0 /\ (a - b) \div PageSize = j - k
  <2>1. ASSUME NEW q \in Int
        PROVE  (PageSize * q + 0) % PageSize = 0 /\ (PageSize * q + 0) \div PageSize = q
    BY <1>2, Unique
  <2>2. (PageSize * (j + k) + 0) % PageSize = 0
    BY <1>2, <2>1
  <2>3. (PageSize * (j - k) + 0) % PageSize = 0 /\ (PageSize * (j - k) + 0) \div PageSize = j - k
    BY <1>2, <2>1
  <2> QED
    BY <1>2, <2>2, <2>3
<1>4. a - b > -PageSize => a >= b
  <2> SUFFICES ASSUME j - k <= -1 PROVE a - b <= -PageSize
    <3>1. j - k >= 0 => PageSize * (j - k) >= 0
      BY <1>1
    <3> QED
      BY <3>1, <1>1, <1>2
  <2>1. PageSize * (j - k) <= -PageSize
    BY <1>1
  <2> QED
    BY <2>1, <1>2
<1> QED
  BY <1>2, <1>3, <1>4

\* paging_map_range leaves a directory, even where it goes around at the end of memory.
LEMMA RangeType ==
  ASSUME NEW dir \in Directory, NEW virt \in Int, NEW phys \in Int, NEW count,
         NEW flags \in SUBSET Flag, virt % PageSize = 0, phys % PageSize = 0
  PROVE  paging_map_range(dir, virt, phys, count, flags) \in Directory
<1> DEFINE r == paging_map_range(dir, virt, phys, count, flags)
<1>1. ASSUME NEW v \in PageAddress
      PROVE  (phys + ((v - virt) % MemorySize)) % MemorySize \in PageAddress
  <2> DEFINE d == (v - virt) % MemorySize
  <2>1. v \in Int /\ v % PageSize = 0
    BY Products DEF PageAddress, Address
  <2>2. v - virt \in Int /\ (v - virt) % PageSize = 0
    BY <2>1, WholePages
  <2>3. d \in PageAddress
    BY <2>2, WrappedIsPage
  <2> HIDE DEF d
  <2>4. d \in Int /\ d % PageSize = 0
    BY <2>3, Products DEF PageAddress, Address
  <2>5. phys + d \in Int /\ (phys + d) % PageSize = 0
    <3>1. (phys + d) % PageSize = 0
      BY <2>4, WholePages
    <3> QED
      BY <2>4, <3>1
  <2>6. (phys + d) % MemorySize \in PageAddress
    BY <2>5, WrappedIsPage
  <2> QED
    BY <2>6 DEF d
<1> SUFFICES ASSUME NEW i \in Index, NEW j \in Index
             PROVE  r[i][j] \in Entry
  BY DEF r, paging_map_range, Directory
<1>2. PageAt(i, j) \in PageAddress
  BY EntryHasPage
<1>3. (phys + ((PageAt(i, j) - virt) % MemorySize)) % MemorySize \in PageAddress
  BY <1>1, <1>2
<1>4. dir[i][j] \in Entry
  BY DEF Directory
<1> DEFINE distance == (PageAt(i, j) - virt) % MemorySize
<1>5. r[i][j] = IF distance < count * PageSize
                THEN [page |-> (phys + distance) % MemorySize, flags |-> flags]
                ELSE dir[i][j]
  BY DEF r, paging_map_range
<1>6. [page |-> (phys + distance) % MemorySize, flags |-> flags] \in Entry
  BY <1>3 DEF Entry
<1> QED
  BY <1>4, <1>5, <1>6

\* Whatever paging_map_to is asked for, a directory is left.
LEMMA MapToType ==
  ASSUME NEW dir \in Directory, NEW virt \in Int, NEW phys \in Int, NEW phys_end \in Int,
         NEW flags \in SUBSET Flag
  PROVE  paging_map_to(dir, virt, phys, phys_end, flags) \in Directory
<1>1. CASE virt % PageSize = 0 /\ phys % PageSize = 0
  BY <1>1, RangeType DEF paging_map_to
<1>2. CASE ~(virt % PageSize = 0 /\ phys % PageSize = 0)
  BY <1>2 DEF paging_map_to, validate_paging_alignment
<1> QED
  BY <1>1, <1>2

\* paging_map_range maps count pages and no other.
LEMMA RangeRead ==
  ASSUME NEW dir \in Directory, NEW virt \in PageAddress, NEW phys \in PageAddress,
         NEW count \in Nat, NEW flags \in SUBSET Flag
  PROVE  /\ paging_map_range(dir, virt, phys, count, flags) \in Directory
         /\ \A v \in PageAddress :
              paging_get(paging_map_range(dir, virt, phys, count, flags), v) =
                LET distance == (v - virt) % MemorySize
                IN IF distance < count * PageSize
                   THEN [page |-> (phys + distance) % MemorySize, flags |-> flags]
                   ELSE paging_get(dir, v)
<1> DEFINE r == paging_map_range(dir, virt, phys, count, flags)
<1>1. /\ virt \in Int /\ virt % PageSize = 0 /\ phys \in Int /\ phys % PageSize = 0
  BY Products DEF PageAddress, Address
<1>2. r \in Directory
  BY <1>1, RangeType
<1>3. ASSUME NEW v \in PageAddress
      PROVE  paging_get(r, v) =
                LET distance == (v - virt) % MemorySize
                IN IF distance < count * PageSize
                   THEN [page |-> (phys + distance) % MemorySize, flags |-> flags]
                   ELSE paging_get(dir, v)
  <2> DEFINE i == directory_index(v)
             j == table_index(v)
  <2>1. i \in Index /\ j \in Index /\ PageAt(i, j) = v
    BY PageHasEntry
  <2>2. validate_paging_alignment(v)
    BY DEF PageAddress, validate_paging_alignment
  <2>3. paging_get(r, v) = r[i][j] /\ paging_get(dir, v) = dir[i][j]
    BY <2>2 DEF paging_get
  <2> HIDE DEF i, j
  <2> QED
    BY <2>1, <2>3 DEF r, paging_map_range
<1> QED
  BY <1>2, <1>3

\* paging_align_to_lower_page gives the page an address is in.
LEMMA LowerPage ==
  ASSUME NEW a \in Address
  PROVE  LET page == paging_align_to_lower_page(a)
         IN page \in PageAddress /\ page <= a /\ a < page + PageSize
<1> DEFINE k == a \div PageSize
           o == a % PageSize
<1>a. PageSize \in Nat \ {0} /\ a \in Int /\ 0 <= a /\ a <= MemorySize - 1 /\ MemorySize \in Nat
  BY Products DEF Address
<1>1. k \in Int /\ o \in 0..(PageSize-1) /\ a = PageSize * k + o
  BY <1>a, Division
<1>2. paging_align_to_lower_page(a) = a - o
  BY DEF paging_align_to_lower_page
<1> HIDE DEF k, o
<1>3. a - o = PageSize * k + 0 /\ 0 \in 0..(PageSize-1)
  BY <1>a, <1>1
<1>4. (a - o) % PageSize = 0
  BY <1>a, <1>1, <1>3, Unique
<1>5. a - o >= 0
  <2> SUFFICES ASSUME k <= -1 PROVE FALSE
    <3>1. k >= 0 => PageSize * k >= 0
      BY <1>a, <1>1
    <3> QED
      BY <1>a, <1>1, <1>3, <3>1
  <2>1. PageSize * k <= -PageSize
    BY <1>a, <1>1
  <2> QED
    BY <2>1, <1>a, <1>1
<1> QED
  BY <1>a, <1>1, <1>2, <1>4, <1>5 DEF PageAddress, Address

\* paging_align_address goes up to the end of the page, unless memory ends there.
LEMMA UpperPage ==
  ASSUME NEW a \in Nat, a + PageSize <= MemorySize
  PROVE  LET end == paging_align_address(a)
         IN end \in PageAddress /\ a <= end /\ end < a + PageSize
<1> DEFINE o == a % PageSize
<1>a. PageSize \in Nat \ {0} /\ MemorySize \in Nat \ {0} /\ a \in Int /\ a \in Address
  BY Products DEF Address
<1>1. o \in 0..(PageSize-1)
  BY <1>a, Division
<1>2. CASE o = 0
  BY <1>a, <1>2 DEF paging_align_address, PageAddress
<1>3. CASE o # 0
  <2>1. /\ a - o \in PageAddress
    BY <1>a, LowerPage DEF paging_align_to_lower_page
  <2> DEFINE p == a - o
             e == p + PageSize
  <2>2. p \in Int /\ p % PageSize = 0 /\ e = a + PageSize - o
    BY <1>a, <1>1, <2>1 DEF PageAddress
  <2>3. PageSize % PageSize = 0
    <3>1. 0 \in 0..(PageSize-1) /\ 1 \in Int /\ PageSize = PageSize * 1 + 0
      BY <1>a
    <3> QED
      BY <1>a, <3>1, Unique
  <2>4. e % PageSize = 0
    <3>1. PageSize \in Int
      BY <1>a
    <3> HIDE DEF p
    <3>2. (p + PageSize) % PageSize = 0
      BY <2>2, <2>3, <3>1, WholePages
    <3> QED
      BY <3>2
  <2>5. e \in 0..(MemorySize-1) /\ a <= e /\ e < a + PageSize
    BY <1>a, <1>1, <1>3
  <2>6. e % MemorySize = e
    <3> HIDE DEF e
    <3>1. 0 \in Int /\ e = MemorySize * 0 + e
      BY <1>a, <2>5
    <3> QED
      BY <1>a, <2>5, <3>1, Unique
  <2>7. paging_align_address(a) = e
    BY <1>3, <2>2, <2>6 DEF paging_align_address
  <2> QED
    BY <2>4, <2>5, <2>7 DEF PageAddress, Address
<1> QED
  BY <1>2, <1>3

\* paging_map_to maps the pages up to phys_end, each to the page as far from phys as
\* it is from virt, and leaves every other page as it was.
LEMMA MapToRead ==
  ASSUME NEW dir \in Directory, NEW virt \in PageAddress, NEW phys \in PageAddress,
         NEW phys_end \in PageAddress, NEW flags \in SUBSET Flag,
         phys <= phys_end, virt + (phys_end - phys) <= MemorySize
  PROVE  /\ paging_map_to(dir, virt, phys, phys_end, flags) \in Directory
         /\ \A v \in PageAddress :
              paging_get(paging_map_to(dir, virt, phys, phys_end, flags), v) =
                IF virt <= v /\ v - virt < phys_end - phys
                THEN [page |-> phys + (v - virt), flags |-> flags]
                ELSE paging_get(dir, v)
<1> DEFINE n == (phys_end - phys) \div PageSize
           r == paging_map_range(dir, virt, phys, n, flags)
<1>a. /\ PageSize \in Nat \ {0} /\ MemorySize \in Nat \ {0}
      /\ \A a \in {virt, phys, phys_end} : a \in Int /\ 0 <= a /\ a < MemorySize /\ a % PageSize = 0
  BY Products DEF PageAddress, Address
<1>1. PageSize * n = phys_end - phys
  BY <1>a, WholePages
<1>2. n \in Nat
  <2>1. phys_end - phys \in Int
    BY <1>a
  <2>2. n \in Int
    BY <1>a, <2>1, Division
  <2> HIDE DEF n
  <2>3. n <= -1 => PageSize * n <= -PageSize
    BY <1>a, <2>2
  <2> QED
    BY <1>a, <1>1, <2>2, <2>3
<1>3. paging_map_to(dir, virt, phys, phys_end, flags) = r
  BY <1>a DEF paging_map_to, validate_paging_alignment
<1> HIDE DEF n
<1>4. /\ r \in Directory
      /\ \A v \in PageAddress :
           paging_get(r, v) = LET distance == (v - virt) % MemorySize
                              IN IF distance < n * PageSize
                                 THEN [page |-> (phys + distance) % MemorySize, flags |-> flags]
                                 ELSE paging_get(dir, v)
  BY <1>2, RangeRead
<1>5. n * PageSize = phys_end - phys
  BY <1>a, <1>1, <1>2
<1> HIDE DEF r
<1>6. ASSUME NEW v \in PageAddress
      PROVE  paging_get(r, v) = IF virt <= v /\ v - virt < phys_end - phys
                                THEN [page |-> phys + (v - virt), flags |-> flags]
                                ELSE paging_get(dir, v)
  <2>a. v \in Int /\ 0 <= v /\ v < MemorySize
    BY <1>a DEF PageAddress, Address
  <2> DEFINE d == (v - virt) % MemorySize
  <2>1. paging_get(r, v) = IF d < phys_end - phys
                           THEN [page |-> (phys + d) % MemorySize, flags |-> flags]
                           ELSE paging_get(dir, v)
    BY <1>4, <1>5
  <2>2. CASE virt <= v
    <3>1. 0 \in Int /\ v - virt \in 0..(MemorySize-1) /\ v - virt = MemorySize * 0 + (v - virt)
      BY <1>a, <2>a, <2>2
    <3>2. d = v - virt
      BY <1>a, <3>1, Unique
    <3>3. CASE d < phys_end - phys
      <4>1. 0 \in Int /\ phys + d \in 0..(MemorySize-1) /\ phys + d = MemorySize * 0 + (phys + d)
        BY <1>a, <2>a, <2>2, <3>2, <3>3
      <4>2. (phys + d) % MemorySize = phys + d
        <5> HIDE DEF d
        <5> QED
          BY <1>a, <4>1, Unique
      <4> QED
        BY <2>1, <2>2, <3>2, <3>3, <4>2
    <3>4. CASE ~(d < phys_end - phys)
      BY <2>1, <3>2, <3>4
    <3> QED
      BY <3>3, <3>4
  <2>3. CASE ~(virt <= v)
    <3>1. -1 \in Int /\ v - virt + MemorySize \in 0..(MemorySize-1)
          /\ v - virt = MemorySize * (-1) + (v - virt + MemorySize)
      BY <1>a, <2>a, <2>3
    <3>2. d = v - virt + MemorySize
      BY <1>a, <3>1, Unique
    <3>3. ~(d < phys_end - phys)
      BY <1>a, <2>a, <3>2
    <3> QED
      BY <2>1, <2>3, <3>3
  <2> QED
    BY <2>2, <2>3
<1> QED
  BY <1>3, <1>4, <1>6

\* process_map_elf: each byte of a segment is reached at the address the program
\* header gives it, when the segment lies at the same place of a page in memory as in
\* the file; paging_get_physical_address finds it.
THEOREM SegmentBytes ==
  ASSUME NEW dir \in Directory, NEW vaddr \in Nat, NEW phys \in Nat, NEW size \in Nat,
         NEW flags \in SUBSET Flag,
         vaddr % PageSize = phys % PageSize,
         vaddr + size + PageSize <= MemorySize, phys + size + PageSize <= MemorySize
  PROVE  LET mapped == paging_map_to(dir, paging_align_to_lower_page(vaddr),
                                     paging_align_to_lower_page(phys),
                                     paging_align_address(phys + size), flags)
         IN \A k \in 0..(size-1) :
              /\ paging_get_physical_address(mapped, vaddr + k) = phys + k
              /\ paging_get(mapped, paging_align_to_lower_page(vaddr + k)).flags = flags
<1> DEFINE o == vaddr % PageSize
           virt == paging_align_to_lower_page(vaddr)
           start == paging_align_to_lower_page(phys)
           end == paging_align_address(phys + size)
           mapped == paging_map_to(dir, virt, start, end, flags)
<1>a. /\ PageSize \in Nat \ {0} /\ MemorySize \in Nat \ {0}
      /\ vaddr \in Address /\ phys \in Address /\ phys + size \in Nat
  BY Products DEF Address
<1>1. o \in 0..(PageSize-1) /\ virt = vaddr - o /\ start = phys - o
  <2>1. o \in 0..(PageSize-1)
    BY <1>a, Division
  <2> QED
    BY <2>1 DEF paging_align_to_lower_page
<1>2. virt \in PageAddress /\ start \in PageAddress
  BY <1>a, LowerPage
<1>3. end \in PageAddress /\ phys + size <= end /\ end < phys + size + PageSize
  BY <1>a, UpperPage
<1> HIDE DEF o, virt, start, end
<1>4. /\ virt \in Int /\ start \in Int /\ end \in Int /\ virt % PageSize = 0
      /\ start <= end /\ virt + (end - start) <= MemorySize
  BY <1>a, <1>1, <1>2, <1>3 DEF PageAddress, Address
<1>5. \A v \in PageAddress :
        paging_get(mapped, v) = IF virt <= v /\ v - virt < end - start
                                THEN [page |-> start + (v - virt), flags |-> flags]
                                ELSE paging_get(dir, v)
  BY <1>2, <1>3, <1>4, MapToRead
<1>6. ASSUME NEW k \in 0..(size-1)
      PROVE  /\ paging_get_physical_address(mapped, vaddr + k) = phys + k
             /\ paging_get(mapped, paging_align_to_lower_page(vaddr + k)).flags = flags
  <2> DEFINE v == paging_align_to_lower_page(vaddr + k)
  <2>1. vaddr + k \in Address
    BY <1>a DEF Address
  <2>2. v \in PageAddress /\ v <= vaddr + k /\ vaddr + k < v + PageSize
    BY <2>1, LowerPage
  <2> HIDE DEF v
  <2>3. v \in Int /\ v % PageSize = 0
    BY <1>a, <2>2 DEF PageAddress, Address
  <2>4. v - virt > -PageSize
    BY <1>1, <1>4, <1>a, <2>2, <2>3
  <2>5. virt <= v
    BY <1>4, <2>3, <2>4, WholePages
  <2>6. v - virt < end - start
    BY <1>1, <1>3, <1>4, <1>a, <2>2, <2>3
  <2>7. paging_get(mapped, v) = [page |-> start + (v - virt), flags |-> flags]
    BY <1>5, <2>2, <2>5, <2>6
  <2>8. paging_get_physical_address(mapped, vaddr + k) = start + (v - virt) + (vaddr + k - v)
    <3> HIDE DEF mapped
    <3>1. paging_get_physical_address(mapped, vaddr + k) =
            paging_get(mapped, v).page + ((vaddr + k) - v)
      BY DEF paging_get_physical_address, v
    <3>2. paging_get(mapped, v).page = start + (v - virt)
      BY <2>7
    <3> QED
      BY <1>a, <1>4, <2>3, <3>1, <3>2
  <2>9. start + (v - virt) + (vaddr + k - v) = phys + k
    BY <1>1, <1>4, <1>a, <2>3
  <2> QED
    BY <2>7, <2>8, <2>9 DEF v
<1> QED
  BY <1>6 DEF mapped, virt, start, end

\* The page directories are directories.
DirectoriesOK == directory \in [Program -> Directory]

------------------------------------------------------------------------------
(* ProgramPages implements ProcessMemory *)

\* Every step on directories is a step of ProcessMemory.
LEMMA PagesStep ==
  ASSUME PagesNext
  PROVE  [Next]_vars
<1> PICK p \in Program :
      LoadProgram(p) \/ Malloc(p) \/ MallocFails(p) \/ Free(p) \/ CopyString(p) \/ End(p)
  BY DEF PagesNext
<1>1. CASE LoadProgram(p)
  <2>1. PICK blocks, writes : Load(p, blocks, writes)
    BY <1>1 DEF LoadProgram
  <2>2. blocks \in SUBSET Block /\ writes \in SUBSET blocks
    BY <2>1 DEF Load, kzalloc
  <2> QED
    BY <2>1, <2>2 DEF Next
<1>2. CASE Malloc(p)
  <2>1. PICK b : process_malloc(p, b)
    BY <1>2 DEF Malloc
  <2>2. b \in Block
    BY <2>1 DEF process_malloc, kzalloc
  <2> QED
    BY <2>1, <2>2 DEF Next
<1>3. CASE MallocFails(p)
  BY <1>3 DEF MallocFails, Next
<1>4. CASE Free(p)
  BY <1>4 DEF Free, Next
<1>5. CASE CopyString(p)
  <2>1. PICK b : copy_string_from_task(p, b)
    BY <1>5 DEF CopyString
  <2>2. b \in Block
    BY <2>1 DEF copy_string_from_task, kzalloc
  <2> QED
    BY <2>1, <2>2 DEF Next
<1>6. CASE End(p)
  BY <1>6 DEF End, Next
<1> QED
  BY <1>1, <1>2, <1>3, <1>4, <1>5, <1>6

\* What is proved of program memory (Isolated, HeldIsKept, TrackedIsOwn) holds with
\* page directories: process_map_memory, process_malloc, process_free,
\* copy_string_from_task and process_terminate do what ProcessMemory says.
THEOREM PagesImplementMemory == PagesSpec => Spec
<1>1. PagesInit => Init
  BY DEF PagesInit
<1>2. [PagesNext]_allvars => [Next]_vars
  BY PagesStep DEF allvars
<1> QED
  BY <1>1, <1>2, PTL DEF PagesSpec, Spec

------------------------------------------------------------------------------
(* The directories *)

\* task_init: a new directory maps all memory to itself.
LEMMA NewDirectory ==
  ASSUME NEW flags \in SUBSET Flag
  PROVE  paging_new_4gb(flags) \in Directory
<1> SUFFICES ASSUME NEW i \in Index, NEW j \in Index
             PROVE  [page |-> PageAt(i, j), flags |-> flags] \in Entry
  BY DEF paging_new_4gb, Directory
<1>1. PageAt(i, j) \in PageAddress
  BY EntryHasPage
<1> QED
  BY <1>1 DEF Entry

\* Alignment gives whole numbers.
LEMMA AlignedIsInt ==
  ASSUME NEW a \in Int
  PROVE  paging_align_to_lower_page(a) \in Int /\ paging_align_address(a) \in Int
<1>1. PageSize \in Nat \ {0} /\ MemorySize \in Nat \ {0} /\ a % PageSize \in Int
  BY Products, Division
<1>2. a + PageSize - (a % PageSize) \in Int
  BY <1>1
<1>3. (a + PageSize - (a % PageSize)) % MemorySize \in Int
  BY <1>1, <1>2, Division
<1> QED
  BY <1>1, <1>3 DEF paging_align_to_lower_page, paging_align_address

\* process_map_elf and process_map_binary leave a directory.
LEMMA MapFileType ==
  ASSUME NEW name \in DOMAIN ProgramFiles, NEW memory \in Int, NEW dir \in Directory
  PROVE  /\ process_map_elf(dir, ProgramFiles[name].segments, memory) \in Directory
         /\ process_map_binary(dir, ProgramFiles[name], memory) \in Directory
<1> DEFINE file == ProgramFiles[name]
<1>a. /\ ProgramAddress \in Int /\ StackTop \in Int /\ StackSize \in Int /\ file.size \in Int
      /\ \A i \in DOMAIN file.segments : file.segments[i] \in SegmentType
  BY ProgramPagesAssumption, Products DEF PageAddress, Address
<1>b. Flag \in SUBSET Flag /\ ReadOnly \in SUBSET Flag
  BY DEF Flag, ReadOnly
<1> HIDE DEF file
<1>1. ASSUME NEW s \in SegmentType
      PROVE  MapSegment(dir, s, memory) \in Directory
  <2>1. /\ s.p_vaddr \in Int /\ elf_phdr_phys_address(memory, s) \in Int
        /\ elf_phdr_phys_address(memory, s) + s.p_memsz \in Int
    BY DEF SegmentType, elf_phdr_phys_address
  <2>2. /\ paging_align_to_lower_page(s.p_vaddr) \in Int
        /\ paging_align_to_lower_page(elf_phdr_phys_address(memory, s)) \in Int
        /\ SegmentEnd(memory, s) \in Int
    BY <2>1, AlignedIsInt DEF SegmentEnd
  <2>3. (IF s.writeable THEN Flag ELSE ReadOnly) \in SUBSET Flag
    BY <1>b
  <2> QED
    BY <2>2, <2>3, MapToType DEF MapSegment
<1>2. process_map_elf(dir, file.segments, memory) \in Directory
  <2> DEFINE mapped == process_map_elf(dir, file.segments, memory)
  <2> SUFFICES ASSUME NEW i \in Index, NEW j \in Index
               PROVE  mapped[i][j] \in Entry
    BY DEF process_map_elf, Directory
  <2> DEFINE Last(k) == /\ Covers(file.segments[k], memory, PageAt(i, j))
                        /\ \A m \in DOMAIN file.segments :
                             m > k => ~Covers(file.segments[m], memory, PageAt(i, j))
             last == CHOOSE k \in DOMAIN file.segments : Last(k)
  <2>1. mapped[i][j] = IF \E k \in DOMAIN file.segments : Last(k)
                       THEN MapSegment(dir, file.segments[last], memory)[i][j]
                       ELSE dir[i][j]
    BY DEF process_map_elf
  <2> HIDE DEF mapped
  <2>2. CASE \E k \in DOMAIN file.segments : Last(k)
    <3>1. last \in DOMAIN file.segments
      BY <2>2
    <3> HIDE DEF last, Last
    <3>2. MapSegment(dir, file.segments[last], memory) \in Directory
      BY <1>a, <1>1, <3>1
    <3> QED
      BY <2>1, <2>2, <3>2 DEF Directory
  <2>3. CASE ~(\E k \in DOMAIN file.segments : Last(k))
    BY <2>1, <2>3 DEF Directory
  <2> QED
    BY <2>2, <2>3
<1>3. process_map_binary(dir, file, memory) \in Directory
  <2>1. memory + file.size \in Int
    BY <1>a
  <2>2. paging_align_address(memory + file.size) \in Int
    BY <2>1, AlignedIsInt
  <2> QED
    BY <1>a, <1>b, <2>2, MapToType DEF process_map_binary
<1> QED
  BY <1>2, <1>3 DEF file

\* process_map_memory leaves a directory.
LEMMA MapMemoryType ==
  ASSUME NEW name \in DOMAIN ProgramFiles, NEW memory \in Int, NEW stack \in Int,
         NEW dir \in Directory
  PROVE  process_map_memory(dir, ProgramFiles[name], memory, stack) \in Directory
<1> DEFINE file == ProgramFiles[name]
<1>a. StackTop \in Int /\ StackSize \in Int
  BY ProgramPagesAssumption, Products DEF PageAddress, Address
<1>b. Flag \in SUBSET Flag
  OBVIOUS
<1>1. /\ process_map_elf(dir, file.segments, memory) \in Directory
      /\ process_map_binary(dir, file, memory) \in Directory
  BY MapFileType
<1> HIDE DEF file
<1>2. /\ StackTop - StackSize \in Int /\ paging_align_address(stack + StackSize) \in Int
  <2>1. stack + StackSize \in Int
    BY <1>a
  <2> QED
    BY <1>a, <2>1, AlignedIsInt
<1>3. process_map_memory(dir, file, memory, stack) \in Directory
  <2> DEFINE mapped == IF file.elf THEN process_map_elf(dir, file.segments, memory)
                       ELSE process_map_binary(dir, file, memory)
  <2>1. mapped \in Directory
    BY <1>1
  <2>2. process_map_memory(dir, file, memory, stack) =
          paging_map_to(mapped, StackTop - StackSize, stack,
                        paging_align_address(stack + StackSize), Flag)
    BY DEF process_map_memory
  <2> HIDE DEF mapped
  <2> QED
    BY <1>b, <1>2, <2>1, <2>2, MapToType
<1> QED
  BY <1>3 DEF file

\* process_malloc and process_free change the page of the allocation and no other.
LEMMA MapAllocationRead ==
  ASSUME NEW dir \in Directory, NEW b \in Block, NEW flags \in SUBSET Flag
  PROVE  /\ MapAllocation(dir, b, flags) \in Directory
         /\ \A v \in PageAddress :
              paging_get(MapAllocation(dir, b, flags), v) =
                IF v = b THEN [page |-> b, flags |-> flags] ELSE paging_get(dir, v)
<1> DEFINE end == paging_align_address(b + AllocationSize)
<1>a. /\ PageSize \in Nat \ {0} /\ MemorySize \in Nat \ {0}
      /\ AllocationSize \in 1..PageSize
      /\ b \in PageAddress /\ b \in Int /\ 0 <= b /\ b % PageSize = 0
      /\ b + 2 * PageSize <= MemorySize
  BY Products, ProgramPagesAssumption DEF PageAddress, Address
<1>1. end \in PageAddress /\ b + AllocationSize <= end /\ end < b + AllocationSize + PageSize
  <2>1. b + AllocationSize \in Nat /\ b + AllocationSize + PageSize <= MemorySize
    BY <1>a
  <2> QED
    BY <2>1, UpperPage
<1> HIDE DEF end
<1>2. end \in Int /\ end % PageSize = 0
  BY <1>1, <1>a DEF PageAddress, Address
<1>3. end <= b + PageSize
  <2>1. PageSize % PageSize = 0
    <3>1. 0 \in 0..(PageSize-1) /\ 1 \in Int /\ PageSize = PageSize * 1 + 0
      BY <1>a
    <3> QED
      BY <1>a, <3>1, Unique
  <2>2. b + PageSize \in Int /\ (b + PageSize) % PageSize = 0
    <3>1. PageSize \in Int
      BY <1>a
    <3>2. (b + PageSize) % PageSize = 0
      BY <1>a, <2>1, <3>1, WholePages
    <3> QED
      BY <1>a, <3>2
  <2>3. (b + PageSize) - end > -PageSize
    BY <1>a, <1>1, <1>2
  <2> QED
    BY <1>2, <2>2, <2>3, WholePages
<1>4. ASSUME NEW v \in PageAddress
      PROVE  (b <= v /\ v - b < end - b) <=> v = b
  <2>1. v \in Int /\ v % PageSize = 0
    BY <1>a DEF PageAddress, Address
  <2>2. ASSUME b <= v, v - b < end - b PROVE v = b
    <3>1. b - v > -PageSize
      BY <1>a, <1>2, <1>3, <2>1, <2>2
    <3>2. b >= v
      BY <1>a, <2>1, <3>1, WholePages
    <3> QED
      BY <1>a, <2>1, <2>2, <3>2
  <2>3. v = b => b <= v /\ v - b < end - b
    BY <1>a, <1>1, <1>2
  <2> QED
    BY <2>2, <2>3
<1>5. b <= end /\ b + (end - b) <= MemorySize
  BY <1>a, <1>1, <1>2, <1>3
<1>6. /\ MapAllocation(dir, b, flags) \in Directory
      /\ \A v \in PageAddress :
           paging_get(MapAllocation(dir, b, flags), v) =
             IF b <= v /\ v - b < end - b
             THEN [page |-> b + (v - b), flags |-> flags]
             ELSE paging_get(dir, v)
  <2>1. MapAllocation(dir, b, flags) = paging_map_to(dir, b, b, end, flags)
    BY DEF MapAllocation, end
  <2>2. /\ paging_map_to(dir, b, b, end, flags) \in Directory
        /\ \A v \in PageAddress :
             paging_get(paging_map_to(dir, b, b, end, flags), v) =
               IF b <= v /\ v - b < end - b
               THEN [page |-> b + (v - b), flags |-> flags]
               ELSE paging_get(dir, v)
    BY <1>a, <1>1, <1>5, MapToRead
  <2> QED
    BY <2>1, <2>2
<1>7. b + (b - b) = b
  BY <1>a
<1> QED
  BY <1>4, <1>6, <1>7

------------------------------------------------------------------------------
(* The memory a program holds *)

\* A page a program holds is mapped to itself.
HeldMapped == \A b \in held :
  LET entry == paging_get(directory[gotBy[b]], b)
  IN entry.page = b /\ "present" \in entry.flags

PagesInv == IInv /\ DirectoriesOK /\ HeldMapped

\* paging_get_physical_address goes to the page of a byte.
LEMMA ByteOfBlock ==
  ASSUME NEW dir, NEW b \in Block, NEW k \in 0..(AllocationSize-1)
  PROVE  /\ paging_align_to_lower_page(b + k) = b
         /\ paging_get_physical_address(dir, b + k) = paging_get(dir, b).page + k
<1>a. /\ PageSize \in Nat \ {0} /\ b \in Int /\ 0 <= b /\ b % PageSize = 0
      /\ k \in 0..(PageSize-1)
  BY Products, ProgramPagesAssumption DEF PageAddress, Address
<1> DEFINE q == b \div PageSize
<1>1. q \in Int /\ b = PageSize * q + (b % PageSize)
  BY <1>a, Division
<1> HIDE DEF q
<1>2. b + k = PageSize * q + k
  BY <1>a, <1>1
<1>3. (PageSize * q + k) % PageSize = k
  BY <1>a, <1>1, Unique
<1>4. paging_align_to_lower_page(b + k) = b
  BY <1>a, <1>2, <1>3 DEF paging_align_to_lower_page
<1>5. paging_get_physical_address(dir, b + k) =
        paging_get(dir, paging_align_to_lower_page(b + k)).page
          + ((b + k) - paging_align_to_lower_page(b + k))
  BY DEF paging_get_physical_address
<1>6. (b + k) - b = k
  BY <1>a
<1> QED
  BY <1>4, <1>5, <1>6

\* A held page that is mapped to itself is seen, byte by byte, at its own address.
LEMMA MappedIsIdentity ==
  ASSUME HeldMapped, IInv
  PROVE  HeldIsIdentity
<1> SUFFICES ASSUME NEW b \in held, NEW k \in 0..(AllocationSize-1)
             PROVE  Reaches(gotBy[b], b + k, b + k)
  BY DEF HeldIsIdentity
<1>1. b \in Block /\ b \in Int /\ k \in Int
  <2>1. b \in Block
    BY DEF IInv, TypeOK
  <2>2. AllocationSize \in Nat
    BY Products, ProgramPagesAssumption
  <2> QED
    BY <2>1, <2>2, Products, ProgramPagesAssumption DEF PageAddress, Address
<1>2. /\ paging_get(directory[gotBy[b]], b).page = b
      /\ "present" \in paging_get(directory[gotBy[b]], b).flags
  BY DEF HeldMapped
<1>3. /\ paging_align_to_lower_page(b + k) = b
      /\ paging_get_physical_address(directory[gotBy[b]], b + k) =
           paging_get(directory[gotBy[b]], b).page + k
  BY <1>1, ByteOfBlock
<1> QED
  BY <1>1, <1>2, <1>3 DEF Reaches

\* A page a program holds stays mapped to itself while it is held, as long as its
\* directory changes at other pages only.
LEMMA StaysMapped ==
  ASSUME PagesInv, DirectoriesOK', held' \subseteq held,
         \A b \in held' : /\ gotBy'[b] = gotBy[b]
                         /\ paging_get(directory'[gotBy[b]], b) = paging_get(directory[gotBy[b]], b)
  PROVE  HeldMapped'
BY DEF PagesInv, HeldMapped

\* process_load_for_slot maps a program that held nothing.
LEMMA LoadProgramMaps ==
  ASSUME PagesInv, NEW p \in Program, LoadProgram(p)
  PROVE  DirectoriesOK' /\ HeldMapped'
<1> PICK name \in DOMAIN ProgramFiles :
      \E memory \in FirstFit(used, ProgramFiles[name].size) :
      \E stack \in FirstFit(used \cup Run(memory, ProgramFiles[name].size), StackSize) :
        LET file == ProgramFiles[name]
        IN /\ Load(p, Run(memory, file.size) \cup Run(stack, StackSize), Writes(file, memory, stack))
           /\ directory' = [directory EXCEPT ![p] =
                process_map_memory(paging_new_4gb(ReadOnly), file, memory, stack)]
  BY DEF LoadProgram
<1> PICK memory \in FirstFit(used, ProgramFiles[name].size) :
      \E stack \in FirstFit(used \cup Run(memory, ProgramFiles[name].size), StackSize) :
        LET file == ProgramFiles[name]
        IN /\ Load(p, Run(memory, file.size) \cup Run(stack, StackSize), Writes(file, memory, stack))
           /\ directory' = [directory EXCEPT ![p] =
                process_map_memory(paging_new_4gb(ReadOnly), file, memory, stack)]
  OBVIOUS
<1> PICK stack \in FirstFit(used \cup Run(memory, ProgramFiles[name].size), StackSize) :
      LET file == ProgramFiles[name]
      IN /\ Load(p, Run(memory, file.size) \cup Run(stack, StackSize), Writes(file, memory, stack))
         /\ directory' = [directory EXCEPT ![p] =
              process_map_memory(paging_new_4gb(ReadOnly), file, memory, stack)]
  OBVIOUS
<1> DEFINE blocks == Run(memory, ProgramFiles[name].size) \cup Run(stack, StackSize)
           dir == process_map_memory(paging_new_4gb(ReadOnly), ProgramFiles[name], memory, stack)
<1>1. /\ p \notin alive /\ held' = held /\ blocks \cap used = {}
      /\ gotBy' = [b \in Block |-> IF b \in blocks THEN p ELSE gotBy[b]]
      /\ directory' = [directory EXCEPT ![p] = dir]
  BY DEF Load, kzalloc
<1>2. dir \in Directory
  <2>1. memory \in Int /\ stack \in Int
    <3>1. memory \in Block /\ stack \in Block
      BY DEF FirstFit, Fits
    <3> QED
      BY <3>1, Products, ProgramPagesAssumption DEF PageAddress, Address
  <2>2. paging_new_4gb(ReadOnly) \in Directory
    BY NewDirectory DEF ReadOnly, Flag
  <2> QED
    BY <2>1, <2>2, MapMemoryType
<1> HIDE DEF dir, blocks
<1>3. DirectoriesOK'
  BY <1>1, <1>2 DEF PagesInv, DirectoriesOK
<1>4. ASSUME NEW b \in held
      PROVE  gotBy'[b] = gotBy[b] /\ directory'[gotBy[b]] = directory[gotBy[b]]
  <2>1. b \in used /\ b \in Block /\ gotBy[b] \in alive /\ gotBy[b] # p
    BY <1>1 DEF PagesInv, IInv, TypeOK, HeldIsKept
  <2>2. gotBy[b] \in Program
    BY <2>1 DEF PagesInv, IInv, TypeOK
  <2> QED
    BY <1>1, <2>1, <2>2 DEF PagesInv, DirectoriesOK
<1> QED
  BY <1>1, <1>3, <1>4, StaysMapped

\* process_malloc maps the block it hands out to itself and no other.
LEMMA MallocMaps ==
  ASSUME PagesInv, NEW p \in Program, Malloc(p)
  PROVE  DirectoriesOK' /\ HeldMapped'
<1> PICK c \in FirstFit(used, AllocationSize) :
      /\ process_malloc(p, c)
      /\ directory' = [directory EXCEPT ![p] = MapAllocation(@, c, Flag)]
  BY DEF Malloc
<1>1. /\ c \in Block /\ c \notin used /\ held' = held \cup {c}
      /\ gotBy' = [b \in Block |-> IF b \in {c} THEN p ELSE gotBy[b]]
  BY DEF process_malloc, kzalloc
<1>2. directory[p] \in Directory /\ directory' = [directory EXCEPT ![p] = MapAllocation(directory[p], c, Flag)]
  BY DEF PagesInv, DirectoriesOK
<1>3. /\ MapAllocation(directory[p], c, Flag) \in Directory
      /\ \A v \in PageAddress :
           paging_get(MapAllocation(directory[p], c, Flag), v) =
             IF v = c THEN [page |-> c, flags |-> Flag] ELSE paging_get(directory[p], v)
  BY <1>1, <1>2, MapAllocationRead
<1>4. DirectoriesOK' /\ directory'[p] = MapAllocation(directory[p], c, Flag)
  BY <1>2, <1>3 DEF PagesInv, DirectoriesOK
<1>5. ASSUME NEW b \in held'
      PROVE  LET entry == paging_get(directory'[gotBy'[b]], b)
             IN entry.page = b /\ "present" \in entry.flags
  <2>1. b \in Block /\ b \in PageAddress /\ c \in PageAddress
    BY <1>1, ProgramPagesAssumption DEF PagesInv, IInv, TypeOK
  <2>2. CASE b = c
    <3>1. gotBy'[b] = p /\ paging_get(directory'[p], b) = [page |-> b, flags |-> Flag]
      BY <1>1, <1>3, <1>4, <2>1, <2>2
    <3> QED
      BY <3>1 DEF Flag
  <2>3. CASE b # c
    <3>1. b \in held /\ gotBy'[b] = gotBy[b] /\ gotBy[b] \in Program
      BY <1>1, <2>1, <2>3 DEF PagesInv, IInv, TypeOK, HeldIsKept
    <3>2. paging_get(directory'[gotBy[b]], b) = paging_get(directory[gotBy[b]], b)
      BY <1>2, <1>3, <1>4, <2>1, <2>3, <3>1 DEF PagesInv, DirectoriesOK
    <3> QED
      BY <3>1, <3>2 DEF PagesInv, HeldMapped
  <2> QED
    BY <2>2, <2>3
<1> QED
  BY <1>4, <1>5 DEF HeldMapped

\* process_free unmaps a block of the caller's, which it no longer holds.
LEMMA FreeMaps ==
  ASSUME PagesInv, NEW p \in Program, Free(p)
  PROVE  DirectoriesOK' /\ HeldMapped'
<1> PICK c \in Block \cup {NULL} :
      /\ process_free(p, c)
      /\ directory' = [directory EXCEPT ![p] = IF c # NULL /\ IsAllocation(p, c)
                                               THEN MapAllocation(@, c, {}) ELSE @]
  BY DEF Free
<1>1. held' = {b \in held : b # c \/ gotBy[b] # p}
  BY DEF process_free
<1>2. CASE c # NULL /\ IsAllocation(p, c)
  <2>1. /\ c \in Block /\ directory[p] \in Directory
        /\ gotBy' = [b \in Block |-> IF b \in {c} THEN NULL ELSE gotBy[b]]
        /\ directory' = [directory EXCEPT ![p] = MapAllocation(directory[p], c, {})]
    BY <1>2 DEF process_free, kfree, PagesInv, DirectoriesOK
  <2>2. gotBy[c] = p
    BY <1>2 DEF PagesInv, IInv, TrackedIsOwn, IsAllocation
  <2>3. /\ MapAllocation(directory[p], c, {}) \in Directory
        /\ \A v \in PageAddress :
             paging_get(MapAllocation(directory[p], c, {}), v) =
               IF v = c THEN [page |-> c, flags |-> {}] ELSE paging_get(directory[p], v)
    BY <2>1, MapAllocationRead
  <2>4. DirectoriesOK' /\ directory'[p] = MapAllocation(directory[p], c, {})
    BY <2>1, <2>3 DEF PagesInv, DirectoriesOK
  <2>5. ASSUME NEW b \in held'
        PROVE  /\ gotBy'[b] = gotBy[b]
               /\ paging_get(directory'[gotBy[b]], b) = paging_get(directory[gotBy[b]], b)
    <3>1. b \in held /\ b # c /\ b \in Block /\ b \in PageAddress /\ gotBy[b] \in Program
      BY <1>1, <2>2, ProgramPagesAssumption DEF PagesInv, IInv, TypeOK, HeldIsKept
    <3> QED
      BY <2>1, <2>3, <2>4, <3>1 DEF PagesInv, DirectoriesOK
  <2> QED
    BY <1>1, <2>4, <2>5, StaysMapped
<1>3. CASE ~(c # NULL /\ IsAllocation(p, c))
  <2>1. gotBy' = gotBy /\ directory' = directory
    BY <1>3 DEF process_free, PagesInv, DirectoriesOK
  <2> QED
    BY <1>1, <2>1, StaysMapped DEF PagesInv, DirectoriesOK
<1> QED
  BY <1>2, <1>3

\* copy_string_from_task puts back the entry of its buffer's page.
LEMMA CopyStringMaps ==
  ASSUME PagesInv, NEW p \in Program, CopyString(p)
  PROVE  DirectoriesOK' /\ HeldMapped'
<1> PICK tmp \in FirstFit(used, AllocationSize) :
      /\ copy_string_from_task(p, tmp)
      /\ directory' = [directory EXCEPT ![p] = CopiedThrough(@, tmp)]
  BY DEF CopyString
<1>1. /\ tmp \in Block /\ tmp \notin used /\ held' = held
      /\ gotBy' = [b \in Block |-> IF b \in {tmp} THEN KERNEL ELSE gotBy[b]]
  BY DEF copy_string_from_task, kzalloc
<1>2. tmp \in PageAddress /\ directory[p] \in Directory
  BY <1>1, ProgramPagesAssumption DEF PagesInv, DirectoriesOK
<1>3. CopiedThrough(directory[p], tmp) = directory[p]
  BY <1>2, MapAndRestore DEF CopiedThrough
<1>4. directory' = directory
  BY <1>3 DEF PagesInv, DirectoriesOK
<1>5. ASSUME NEW b \in held PROVE gotBy'[b] = gotBy[b]
  BY <1>1 DEF PagesInv, IInv, TypeOK, HeldIsKept
<1> QED
  BY <1>1, <1>4, <1>5, StaysMapped DEF PagesInv, DirectoriesOK

\* process_terminate frees the directory of a program that holds nothing any more.
LEMMA EndMaps ==
  ASSUME PagesInv, NEW p \in Program, End(p)
  PROVE  DirectoriesOK' /\ HeldMapped'
<1> DEFINE freed == Tracked(p) \cup image[p]
<1>1. /\ held' = {b \in held : gotBy[b] # p}
      /\ gotBy' = [b \in Block |-> IF b \in freed THEN NULL ELSE gotBy[b]]
      /\ directory' = [directory EXCEPT ![p] = NoDirectory]
  BY DEF End, process_terminate, kfree
<1>2. \A b \in freed : gotBy[b] = p
  BY DEF PagesInv, IInv, TrackedIsOwn, ImageIsOwn, Tracked
<1> HIDE DEF freed
<1>3. NoDirectory \in Directory
  BY NewDirectory DEF NoDirectory
<1>4. DirectoriesOK'
  BY <1>1, <1>3 DEF PagesInv, DirectoriesOK
<1>5. ASSUME NEW b \in held'
      PROVE  gotBy'[b] = gotBy[b] /\ directory'[gotBy[b]] = directory[gotBy[b]]
  <2>1. b \in held /\ b \in Block /\ gotBy[b] # p /\ gotBy[b] \in Program
    BY <1>1 DEF PagesInv, IInv, TypeOK, HeldIsKept
  <2> QED
    BY <1>1, <1>2, <2>1 DEF PagesInv, DirectoriesOK
<1> QED
  BY <1>1, <1>4, <1>5, StaysMapped

\* The inductive invariant of programs and their directories.
THEOREM PagesInvariant == PagesSpec => []PagesInv
<1>1. PagesInit => PagesInv
  <2> SUFFICES ASSUME PagesInit PROVE PagesInv
    OBVIOUS
  <2>1. IInv
    BY DEF PagesInit, Init, IInv, TypeOK, Isolated, TrackedIsOwn, ImageIsOwn, HeldIsKept
  <2>2. NoDirectory \in Directory
    BY NewDirectory DEF NoDirectory
  <2> QED
    BY <2>1, <2>2 DEF PagesInit, Init, PagesInv, DirectoriesOK, HeldMapped
<1>2. IInv /\ IInv' /\ PagesInv /\ [PagesNext]_allvars => PagesInv'
  <2> SUFFICES ASSUME IInv', PagesInv, [PagesNext]_allvars PROVE PagesInv'
    OBVIOUS
  <2>1. CASE UNCHANGED allvars
    BY <2>1 DEF allvars, vars, PagesInv, DirectoriesOK, HeldMapped
  <2>2. CASE PagesNext
    <3> PICK p \in Program :
          LoadProgram(p) \/ Malloc(p) \/ MallocFails(p) \/ Free(p) \/ CopyString(p) \/ End(p)
      BY <2>2 DEF PagesNext
    <3>1. CASE LoadProgram(p)
      BY <3>1, LoadProgramMaps DEF PagesInv
    <3>2. CASE Malloc(p)
      BY <3>2, MallocMaps DEF PagesInv
    <3>3. CASE MallocFails(p)
      BY <3>3 DEF MallocFails, process_malloc_fails, vars, PagesInv, DirectoriesOK, HeldMapped
    <3>4. CASE Free(p)
      BY <3>4, FreeMaps DEF PagesInv
    <3>5. CASE CopyString(p)
      BY <3>5, CopyStringMaps DEF PagesInv
    <3>6. CASE End(p)
      BY <3>6, EndMaps DEF PagesInv
    <3> QED
      BY <3>1, <3>2, <3>3, <3>4, <3>5, <3>6
  <2> QED
    BY <2>1, <2>2
<1>3. PagesSpec => []IInv
  BY PagesImplementMemory, ProcessMemoryInvariant, PTL
<1> QED
  BY <1>1, <1>2, <1>3, PTL DEF PagesSpec

\* A program sees the memory it holds at the addresses the kernel sees it, so that the
\* kernel can follow the pointers of system call 7's argument list.
THEOREM HeldSeenByKernel == PagesSpec => []HeldIsIdentity
<1>1. PagesInv => HeldIsIdentity
  BY MappedIsIdentity DEF PagesInv
<1> QED
  BY <1>1, PagesInvariant, PTL

------------------------------------------------------------------------------
(* Where a program lies *)

FirstPage(s) == paging_align_to_lower_page(s.p_vaddr)
FromPage(s, memory) == paging_align_to_lower_page(elf_phdr_phys_address(memory, s))

\* The page that a segment's page v is mapped to.
MappedTo(s, memory, v) == FromPage(s, memory) + (v - FirstPage(s))

\* The pages of a segment of a file of size bytes at memory: as many as its bytes take,
\* at the same distance from the bytes in virtual as in physical memory.
LiesAt(s, memory, size) ==
  /\ s.p_vaddr \in Nat /\ s.p_offset \in Nat /\ s.p_memsz \in Nat
  /\ FirstPage(s) \in PageAddress /\ FromPage(s, memory) \in PageAddress
  /\ SegmentEnd(memory, s) \in PageAddress
  /\ s.p_vaddr - FirstPage(s) \in 0..(PageSize-1)
  /\ (memory + s.p_offset) - FromPage(s, memory) = s.p_vaddr - FirstPage(s)
  /\ memory + s.p_offset + s.p_memsz <= SegmentEnd(memory, s)
  /\ SegmentEnd(memory, s) < memory + s.p_offset + s.p_memsz + PageSize
  /\ FromPage(s, memory) <= SegmentEnd(memory, s)
  /\ FirstPage(s) + (SegmentEnd(memory, s) - FromPage(s, memory)) <= MemorySize
  /\ memory <= FromPage(s, memory)
  /\ SegmentEnd(memory, s) < memory + size + PageSize

\* A page address is a number at the start of a page.
LEMMA PageFacts ==
  ASSUME NEW a \in PageAddress
  PROVE  a \in Int /\ 0 <= a /\ a < MemorySize /\ a % PageSize = 0
BY Products DEF PageAddress, Address

\* A page starts less than a page after another one only if it starts no later.
LEMMA PageOrder ==
  ASSUME NEW a \in Int, NEW b \in Int, a % PageSize = 0, b % PageSize = 0, a < b + PageSize
  PROVE  a <= b
<1>1. b - a > -PageSize
  BY Products
<1> QED
  BY <1>1, WholePages

\* The last page of memory (no block is there).
LEMMA LastPage ==
  ASSUME PageSize <= MemorySize
  PROVE  MemorySize - PageSize \in PageAddress
<1>a. PageSize \in Nat \ {0} /\ EntriesPerTable \in Nat \ {0} /\ MemorySize \in Nat \ {0}
  BY Products
<1> DEFINE k == EntriesPerTable * EntriesPerTable - 1
<1>1. k \in Int
  BY <1>a
<1>2. MemorySize - PageSize = PageSize * k + 0
  <2>1. MemorySize = EntriesPerTable * (EntriesPerTable * PageSize)
    BY Products
  <2>2. EntriesPerTable * (EntriesPerTable * PageSize) = PageSize * (EntriesPerTable * EntriesPerTable)
    BY <1>a
  <2>3. PageSize * (EntriesPerTable * EntriesPerTable) - PageSize = PageSize * k
    BY <1>a
  <2> QED
    BY <1>a, <1>1, <2>1, <2>2, <2>3
<1>3. (MemorySize - PageSize) % PageSize = 0
  <2> HIDE DEF k
  <2> QED
    BY <1>a, <1>1, <1>2, Unique
<1> QED
  BY <1>a, <1>3 DEF PageAddress, Address

\* An allocation ends a page before the end of memory, rounded up to pages as well.
LEMMA FitsBelow ==
  ASSUME NEW taken, NEW size \in Nat, NEW a \in Fits(taken, size)
  PROVE  /\ a \in Block /\ a \in PageAddress /\ Run(a, size) \subseteq Block
         /\ size + PageSize <= MemorySize
         /\ paging_align_address(size) \in Nat /\ paging_align_address(size) < size + PageSize
         /\ a + paging_align_address(size) + PageSize <= MemorySize
<1>a. PageSize \in Nat \ {0} /\ MemorySize \in Nat \ {0}
  BY Products
<1>1. /\ a \in Block /\ Run(a, size) \subseteq Block
      /\ \A b \in Block : b \in PageAddress /\ b + 2 * PageSize <= MemorySize
  BY ProgramPagesAssumption DEF Fits
<1>2. a \in Int /\ 0 <= a /\ a % PageSize = 0 /\ a + 2 * PageSize <= MemorySize
  BY <1>1, PageFacts
<1> DEFINE last == MemorySize - PageSize
<1>3. last \in PageAddress
  BY <1>a, <1>2, LastPage
<1>4. last \in Int /\ last % PageSize = 0
  BY <1>3, PageFacts
<1>5. a + size <= last
  <2> SUFFICES ASSUME last < a + size PROVE FALSE
    BY <1>2, <1>4
  <2>1. last \in Run(a, size)
    BY <1>a, <1>2, <1>3 DEF Run
  <2>2. last + 2 * PageSize <= MemorySize
    BY <1>1, <2>1
  <2> QED
    BY <1>a, <2>2
<1> DEFINE up == paging_align_address(size)
<1>6. size + PageSize <= MemorySize
  BY <1>a, <1>2, <1>5
<1>7. up \in PageAddress /\ size <= up /\ up < size + PageSize
  BY <1>6, UpperPage
<1> HIDE DEF up, last
<1>8. up \in Int /\ 0 <= up /\ up % PageSize = 0
  BY <1>7, PageFacts
<1>9. a + up \in Int /\ (a + up) % PageSize = 0
  BY <1>2, <1>8, WholePages
<1>10. a + up <= last
  <2>1. a + up < last + PageSize
    BY <1>a, <1>2, <1>4, <1>5, <1>7, <1>8
  <2> QED
    BY <1>4, <1>9, <2>1, PageOrder
<1> QED
  BY <1>a, <1>1, <1>2, <1>6, <1>7, <1>8, <1>10 DEF up, last

\* A page more keeps the place in a page.
LEMMA SamePlace ==
  ASSUME NEW a \in Int, NEW b \in Int, a % PageSize = 0
  PROVE  (a + b) % PageSize = b % PageSize
<1>a. PageSize \in Nat \ {0}
  BY Products
<1> DEFINE j == a \div PageSize
           k == b \div PageSize
           r == b % PageSize
<1>1. j \in Int /\ k \in Int /\ r \in 0..(PageSize-1)
      /\ a = PageSize * j + (a % PageSize) /\ b = PageSize * k + r
  BY <1>a, Division
<1> HIDE DEF j, k, r
<1>2. a + b = PageSize * (j + k) + r /\ j + k \in Int
  <2>1. PageSize * (j + k) = PageSize * j + PageSize * k
    BY <1>a, <1>1
  <2> QED
    BY <1>a, <1>1, <2>1
<1>3. (PageSize * (j + k) + r) % PageSize = r
  BY <1>a, <1>1, <1>2, Unique
<1> QED
  BY <1>2, <1>3 DEF r

\* The pages of a segment, wherever its file is put.
LEMMA SegmentLies ==
  ASSUME NEW name \in DOMAIN ProgramFiles, ProgramFiles[name].elf,
         NEW i \in DOMAIN ProgramFiles[name].segments,
         NEW taken, NEW memory \in Fits(taken, ProgramFiles[name].size)
  PROVE  LiesAt(ProgramFiles[name].segments[i], memory, ProgramFiles[name].size)
<1> DEFINE s == ProgramFiles[name].segments[i]
           size == ProgramFiles[name].size
           vaddr == s.p_vaddr
           offset == s.p_offset
           memsz == s.p_memsz
           phys == memory + offset
           up == paging_align_address(size)
<1>a. PageSize \in Nat \ {0} /\ MemorySize \in Nat \ {0}
  BY Products
<1>1. /\ size \in Nat /\ s \in SegmentType
      /\ vaddr % PageSize = offset % PageSize /\ offset + memsz <= up
      /\ vaddr + memsz + PageSize <= MemorySize
  BY ProgramPagesAssumption, LayoutAssumption
<1>2. /\ vaddr \in Nat /\ offset \in Nat /\ memsz \in Nat
      /\ vaddr \in Int /\ offset \in Int /\ memsz \in Int
  <2> HIDE DEF s
  <2> QED
    BY <1>1 DEF SegmentType
<1> HIDE DEF s, size, vaddr, offset, memsz
<1>3. /\ memory \in PageAddress /\ memory \in Int /\ 0 <= memory /\ memory % PageSize = 0
      /\ up \in Nat /\ up < size + PageSize /\ memory + up + PageSize <= MemorySize
  <2>1. memory \in Fits(taken, size)
    BY DEF size
  <2> QED
    BY <1>1, <2>1, FitsBelow, PageFacts
<1> HIDE DEF up
<1> DEFINE r == vaddr % PageSize
<1>4. r \in 0..(PageSize-1) /\ phys % PageSize = r
  <2>1. r \in 0..(PageSize-1)
    BY <1>a, <1>2, Division
  <2>2. phys % PageSize = offset % PageSize
    BY <1>2, <1>3, SamePlace
  <2> QED
    BY <1>1, <2>1, <2>2
<1> DEFINE first == FirstPage(s)
           from == FromPage(s, memory)
           end == SegmentEnd(memory, s)
<1>5. first = vaddr - r /\ from = phys - r /\ end = paging_align_address(phys + memsz)
  BY <1>4 DEF FirstPage, FromPage, SegmentEnd, paging_align_to_lower_page, elf_phdr_phys_address,
                 vaddr, offset, memsz
<1>6. vaddr \in Address /\ phys \in Address /\ phys + memsz \in Nat
      /\ phys + memsz + PageSize <= MemorySize
  BY <1>a, <1>1, <1>2, <1>3 DEF Address
<1>7. first \in PageAddress /\ from \in PageAddress
  BY <1>6, LowerPage DEF FirstPage, FromPage, elf_phdr_phys_address, vaddr, offset
<1>8. end \in PageAddress /\ phys + memsz <= end /\ end < phys + memsz + PageSize
  BY <1>5, <1>6, UpperPage
<1> HIDE DEF phys, r, first, from, end
<1>9. /\ first \in Int /\ from \in Int /\ end \in Int
      /\ from % PageSize = 0 /\ end % PageSize = 0
  BY <1>7, <1>8, PageFacts
<1>10. memory <= from
  <2>1. memory < from + PageSize
    BY <1>a, <1>2, <1>3, <1>4, <1>5, <1>9 DEF phys
  <2> QED
    BY <1>3, <1>9, <2>1, PageOrder
<1>11. end < memory + size + PageSize
  <2>1. end < memory + up + PageSize
    BY <1>a, <1>1, <1>2, <1>3, <1>8, <1>9 DEF phys
  <2>2. up \in PageAddress
    <3>1. memory \in Fits(taken, size)
      BY DEF size
    <3>2. size + PageSize <= MemorySize
      BY <1>1, <3>1, FitsBelow
    <3> QED
      BY <1>1, <3>2, UpperPage DEF up
  <2>3. memory + up \in Int /\ (memory + up) % PageSize = 0
    BY <1>3, <2>2, PageFacts, WholePages
  <2>4. end <= memory + up
    BY <1>9, <2>1, <2>3, PageOrder
  <2> QED
    BY <1>a, <1>1, <1>3, <1>9, <2>4
<1>12. phys = memory + offset
  BY DEF phys
<1>13. /\ vaddr - first \in 0..(PageSize-1) /\ phys - from = vaddr - first
       /\ from <= end /\ first + (end - from) <= MemorySize
  BY <1>a, <1>1, <1>2, <1>3, <1>4, <1>5, <1>8, <1>9, <1>12
<1>14. LiesAt(s, memory, size)
  BY <1>2, <1>7, <1>8, <1>10, <1>11, <1>13
     DEF LiesAt, first, from, end, phys, vaddr, offset, memsz
<1> QED
  BY <1>14 DEF s, size

------------------------------------------------------------------------------
(* What process_map_memory leaves in a directory *)

InStack(v) == StackTop - StackSize <= v /\ v < StackTop

\* The entry of page v of a program at memory.
MappedEntry(file, memory, v, e) ==
  IF file.elf
  THEN /\ \A i \in DOMAIN file.segments :
            Covers(file.segments[i], memory, v) =>
              e = [page |-> MappedTo(file.segments[i], memory, v),
                   flags |-> IF file.segments[i].writeable THEN Flag ELSE ReadOnly]
       /\ (\A i \in DOMAIN file.segments : ~Covers(file.segments[i], memory, v)) =>
            e = [page |-> v, flags |-> ReadOnly]
  ELSE e = IF /\ ProgramAddress <= v
              /\ v - ProgramAddress < paging_align_address(memory + file.size) - memory
           THEN [page |-> memory + (v - ProgramAddress), flags |-> Flag]
           ELSE [page |-> v, flags |-> ReadOnly]

\* The same with its stack.
LoadedEntry(file, memory, stack, v, e) ==
  IF InStack(v)
  THEN e = [page |-> stack + (v - (StackTop - StackSize)), flags |-> Flag]
  ELSE MappedEntry(file, memory, v, e)

\* A new directory reads as the identity.
LEMMA NewRead ==
  ASSUME NEW v \in PageAddress, NEW flags \in SUBSET Flag
  PROVE  paging_get(paging_new_4gb(flags), v) = [page |-> v, flags |-> flags]
<1>1. directory_index(v) \in Index /\ table_index(v) \in Index
      /\ PageAt(directory_index(v), table_index(v)) = v
  BY PageHasEntry
<1>2. v % PageSize = 0
  BY PageFacts
<1> QED
  BY <1>1, <1>2 DEF paging_get, validate_paging_alignment, paging_new_4gb

\* Segments are mapped inside their pages.
LEMMA SegmentRead ==
  ASSUME NEW s, NEW memory, NEW size, LiesAt(s, memory, size),
         NEW dir \in Directory, NEW v \in PageAddress, Covers(s, memory, v)
  PROVE  paging_get(MapSegment(dir, s, memory), v) =
           [page |-> MappedTo(s, memory, v), flags |-> IF s.writeable THEN Flag ELSE ReadOnly]
<1> DEFINE first == FirstPage(s)
           from == FromPage(s, memory)
           end == SegmentEnd(memory, s)
           flags == IF s.writeable THEN Flag ELSE ReadOnly
<1>1. /\ first \in PageAddress /\ from \in PageAddress /\ end \in PageAddress
      /\ from <= end /\ first + (end - from) <= MemorySize
  BY DEF LiesAt
<1>2. first <= v /\ v < first + (end - from)
  BY DEF Covers, FirstPage, FromPage
<1>3. MapSegment(dir, s, memory) = paging_map_to(dir, first, from, end, flags)
  BY DEF MapSegment, FirstPage, FromPage
<1>4. flags \in SUBSET Flag
  BY DEF Flag, ReadOnly
<1>5. MappedTo(s, memory, v) = from + (v - first)
  BY DEF MappedTo
<1> HIDE DEF first, from, end, flags
<1>6. paging_get(paging_map_to(dir, first, from, end, flags), v) =
        IF first <= v /\ v - first < end - from
        THEN [page |-> from + (v - first), flags |-> flags] ELSE paging_get(dir, v)
  BY <1>1, <1>4, MapToRead
<1>7. v - first < end - from
  BY <1>1, <1>2, PageFacts
<1> QED
  BY <1>2, <1>3, <1>5, <1>6, <1>7 DEF flags

\* process_map_elf gives a page to the header that covers it.
LEMMA ElfRead ==
  ASSUME NEW name \in DOMAIN ProgramFiles, ProgramFiles[name].elf, NEW taken,
         NEW memory \in Fits(taken, ProgramFiles[name].size), NEW v \in PageAddress
  PROVE  MappedEntry(ProgramFiles[name], memory, v,
           paging_get(process_map_elf(paging_new_4gb(ReadOnly), ProgramFiles[name].segments,
                                      memory), v))
<1> DEFINE file == ProgramFiles[name]
           segments == file.segments
           dir == paging_new_4gb(ReadOnly)
           e == paging_get(process_map_elf(dir, segments, memory), v)
           di == directory_index(v)
           ti == table_index(v)
           Last(k) == /\ Covers(segments[k], memory, PageAt(di, ti))
                      /\ \A m \in DOMAIN segments :
                           m > k => ~Covers(segments[m], memory, PageAt(di, ti))
           last == CHOOSE k \in DOMAIN segments : Last(k)
<1>1. di \in Index /\ ti \in Index /\ PageAt(di, ti) = v /\ v % PageSize = 0
  BY PageHasEntry, PageFacts
<1>2. dir \in Directory /\ paging_get(dir, v) = [page |-> v, flags |-> ReadOnly]
  <2>1. ReadOnly \in SUBSET Flag
    BY DEF ReadOnly, Flag
  <2> QED
    BY <2>1, NewDirectory, NewRead
<1>3. e = IF \E k \in DOMAIN segments : Last(k)
          THEN paging_get(MapSegment(dir, segments[last], memory), v)
          ELSE paging_get(dir, v)
  BY <1>1 DEF process_map_elf, paging_get, validate_paging_alignment
<1>4. ASSUME NEW i \in DOMAIN segments, Covers(segments[i], memory, v)
      PROVE  /\ \A m \in DOMAIN segments \ {i} : ~Covers(segments[m], memory, v)
             /\ LiesAt(segments[i], memory, file.size)
  <2>1. memory \in Block
    BY DEF Fits
  <2> QED
    BY <1>4, <2>1, LayoutAssumption, SegmentLies
<1>5. ASSUME NEW i \in DOMAIN segments, Covers(segments[i], memory, v)
      PROVE  e = [page |-> MappedTo(segments[i], memory, v),
                  flags |-> IF segments[i].writeable THEN Flag ELSE ReadOnly]
  <2>1. \A k \in DOMAIN segments : Last(k) <=> k = i
    <3>1. \A m \in DOMAIN segments \ {i} : ~Covers(segments[m], memory, v)
      BY <1>4, <1>5
    <3>2. Last(i)
      <4> SUFFICES ASSUME NEW m \in DOMAIN segments, m > i, Covers(segments[m], memory, v)
                   PROVE  FALSE
        BY <1>1, <1>5
      <4>1. m = i
        BY <3>1
      <4>2. i \in Nat
        BY ProgramPagesAssumption
      <4> QED
        BY <4>1, <4>2
    <3> QED
      BY <1>1, <3>1, <3>2
  <2>2. last = i
    <3> HIDE DEF Last
    <3> QED
      BY <2>1
  <2> HIDE DEF last, Last
  <2>3. e = paging_get(MapSegment(dir, segments[i], memory), v)
    BY <1>3, <2>1, <2>2
  <2> HIDE DEF e, dir, segments
  <2> QED
    BY <1>2, <1>4, <1>5, <2>3, SegmentRead
<1>6. ASSUME \A i \in DOMAIN segments : ~Covers(segments[i], memory, v)
      PROVE  e = [page |-> v, flags |-> ReadOnly]
  BY <1>1, <1>2, <1>3, <1>6
<1> HIDE DEF e
<1>7. MappedEntry(file, memory, v, e)
  BY <1>5, <1>6 DEF MappedEntry
<1> QED
  BY <1>7 DEF e

\* Where the binary at memory ends, in pages.
LEMMA BinaryLies ==
  ASSUME NEW name \in DOMAIN ProgramFiles, ~ProgramFiles[name].elf, NEW taken,
         NEW memory \in Fits(taken, ProgramFiles[name].size)
  PROVE  LET size == ProgramFiles[name].size
             end == paging_align_address(memory + size)
         IN /\ size \in Nat /\ memory \in PageAddress /\ ProgramAddress \in PageAddress
            /\ end \in PageAddress
            /\ memory + size <= end /\ end < memory + size + PageSize
            /\ ProgramAddress + (end - memory) <= MemorySize
            /\ StackTop <= ProgramAddress
<1> DEFINE size == ProgramFiles[name].size
           end == paging_align_address(memory + size)
<1>a. PageSize \in Nat \ {0} /\ MemorySize \in Nat \ {0}
  BY Products
<1>1. /\ size \in Nat /\ ProgramAddress \in PageAddress
      /\ ProgramAddress + size + PageSize <= MemorySize /\ StackTop <= ProgramAddress
  BY ProgramPagesAssumption, LayoutAssumption
<1>2. memory \in Fits(taken, size)
  OBVIOUS
<1> HIDE DEF size
<1>3. memory \in PageAddress
  BY <1>1, <1>2, FitsBelow
<1>4. memory + size + PageSize <= MemorySize
  <2>1. /\ paging_align_address(size) \in Nat /\ size + PageSize <= MemorySize
        /\ memory + paging_align_address(size) + PageSize <= MemorySize
    BY <1>1, <1>2, FitsBelow
  <2>2. size <= paging_align_address(size)
    BY <1>1, <2>1, UpperPage
  <2> QED
    BY <1>a, <1>1, <1>3, <2>1, <2>2, PageFacts
<1>5. memory \in Int /\ 0 <= memory /\ ProgramAddress \in Int
  BY <1>1, <1>3, PageFacts
<1>6. end \in PageAddress /\ memory + size <= end /\ end < memory + size + PageSize
  <2>1. memory + size \in Nat
    BY <1>1, <1>5
  <2> QED
    BY <1>4, <2>1, UpperPage
<1> HIDE DEF end
<1>7. ProgramAddress + (end - memory) <= MemorySize
  BY <1>a, <1>1, <1>5, <1>6, PageFacts
<1> QED
  BY <1>1, <1>3, <1>6, <1>7 DEF end, size

\* process_map_binary maps the file from the address of programs on.
LEMMA BinaryRead ==
  ASSUME NEW name \in DOMAIN ProgramFiles, ~ProgramFiles[name].elf, NEW taken,
         NEW memory \in Fits(taken, ProgramFiles[name].size), NEW v \in PageAddress
  PROVE  MappedEntry(ProgramFiles[name], memory, v,
           paging_get(process_map_binary(paging_new_4gb(ReadOnly), ProgramFiles[name], memory), v))
<1> DEFINE file == ProgramFiles[name]
           dir == paging_new_4gb(ReadOnly)
           end == paging_align_address(memory + file.size)
           e == paging_get(process_map_binary(dir, file, memory), v)
<1>1. /\ ProgramAddress \in PageAddress /\ memory \in PageAddress /\ end \in PageAddress
      /\ file.size \in Nat /\ memory + file.size <= end
      /\ ProgramAddress + (end - memory) <= MemorySize
  BY BinaryLies
<1>2. dir \in Directory /\ paging_get(dir, v) = [page |-> v, flags |-> ReadOnly]
      /\ Flag \in SUBSET Flag
  <2>1. ReadOnly \in SUBSET Flag
    BY DEF ReadOnly, Flag
  <2> QED
    BY <2>1, NewDirectory, NewRead
<1>3. process_map_binary(dir, file, memory) = paging_map_to(dir, ProgramAddress, memory, end, Flag)
  BY DEF process_map_binary
<1> HIDE DEF dir, end
<1>4. memory <= end
  BY <1>1, PageFacts
<1>5. paging_get(paging_map_to(dir, ProgramAddress, memory, end, Flag), v) =
        IF ProgramAddress <= v /\ v - ProgramAddress < end - memory
        THEN [page |-> memory + (v - ProgramAddress), flags |-> Flag] ELSE paging_get(dir, v)
  BY <1>1, <1>2, <1>4, MapToRead
<1>6. e = IF ProgramAddress <= v /\ v - ProgramAddress < end - memory
          THEN [page |-> memory + (v - ProgramAddress), flags |-> Flag]
          ELSE [page |-> v, flags |-> ReadOnly]
  BY <1>2, <1>3, <1>5
<1> HIDE DEF e
<1>7. MappedEntry(file, memory, v, e)
  BY <1>6 DEF MappedEntry, end
<1> QED
  BY <1>7 DEF e, dir

\* The stack takes whole pages below StackTop.
LEMMA StackLies ==
  ASSUME NEW taken, NEW stack \in Fits(taken, StackSize)
  PROVE  /\ StackTop \in PageAddress /\ StackSize \in PageAddress /\ stack \in PageAddress
         /\ StackTop - StackSize \in PageAddress
         /\ paging_align_address(stack + StackSize) = stack + StackSize
         /\ stack + StackSize \in PageAddress
<1>a. PageSize \in Nat \ {0} /\ MemorySize \in Nat \ {0}
  BY Products
<1>1. StackTop \in PageAddress /\ StackSize \in PageAddress /\ StackSize <= StackTop
  BY ProgramPagesAssumption, LayoutAssumption
<1>2. /\ StackTop \in Int /\ StackSize \in Int /\ 0 <= StackSize /\ StackTop < MemorySize
      /\ StackTop % PageSize = 0 /\ StackSize % PageSize = 0
  BY <1>1, PageFacts
<1>3. StackTop - StackSize \in PageAddress
  <2>1. (StackTop - StackSize) % PageSize = 0
    BY <1>2, WholePages
  <2> QED
    BY <1>a, <1>1, <1>2, <2>1 DEF PageAddress, Address
<1>4. stack \in PageAddress /\ stack + StackSize + PageSize <= MemorySize
  <2>1. StackSize \in Nat /\ paging_align_address(StackSize) = StackSize
    BY <1>2 DEF paging_align_address
  <2> QED
    BY <2>1, FitsBelow
<1>5. stack \in Int /\ 0 <= stack /\ stack % PageSize = 0
  BY <1>4, PageFacts
<1>6. (stack + StackSize) % PageSize = 0
  BY <1>2, <1>5, WholePages
<1>7. stack + StackSize \in PageAddress
  BY <1>a, <1>2, <1>4, <1>5, <1>6 DEF PageAddress, Address
<1>8. paging_align_address(stack + StackSize) = stack + StackSize
  BY <1>6 DEF paging_align_address
<1> QED
  BY <1>1, <1>3, <1>4, <1>7, <1>8

\* What process_map_memory writes for a program, page by page.
LEMMA LoadedRead ==
  ASSUME NEW name \in DOMAIN ProgramFiles, NEW taken, NEW others,
         NEW memory \in Fits(taken, ProgramFiles[name].size),
         NEW stack \in Fits(others, StackSize), NEW v \in PageAddress
  PROVE  LoadedEntry(ProgramFiles[name], memory, stack, v,
           paging_get(process_map_memory(paging_new_4gb(ReadOnly), ProgramFiles[name],
                                         memory, stack), v))
<1> DEFINE file == ProgramFiles[name]
           dir == paging_new_4gb(ReadOnly)
           mapped == IF file.elf THEN process_map_elf(dir, file.segments, memory)
                     ELSE process_map_binary(dir, file, memory)
           bottom == StackTop - StackSize
           e == paging_get(process_map_memory(dir, file, memory, stack), v)
<1>1. MappedEntry(file, memory, v, paging_get(mapped, v))
  BY ElfRead, BinaryRead
<1>2. mapped \in Directory
  <2>1. dir \in Directory
    BY NewDirectory DEF ReadOnly, Flag
  <2>2. memory \in Int /\ stack \in Int
    <3>1. memory \in Block /\ stack \in Block
      BY DEF Fits
    <3> QED
      BY <3>1, Products, ProgramPagesAssumption DEF PageAddress, Address
  <2> QED
    BY <2>1, <2>2, MapFileType
<1>3. process_map_memory(dir, file, memory, stack) =
        paging_map_to(mapped, bottom, stack, stack + StackSize, Flag)
  BY StackLies DEF process_map_memory
<1>4. /\ bottom \in PageAddress /\ stack \in PageAddress /\ stack + StackSize \in PageAddress
      /\ StackSize \in PageAddress /\ StackTop \in PageAddress
  BY StackLies
<1>5. /\ stack <= stack + StackSize /\ bottom + ((stack + StackSize) - stack) <= MemorySize
      /\ (stack + StackSize) - stack = StackSize /\ bottom + StackSize = StackTop
  BY <1>4, PageFacts, Products
<1> HIDE DEF mapped, bottom, dir
<1>6. paging_get(paging_map_to(mapped, bottom, stack, stack + StackSize, Flag), v) =
        IF bottom <= v /\ v - bottom < (stack + StackSize) - stack
        THEN [page |-> stack + (v - bottom), flags |-> Flag] ELSE paging_get(mapped, v)
  <2>1. Flag \in SUBSET Flag
    OBVIOUS
  <2> DEFINE end == stack + StackSize
  <2>2. end \in PageAddress /\ stack <= end /\ bottom + (end - stack) <= MemorySize
    BY <1>4, <1>5
  <2> HIDE DEF end
  <2>3. paging_get(paging_map_to(mapped, bottom, stack, end, Flag), v) =
          IF bottom <= v /\ v - bottom < end - stack
          THEN [page |-> stack + (v - bottom), flags |-> Flag] ELSE paging_get(mapped, v)
    BY <1>2, <1>4, <2>1, <2>2, MapToRead
  <2> QED
    BY <2>3 DEF end
<1>7. v - bottom < StackSize <=> v < StackTop
  BY <1>4, <1>5, PageFacts
<1>8. e = IF bottom <= v /\ v < StackTop
          THEN [page |-> stack + (v - bottom), flags |-> Flag] ELSE paging_get(mapped, v)
  BY <1>3, <1>5, <1>6, <1>7
<1> HIDE DEF e
<1>9. LoadedEntry(file, memory, stack, v, e)
  BY <1>1, <1>8 DEF LoadedEntry, InStack, bottom
<1> QED
  BY <1>9 DEF e, dir

------------------------------------------------------------------------------
(* What a program may write *)

\* The pages a directory grants, read through paging_get.
LEMMA GrantsRead ==
  ASSUME NEW dir \in Directory, NEW a
  PROVE  a \in Grants(dir) <=>
           /\ a \in PageAddress
           /\ \E v \in PageAddress : paging_get(dir, v) = [page |-> a, flags |-> Flag]
<1>1. ASSUME NEW i \in Index, NEW j \in Index, dir[i][j] = [page |-> a, flags |-> Flag]
      PROVE  \E v \in PageAddress : paging_get(dir, v) = [page |-> a, flags |-> Flag]
  BY <1>1, EntryHasPage, EntryRead
<1>2. ASSUME NEW v \in PageAddress, paging_get(dir, v) = [page |-> a, flags |-> Flag]
      PROVE  \E i, j \in Index : dir[i][j] = [page |-> a, flags |-> Flag]
  BY <1>2, PageHasEntry, PageFacts DEF paging_get, validate_paging_alignment
<1> QED
  BY <1>1, <1>2 DEF Grants

\* A covered page of a segment is mapped to a page of the file that has bytes of the
\* segment.
LEMMA CoveredPage ==
  ASSUME NEW s, NEW memory \in PageAddress, NEW size \in Nat, LiesAt(s, memory, size),
         NEW v \in PageAddress, Covers(s, memory, v)
  PROVE  /\ MappedTo(s, memory, v) \in Run(memory, size)
         /\ MappedTo(s, memory, v) < memory + s.p_offset + s.p_memsz
         /\ MappedTo(s, memory, v) + PageSize > memory + s.p_offset
<1> DEFINE first == FirstPage(s)
           from == FromPage(s, memory)
           end == SegmentEnd(memory, s)
           a == MappedTo(s, memory, v)
           start == memory + s.p_offset
           stop == start + s.p_memsz
<1>a. PageSize \in Nat \ {0} /\ MemorySize \in Nat \ {0}
  BY Products
<1>1. /\ first \in PageAddress /\ from \in PageAddress /\ end \in PageAddress
      /\ memory \in Int /\ start \in Int /\ stop \in Int
      /\ stop <= end /\ end < stop + PageSize /\ start - from \in 0..(PageSize-1)
      /\ memory <= from /\ end < memory + size + PageSize
  BY PageFacts DEF LiesAt
<1>2. first <= v /\ v < first + (end - from)
  BY DEF Covers, FirstPage, FromPage
<1>3. a = from + (v - first)
  BY DEF MappedTo
<1> HIDE DEF first, from, end, a, start, stop
<1>4. /\ first \in Int /\ from \in Int /\ end \in Int /\ v \in Int
      /\ first % PageSize = 0 /\ from % PageSize = 0 /\ end % PageSize = 0 /\ v % PageSize = 0
      /\ 0 <= from /\ end < MemorySize
  BY <1>1, PageFacts
<1>5. a \in Int /\ a % PageSize = 0
  <2>1. v - first \in Int /\ (v - first) % PageSize = 0
    BY <1>4, WholePages
  <2> QED
    BY <1>3, <1>4, <2>1, WholePages
<1>6. from <= a /\ a < end
  BY <1>2, <1>3, <1>4
<1>7. a \in PageAddress
  BY <1>a, <1>4, <1>5, <1>6 DEF PageAddress, Address
<1>8. a + PageSize <= end
  <2>1. PageSize % PageSize = 0
    <3>1. 0 \in 0..(PageSize-1) /\ 1 \in Int /\ PageSize = PageSize * 1 + 0
      BY <1>a
    <3> QED
      BY <1>a, <3>1, Unique
  <2>2. a + PageSize \in Int /\ (a + PageSize) % PageSize = 0
    <3>1. PageSize \in Int
      BY <1>a
    <3>2. (a + PageSize) % PageSize = 0
      BY <1>5, <2>1, <3>1, WholePages
    <3> QED
      BY <1>5, <3>1, <3>2
  <2>3. a + PageSize < end + PageSize
    BY <1>a, <1>4, <1>5, <1>6
  <2> QED
    BY <1>4, <2>2, <2>3, PageOrder
<1>9. memory <= a /\ a < memory + size /\ a < stop /\ a + PageSize > start
  BY <1>a, <1>1, <1>4, <1>5, <1>6, <1>8
<1> QED
  BY <1>7, <1>9 DEF Run, a, start, stop

\* A page with bytes of a segment is mapped by the segment.
LEMMA PageCovered ==
  ASSUME NEW s, NEW memory \in PageAddress, NEW size \in Nat, LiesAt(s, memory, size),
         NEW b \in PageAddress, b < memory + s.p_offset + s.p_memsz,
         b + PageSize > memory + s.p_offset
  PROVE  \E v \in PageAddress : Covers(s, memory, v) /\ MappedTo(s, memory, v) = b
<1> DEFINE first == FirstPage(s)
           from == FromPage(s, memory)
           end == SegmentEnd(memory, s)
           start == memory + s.p_offset
           stop == start + s.p_memsz
           v == first + (b - from)
<1>a. PageSize \in Nat \ {0} /\ MemorySize \in Nat \ {0}
  BY Products
<1>1. /\ first \in PageAddress /\ from \in PageAddress /\ end \in PageAddress
      /\ start \in Int /\ stop \in Int /\ b < stop /\ b + PageSize > start
      /\ stop <= end /\ start - from \in 0..(PageSize-1)
      /\ first + (end - from) <= MemorySize
  BY PageFacts DEF LiesAt
<1> HIDE DEF first, from, end, start, stop
<1>2. /\ first \in Int /\ from \in Int /\ end \in Int /\ b \in Int
      /\ first % PageSize = 0 /\ from % PageSize = 0 /\ b % PageSize = 0 /\ 0 <= first
  BY <1>1, PageFacts
<1>3. from <= b
  <2>1. from < b + PageSize
    BY <1>a, <1>1, <1>2
  <2> QED
    BY <1>2, <2>1, PageOrder
<1>4. first <= v /\ v < first + (end - from) /\ from + (v - first) = b /\ v \in Int
  BY <1>1, <1>2, <1>3
<1>5. v % PageSize = 0
  <2>1. b - from \in Int /\ (b - from) % PageSize = 0
    BY <1>2, WholePages
  <2> QED
    BY <1>2, <2>1, WholePages
<1> HIDE DEF v
<1>6. v \in PageAddress
  BY <1>a, <1>1, <1>2, <1>4, <1>5 DEF PageAddress, Address
<1>7. Covers(s, memory, v) /\ MappedTo(s, memory, v) = b
  BY <1>4 DEF Covers, MappedTo, FirstPage, FromPage, first, from, end
<1> QED
  BY <1>6, <1>7

\* A page at a distance of whole pages.
LEMMA PageAtDistance ==
  ASSUME NEW a \in PageAddress, NEW b \in PageAddress, NEW c \in PageAddress, a <= b,
         c + (b - a) < MemorySize
  PROVE  c + (b - a) \in PageAddress
<1>1. /\ a \in Int /\ b \in Int /\ c \in Int /\ 0 <= c
      /\ a % PageSize = 0 /\ b % PageSize = 0 /\ c % PageSize = 0
  BY PageFacts
<1>2. b - a \in Int /\ (b - a) % PageSize = 0
  BY <1>1, WholePages
<1>3. (c + (b - a)) % PageSize = 0
  BY <1>1, <1>2, WholePages
<1> QED
  BY <1>1, <1>3, Products DEF PageAddress, Address

\* process_map_memory grants what the file asks to write, and the stack, and nothing
\* else.
LEMMA LoadedGrants ==
  ASSUME NEW name \in DOMAIN ProgramFiles, NEW taken, NEW others,
         NEW memory \in Fits(taken, ProgramFiles[name].size),
         NEW stack \in Fits(others, StackSize)
  PROVE  Grants(process_map_memory(paging_new_4gb(ReadOnly), ProgramFiles[name], memory, stack))
           = Writes(ProgramFiles[name], memory, stack)
<1> DEFINE file == ProgramFiles[name]
           dir == process_map_memory(paging_new_4gb(ReadOnly), file, memory, stack)
           bottom == StackTop - StackSize
           end == paging_align_address(memory + file.size)
<1>a. PageSize \in Nat \ {0} /\ MemorySize \in Nat \ {0}
  BY Products
<1>1. dir \in Directory
  <2>1. paging_new_4gb(ReadOnly) \in Directory
    BY NewDirectory DEF ReadOnly, Flag
  <2>2. memory \in Int /\ stack \in Int
    <3>1. memory \in Block /\ stack \in Block
      BY DEF Fits
    <3> QED
      BY <3>1, Products, ProgramPagesAssumption DEF PageAddress, Address
  <2> QED
    BY <2>1, <2>2, MapMemoryType
<1>2. \A v \in PageAddress : LoadedEntry(file, memory, stack, v, paging_get(dir, v))
  BY LoadedRead
<1>3. /\ bottom \in PageAddress /\ stack \in PageAddress /\ stack + StackSize \in PageAddress
      /\ StackSize \in PageAddress /\ StackTop \in PageAddress /\ bottom + StackSize = StackTop
      /\ stack + StackSize < MemorySize
  BY StackLies, PageFacts
<1>4. memory \in PageAddress /\ file.size \in Nat
  <2>1. file.size \in Nat
    BY ProgramPagesAssumption
  <2> QED
    BY <2>1, FitsBelow
<1>5. Flag # ReadOnly
  BY DEF Flag, ReadOnly
<1>6. file.elf => \A i \in DOMAIN file.segments : LiesAt(file.segments[i], memory, file.size)
  BY SegmentLies
<1>7. ~file.elf =>
        /\ ProgramAddress \in PageAddress /\ end \in PageAddress
        /\ memory + file.size <= end /\ end < memory + file.size + PageSize
        /\ ProgramAddress + (end - memory) <= MemorySize /\ StackTop <= ProgramAddress
  BY BinaryLies
<1> HIDE DEF dir, bottom, end, file
<1>8. ASSUME NEW a \in PageAddress, NEW v \in PageAddress,
             paging_get(dir, v) = [page |-> a, flags |-> Flag]
      PROVE  a \in Writes(file, memory, stack)
  <2>1. CASE InStack(v)
    <3>1. a = stack + (v - bottom)
      BY <1>2, <1>8, <2>1 DEF LoadedEntry, bottom
    <3>2. stack <= a /\ a < stack + StackSize
      BY <1>3, <2>1, <3>1, PageFacts DEF InStack, bottom
    <3> QED
      BY <3>2 DEF Writes, Run
  <2>2. CASE ~InStack(v) /\ file.elf
    <3>1. MappedEntry(file, memory, v, [page |-> a, flags |-> Flag])
      BY <1>2, <1>8, <2>2 DEF LoadedEntry
    <3>2. PICK i \in DOMAIN file.segments : Covers(file.segments[i], memory, v)
      BY <1>5, <2>2, <3>1 DEF MappedEntry
    <3> DEFINE s == file.segments[i]
    <3>3. [page |-> a, flags |-> Flag] =
            [page |-> MappedTo(s, memory, v), flags |-> IF s.writeable THEN Flag ELSE ReadOnly]
      BY <2>2, <3>1, <3>2 DEF MappedEntry
    <3>4. a = MappedTo(s, memory, v) /\ s.writeable
      BY <1>5, <3>3
    <3>5. /\ a \in Run(memory, file.size)
          /\ a < memory + s.p_offset + s.p_memsz /\ a + PageSize > memory + s.p_offset
      BY <1>4, <1>6, <2>2, <3>2, <3>4, CoveredPage
    <3> QED
      BY <3>4, <3>5 DEF Writes
  <2>3. CASE ~InStack(v) /\ ~file.elf
    <3>1. MappedEntry(file, memory, v, [page |-> a, flags |-> Flag])
      BY <1>2, <1>8, <2>3 DEF LoadedEntry
    <3>2. /\ a = memory + (v - ProgramAddress)
          /\ ProgramAddress <= v /\ v - ProgramAddress < end - memory
      BY <1>5, <2>3, <3>1 DEF MappedEntry, end
    <3>3. /\ memory \in Int /\ a \in Int /\ end \in Int
          /\ memory <= a /\ a < end /\ a % PageSize = 0 /\ end % PageSize = 0
      <4>1. /\ memory \in Int /\ a \in Int /\ end \in Int /\ v \in Int /\ ProgramAddress \in Int
            /\ a % PageSize = 0 /\ end % PageSize = 0
        BY <1>4, <1>7, <2>3, PageFacts
      <4> QED
        BY <3>2, <4>1
    <3>4. a < memory + file.size
      <4> SUFFICES ASSUME memory + file.size <= a PROVE FALSE
        BY <1>4, <3>3
      <4>1. end < a + PageSize
        BY <1>a, <1>4, <1>7, <2>3, <3>3
      <4>2. end <= a
        BY <3>3, <4>1, PageOrder
      <4> QED
        BY <3>3, <4>2
    <3> QED
      BY <2>3, <3>3, <3>4 DEF Writes, Run
  <2> QED
    BY <2>1, <2>2, <2>3
<1>9. ASSUME NEW b \in Writes(file, memory, stack)
      PROVE  /\ b \in PageAddress
             /\ \E v \in PageAddress : paging_get(dir, v) = [page |-> b, flags |-> Flag]
  <2>1. CASE b \in Run(stack, StackSize)
    <3> DEFINE v == bottom + (b - stack)
    <3>1. b \in PageAddress /\ stack <= b /\ b < stack + StackSize
      BY <2>1 DEF Run
    <3>2. /\ bottom <= v /\ v < StackTop /\ stack + (v - bottom) = b /\ v < MemorySize
      <4>1. /\ bottom \in Int /\ stack \in Int /\ StackSize \in Int /\ StackTop \in Int
            /\ b \in Int /\ StackTop < MemorySize
        BY <1>3, <3>1, PageFacts
      <4> QED
        BY <1>a, <1>3, <3>1, <4>1
    <3>3. v \in PageAddress
      BY <1>3, <3>1, <3>2, PageAtDistance
    <3> HIDE DEF v
    <3>4. paging_get(dir, v) = [page |-> b, flags |-> Flag]
      BY <1>2, <3>2, <3>3 DEF LoadedEntry, InStack, bottom
    <3> QED
      BY <3>1, <3>3, <3>4
  <2>2. CASE b \notin Run(stack, StackSize) /\ file.elf
    <3>1. PICK i \in DOMAIN file.segments :
            LET s == file.segments[i]
            IN s.writeable /\ b < memory + s.p_offset + s.p_memsz
                           /\ b + PageSize > memory + s.p_offset
      BY <2>2 DEF Writes
    <3>2. b \in PageAddress
      BY <2>2 DEF Writes, Run
    <3> DEFINE s == file.segments[i]
    <3>3. LiesAt(s, memory, file.size)
      BY <1>6, <2>2
    <3>4. /\ s.writeable /\ b < memory + s.p_offset + s.p_memsz
          /\ b + PageSize > memory + s.p_offset
      BY <3>1
    <3> HIDE DEF s
    <3>5. PICK v \in PageAddress : Covers(s, memory, v) /\ MappedTo(s, memory, v) = b
      BY <1>4, <3>2, <3>3, <3>4, PageCovered
    <3>6. ~InStack(v)
      <4>1. memory \in Block
        BY DEF Fits
      <4>2. StackTop <= v
        BY <2>2, <3>5, <4>1, LayoutAssumption DEF s, file
      <4> QED
        BY <1>3, <4>2, PageFacts DEF InStack
    <3>7. paging_get(dir, v) = [page |-> b, flags |-> Flag]
      <4>1. MappedEntry(file, memory, v, paging_get(dir, v))
        BY <1>2, <3>6 DEF LoadedEntry
      <4> QED
        BY <2>2, <3>4, <3>5, <4>1 DEF MappedEntry, s
    <3> QED
      BY <3>2, <3>7
  <2>3. CASE b \notin Run(stack, StackSize) /\ ~file.elf
    <3> DEFINE v == ProgramAddress + (b - memory)
    <3>1. b \in PageAddress /\ memory <= b /\ b < memory + file.size
      BY <2>3 DEF Writes, Run
    <3>2. /\ ProgramAddress <= v /\ v - ProgramAddress < end - memory
          /\ memory + (v - ProgramAddress) = b /\ v < MemorySize /\ StackTop <= v
      <4>1. /\ ProgramAddress \in Int /\ memory \in Int /\ end \in Int /\ StackTop \in Int
            /\ b \in Int
        BY <1>3, <1>4, <1>7, <2>3, <3>1, PageFacts
      <4> QED
        BY <1>a, <1>4, <1>7, <2>3, <3>1, <4>1
    <3>3. v \in PageAddress
      BY <1>4, <1>7, <2>3, <3>1, <3>2, PageAtDistance
    <3> HIDE DEF v
    <3>4. ~InStack(v)
      BY <1>3, <3>2, <3>3, PageFacts DEF InStack
    <3>5. paging_get(dir, v) = [page |-> b, flags |-> Flag]
      BY <1>2, <2>3, <3>2, <3>3, <3>4 DEF LoadedEntry, MappedEntry, end
    <3> QED
      BY <3>1, <3>3, <3>5
  <2> QED
    BY <2>1, <2>2, <2>3
<1>10. Grants(dir) = Writes(file, memory, stack)
  <2>1. \A a \in Grants(dir) : a \in Writes(file, memory, stack)
    BY <1>1, <1>8, GrantsRead
  <2>2. \A b \in Writes(file, memory, stack) : b \in Grants(dir)
    BY <1>1, <1>9, GrantsRead
  <2> QED
    BY <2>1, <2>2
<1> QED
  BY <1>10 DEF dir, file

------------------------------------------------------------------------------
(* What a program reads *)

\* paging_get_physical_address follows the entry of the address's page.
LEMMA PhysicalAddress ==
  ASSUME NEW dir, NEW virt, NEW v, v = paging_align_to_lower_page(virt),
         NEW a, NEW flags, paging_get(dir, v) = [page |-> a, flags |-> flags]
  PROVE  paging_get_physical_address(dir, virt) = a + (virt - v)
BY DEF paging_get_physical_address

\* A byte of a segment is in a page the segment covers, as far into it as the byte of
\* the file it is mapped to.
LEMMA SegmentByte ==
  ASSUME NEW s, NEW memory \in PageAddress, NEW size \in Nat, LiesAt(s, memory, size),
         NEW k \in 0..(s.p_memsz-1), NEW v, v = paging_align_to_lower_page(s.p_vaddr + k)
  PROVE  /\ v \in PageAddress /\ Covers(s, memory, v)
         /\ MappedTo(s, memory, v) + ((s.p_vaddr + k) - v) = memory + s.p_offset + k
<1> DEFINE first == FirstPage(s)
           from == FromPage(s, memory)
           end == SegmentEnd(memory, s)
           vaddr == s.p_vaddr
           offset == s.p_offset
           memsz == s.p_memsz
<1>a. PageSize \in Nat \ {0} /\ MemorySize \in Nat \ {0}
  BY Products
<1>1. /\ vaddr \in Nat /\ offset \in Nat /\ memsz \in Nat
      /\ first \in PageAddress /\ from \in PageAddress /\ end \in PageAddress
      /\ vaddr - first \in 0..(PageSize-1) /\ (memory + offset) - from = vaddr - first
      /\ memory + offset + memsz <= end /\ first + (end - from) <= MemorySize
  BY DEF LiesAt
<1>2. k \in 0..(memsz-1) /\ v = paging_align_to_lower_page(vaddr + k)
  OBVIOUS
<1>3. MappedTo(s, memory, v) = from + (v - first)
  BY DEF MappedTo
<1> HIDE DEF first, from, end, vaddr, offset, memsz
<1>4. /\ first \in Int /\ from \in Int /\ end \in Int /\ memory \in Int /\ first % PageSize = 0
  BY <1>1, PageFacts
<1>5. vaddr + k \in Address
  BY <1>a, <1>1, <1>2, <1>4 DEF Address
<1>6. v \in PageAddress /\ v <= vaddr + k /\ vaddr + k < v + PageSize
  BY <1>2, <1>5, LowerPage
<1>7. v \in Int /\ v % PageSize = 0
  BY <1>6, PageFacts
<1>8. first <= v
  <2>1. first < v + PageSize
    BY <1>a, <1>1, <1>2, <1>4, <1>6, <1>7
  <2> QED
    BY <1>4, <1>7, <2>1, PageOrder
<1>9. v < first + (end - from)
  BY <1>1, <1>2, <1>4, <1>6, <1>7
<1>10. from + (v - first) + ((vaddr + k) - v) = memory + offset + k
  <2>1. /\ vaddr \in Int /\ offset \in Int /\ k \in Int
        /\ (memory + offset) - from = vaddr - first
    BY <1>1, <1>2
  <2> QED
    BY <1>4, <1>7, <2>1
<1>11. Covers(s, memory, v)
  BY <1>8, <1>9 DEF Covers, first, from, end, FirstPage, FromPage
<1> QED
  BY <1>3, <1>6, <1>10, <1>11 DEF vaddr, offset

\* A byte of a range that starts with a page is in a page of the range.
LEMMA ByteOfRange ==
  ASSUME NEW start \in PageAddress, NEW virt \in Address, start <= virt,
         NEW v, v = paging_align_to_lower_page(virt)
  PROVE  v \in PageAddress /\ v \in Int /\ start <= v /\ v <= virt
<1>1. v \in PageAddress /\ v <= virt /\ virt < v + PageSize
  BY LowerPage
<1>2. start \in Int /\ v \in Int /\ start % PageSize = 0 /\ v % PageSize = 0
  BY <1>1, PageFacts
<1>3. start < v + PageSize
  BY <1>1, <1>2, Products DEF Address
<1> QED
  BY <1>1, <1>2, <1>3, PageOrder

\* Outside the heap a directory reads as process_map_memory left it.
ReadsImage(dir, file, memory, stack) ==
  \A v \in PageAddress \ Block : LoadedEntry(file, memory, stack, v, paging_get(dir, v))

ReachesThrough(dir, virt, phys) ==
  /\ "present" \in paging_get(dir, paging_align_to_lower_page(virt)).flags
  /\ paging_get_physical_address(dir, virt) = phys

\* The bytes of the segments of an ELF file.
LEMMA ElfBytes ==
  ASSUME NEW name \in DOMAIN ProgramFiles, ProgramFiles[name].elf, NEW taken,
         NEW memory \in Fits(taken, ProgramFiles[name].size), NEW stack, NEW dir,
         ReadsImage(dir, ProgramFiles[name], memory, stack),
         NEW i \in DOMAIN ProgramFiles[name].segments,
         NEW k \in 0..(ProgramFiles[name].segments[i].p_memsz-1)
  PROVE  LET s == ProgramFiles[name].segments[i]
         IN ReachesThrough(dir, s.p_vaddr + k, memory + s.p_offset + k)
<1> DEFINE file == ProgramFiles[name]
           size == file.size
           s == file.segments[i]
           virt == s.p_vaddr + k
           v == paging_align_to_lower_page(virt)
           flags == IF s.writeable THEN Flag ELSE ReadOnly
<1>1. size \in Nat /\ memory \in PageAddress /\ memory \in Block
  <2>1. file.size \in Nat
    BY ProgramPagesAssumption
  <2> QED
    BY <2>1, FitsBelow
<1>2. LiesAt(s, memory, size) /\ k \in 0..(s.p_memsz-1)
  BY SegmentLies
<1>3. ASSUME NEW u \in PageAddress, Covers(s, memory, u)
      PROVE  /\ StackTop <= u /\ u \notin Block
             /\ MappedEntry(file, memory, u, paging_get(dir, u)) =>
                  paging_get(dir, u) = [page |-> MappedTo(s, memory, u), flags |-> flags]
  BY <1>1, <1>3, LayoutAssumption DEF MappedEntry
<1>4. ReadsImage(dir, file, memory, stack)
  OBVIOUS
<1>5. v = paging_align_to_lower_page(s.p_vaddr + k)
  OBVIOUS
<1> HIDE DEF v, s, size, file, flags
<1>6. /\ v \in PageAddress /\ Covers(s, memory, v)
      /\ MappedTo(s, memory, v) + ((s.p_vaddr + k) - v) = memory + s.p_offset + k
  BY <1>1, <1>2, <1>5, SegmentByte
<1>7. ~InStack(v)
  <2>1. StackTop \in Int /\ v \in Int
    BY <1>6, PageFacts, ProgramPagesAssumption
  <2> QED
    BY <1>3, <1>6, <2>1 DEF InStack
<1>8. paging_get(dir, v) = [page |-> MappedTo(s, memory, v), flags |-> flags]
  BY <1>3, <1>4, <1>6, <1>7 DEF ReadsImage, LoadedEntry
<1>9. "present" \in flags
  BY DEF Flag, ReadOnly, flags
<1>10. paging_get_physical_address(dir, virt) = MappedTo(s, memory, v) + (virt - v)
  <2> HIDE DEF virt
  <2> QED
    BY <1>8, PhysicalAddress DEF v
<1>11. ReachesThrough(dir, virt, memory + s.p_offset + k)
  BY <1>5, <1>6, <1>8, <1>9, <1>10 DEF ReachesThrough
<1> QED
  BY <1>11 DEF s, file

\* The bytes of a binary.
LEMMA BinaryBytes ==
  ASSUME NEW name \in DOMAIN ProgramFiles, ~ProgramFiles[name].elf, NEW taken,
         NEW memory \in Fits(taken, ProgramFiles[name].size), NEW stack, NEW dir,
         ReadsImage(dir, ProgramFiles[name], memory, stack),
         NEW k \in 0..(ProgramFiles[name].size-1)
  PROVE  ReachesThrough(dir, ProgramAddress + k, memory + k)
<1> DEFINE file == ProgramFiles[name]
           size == file.size
           end == paging_align_address(memory + size)
           virt == ProgramAddress + k
           v == paging_align_to_lower_page(virt)
<1>1. /\ size \in Nat /\ memory \in PageAddress /\ ProgramAddress \in PageAddress
      /\ end \in PageAddress /\ memory + size <= end
      /\ ProgramAddress + (end - memory) <= MemorySize /\ StackTop <= ProgramAddress
  BY BinaryLies
<1>2. Run(ProgramAddress, size) \cap Block = {} /\ k \in 0..(size-1)
  BY LayoutAssumption
<1>3. /\ ProgramAddress \in Int /\ 0 <= ProgramAddress /\ memory \in Int /\ end \in Int
      /\ StackTop \in Int
  BY <1>1, PageFacts, ProgramPagesAssumption
<1> HIDE DEF size, end
<1>4. virt \in Address /\ ProgramAddress <= virt
  BY <1>1, <1>2, <1>3, Products DEF Address
<1>5. v \in PageAddress /\ v \in Int /\ ProgramAddress <= v /\ v <= virt
  <2> HIDE DEF virt
  <2> QED
    BY <1>1, <1>4, ByteOfRange
<1> HIDE DEF v
<1>6. v - ProgramAddress < end - memory /\ v < ProgramAddress + size /\ ~InStack(v)
  BY <1>1, <1>2, <1>3, <1>5 DEF InStack
<1>7. v \notin Block
  BY <1>2, <1>5, <1>6 DEF Run
<1>8. paging_get(dir, v) = [page |-> memory + (v - ProgramAddress), flags |-> Flag]
  BY <1>5, <1>6, <1>7 DEF ReadsImage, LoadedEntry, MappedEntry, end, size
<1>9. paging_get_physical_address(dir, virt) = memory + (v - ProgramAddress) + (virt - v)
  <2> HIDE DEF virt
  <2> QED
    BY <1>8, PhysicalAddress DEF v
<1>10. memory + (v - ProgramAddress) + (virt - v) = memory + k
  BY <1>2, <1>3, <1>5, <1>1
<1>11. "present" \in Flag
  BY DEF Flag
<1> QED
  BY <1>8, <1>9, <1>10, <1>11 DEF ReachesThrough, v

\* The bytes of the stack.
LEMMA StackBytes ==
  ASSUME NEW others, NEW stack \in Fits(others, StackSize), NEW file, NEW memory, NEW dir,
         ReadsImage(dir, file, memory, stack), NEW k \in 1..StackSize
  PROVE  ReachesThrough(dir, StackTop - k, stack + StackSize - k)
<1> DEFINE bottom == StackTop - StackSize
           virt == StackTop - k
           v == paging_align_to_lower_page(virt)
<1>1. StackTop \in PageAddress /\ StackSize \in PageAddress /\ stack \in PageAddress
      /\ bottom \in PageAddress
  BY StackLies
<1>2. /\ StackTop \in Int /\ StackSize \in Int /\ stack \in Int /\ bottom \in Int
      /\ 0 <= bottom /\ StackTop < MemorySize
  BY <1>1, PageFacts
<1>3. virt \in Address /\ bottom <= virt /\ virt < StackTop
  BY <1>2, Products DEF Address
<1>4. v \in PageAddress /\ v \in Int /\ bottom <= v /\ v <= virt
  <2> HIDE DEF virt, bottom
  <2> QED
    BY <1>1, <1>3, ByteOfRange
<1> HIDE DEF v
<1>5. v < StackTop
  BY <1>2, <1>3, <1>4
<1>6. v \notin Block
  BY <1>2, <1>4, <1>5, LayoutAssumption
<1>7. paging_get(dir, v) = [page |-> stack + (v - bottom), flags |-> Flag]
  BY <1>4, <1>5, <1>6 DEF ReadsImage, LoadedEntry, InStack
<1>8. paging_get_physical_address(dir, virt) = stack + (v - bottom) + (virt - v)
  <2> HIDE DEF virt, bottom
  <2> QED
    BY <1>7, PhysicalAddress DEF v
<1>9. stack + (v - bottom) + (virt - v) = stack + StackSize - k
  BY <1>2, <1>4
<1>10. "present" \in Flag
  BY DEF Flag
<1> QED
  BY <1>7, <1>8, <1>9, <1>10 DEF ReachesThrough, v

------------------------------------------------------------------------------
(* Programs as long as they run *)

ProgramsOK ==
  program \in [Program -> [name : DOMAIN ProgramFiles \cup {NULL},
                           memory : Block \cup {0}, stack : Block \cup {0}]]

\* A program and its stack are where they were put, and its directory reads so.
Placed == \A p \in alive :
  /\ program[p].name \in DOMAIN ProgramFiles
  /\ program[p].memory \in Fits({}, ProgramFiles[program[p].name].size)
  /\ program[p].stack \in Fits({}, StackSize)
  /\ image[p] = Run(program[p].memory, ProgramFiles[program[p].name].size)
                \cup Run(program[p].stack, StackSize)
  /\ ReadsImage(directory[p], ProgramFiles[program[p].name], program[p].memory, program[p].stack)

\* The heap's pages lead to themselves, whether a program may write them or not.
HeapIsIdentity == \A p \in Program : \A b \in Block : paging_get(directory[p], b).page = b

ImageInv == ProgramsOK /\ Placed /\ HeapIsIdentity /\ DirectoryGrants

\* What a run may take of some blocks it may take of all.
LEMMA FitsAnyway ==
  ASSUME NEW taken, NEW size, NEW a \in Fits(taken, size)
  PROVE  a \in Fits({}, size)
BY DEF Fits

\* The entry of a page is determined.
LEMMA OneEntry ==
  ASSUME NEW file, NEW memory, NEW stack, NEW v, NEW d, NEW e,
         LoadedEntry(file, memory, stack, v, d), LoadedEntry(file, memory, stack, v, e)
  PROVE  d = e
<1>1. CASE InStack(v) \/ ~file.elf
  BY <1>1 DEF LoadedEntry, MappedEntry
<1>2. CASE ~InStack(v) /\ file.elf /\ \E i \in DOMAIN file.segments : Covers(file.segments[i], memory, v)
  <2>1. PICK i \in DOMAIN file.segments : Covers(file.segments[i], memory, v)
    BY <1>2
  <2> QED
    BY <1>2, <2>1 DEF LoadedEntry, MappedEntry
<1>3. CASE ~InStack(v) /\ file.elf /\ \A i \in DOMAIN file.segments : ~Covers(file.segments[i], memory, v)
  BY <1>3 DEF LoadedEntry, MappedEntry
<1> QED
  BY <1>1, <1>2, <1>3

\* A new program's directory leaves the heap to itself.
LEMMA LoadedHeap ==
  ASSUME NEW name \in DOMAIN ProgramFiles, NEW taken,
         NEW memory \in Fits(taken, ProgramFiles[name].size), NEW stack,
         NEW b \in Block, NEW e, LoadedEntry(ProgramFiles[name], memory, stack, b, e)
  PROVE  e.page = b
<1> DEFINE file == ProgramFiles[name]
           end == paging_align_address(memory + file.size)
<1>a. PageSize \in Nat \ {0}
  BY Products
<1>1. b \in PageAddress /\ b \in Int /\ b % PageSize = 0 /\ StackTop \in Int /\ StackTop <= b
  BY PageFacts, ProgramPagesAssumption, LayoutAssumption
<1>2. MappedEntry(file, memory, b, e)
  BY <1>1 DEF LoadedEntry, InStack
<1>3. CASE file.elf
  <2>1. memory \in Block
    BY DEF Fits
  <2>2. \A i \in DOMAIN file.segments : ~Covers(file.segments[i], memory, b)
    BY <1>1, <1>3, <2>1, LayoutAssumption
  <2> QED
    BY <1>2, <1>3, <2>2 DEF MappedEntry
<1>4. CASE ~file.elf
  <2>1. /\ file.size \in Nat /\ memory \in PageAddress /\ ProgramAddress \in PageAddress
        /\ end \in PageAddress /\ end < memory + file.size + PageSize
    BY <1>4, BinaryLies
  <2>2. Run(ProgramAddress, file.size) \cap Block = {}
    BY <1>4, LayoutAssumption
  <2> HIDE DEF file, end
  <2>3. /\ memory \in Int /\ ProgramAddress \in Int /\ end \in Int
        /\ memory % PageSize = 0 /\ ProgramAddress % PageSize = 0 /\ end % PageSize = 0
    BY <2>1, PageFacts
  <2>4. ~(ProgramAddress <= b /\ b - ProgramAddress < end - memory)
    <3> SUFFICES ASSUME ProgramAddress <= b, b - ProgramAddress < end - memory PROVE FALSE
      OBVIOUS
    <3>1. ~(b < ProgramAddress + file.size)
      BY <1>1, <2>2 DEF Run
    <3> DEFINE x == end - memory
               y == b - ProgramAddress
    <3>2. /\ x \in Int /\ x % PageSize = 0 /\ y \in Int /\ y % PageSize = 0
      BY <1>1, <2>3, WholePages
    <3>3. x < y + PageSize /\ y < x
      BY <1>a, <1>1, <2>1, <2>3, <3>1
    <3> HIDE DEF x, y
    <3>4. x <= y
      BY <3>2, <3>3, PageOrder
    <3> QED
      BY <3>2, <3>3, <3>4
  <2>5. e = [page |-> b, flags |-> ReadOnly]
    BY <1>2, <1>4, <2>4 DEF MappedEntry, end
  <2> QED
    BY <2>5
<1> QED
  BY <1>3, <1>4

\* Directory d reads as c, except that page b leads to itself with these flags.
Resets(c, b, flags, d) ==
  \A v \in PageAddress :
    paging_get(d, v) = IF v = b THEN [page |-> b, flags |-> flags] ELSE paging_get(c, v)

\* Setting the entry of a page that leads to itself adds the page to what a directory
\* grants, or takes it away if no other page leads there.
LEMMA GrantsAfterSet ==
  ASSUME NEW c \in Directory, NEW d \in Directory, NEW b \in PageAddress, NEW flags,
         paging_get(c, b).page = b,
         Resets(c, b, flags, d)
  PROVE  /\ flags = Flag => Grants(d) = Grants(c) \cup {b}
         /\ flags # Flag /\ (\A v \in PageAddress \ {b} :
                               paging_get(c, v) # [page |-> b, flags |-> Flag])
              => Grants(d) = Grants(c) \ {b}
<1> DEFINE GrantsAt(e, a, v) == paging_get(e, v) = [page |-> a, flags |-> Flag]
<1>1. \A a : a \in Grants(c) <=> a \in PageAddress /\ \E v \in PageAddress : GrantsAt(c, a, v)
  BY GrantsRead
<1>2. \A a : a \in Grants(d) <=> a \in PageAddress /\ \E v \in PageAddress : GrantsAt(d, a, v)
  BY GrantsRead
<1>3. \A v \in PageAddress \ {b} : \A a : GrantsAt(d, a, v) <=> GrantsAt(c, a, v)
  BY DEF Resets
<1>4. \A a : GrantsAt(d, a, b) <=> a = b /\ flags = Flag
  BY DEF Resets
<1>5. \A a : GrantsAt(c, a, b) => a = b
  OBVIOUS
<1> HIDE DEF GrantsAt
<1>6. CASE flags = Flag
  <2>1. \A a : a \in Grants(d) <=> a \in Grants(c) \/ a = b
    BY <1>1, <1>2, <1>3, <1>4, <1>5, <1>6
  <2> QED
    BY <1>6, <2>1
<1>7. ASSUME flags # Flag, \A v \in PageAddress \ {b} : ~GrantsAt(c, b, v)
      PROVE  Grants(d) = Grants(c) \ {b}
  <2>1. \A a : a \in Grants(d) <=> a \in Grants(c) /\ a # b
    BY <1>1, <1>2, <1>3, <1>4, <1>5, <1>7
  <2> QED
    BY <2>1
<1> QED
  BY <1>6, <1>7 DEF GrantsAt

\* Steps that touch no directory and no image.
LEMMA SameImages ==
  ASSUME ImageInv, UNCHANGED <<alive, image, program, directory, writable>>
  PROVE  ImageInv'
BY DEF ImageInv, ProgramsOK, Placed, HeapIsIdentity, DirectoryGrants

\* One entry of the heap changes in one directory, and what it grants with it.
LEMMA OneDirectory ==
  ASSUME PagesInv, ImageInv, UNCHANGED <<alive, image, program>>,
         NEW p \in Program, NEW c \in Block, NEW d, NEW flags,
         Resets(directory[p], c, flags, d),
         directory' = [directory EXCEPT ![p] = d],
         writable' = [writable EXCEPT ![p] = Grants(d)]
  PROVE  ImageInv'
<1>1. Block \subseteq PageAddress
  BY ProgramPagesAssumption
<1>a. \A v \in PageAddress :
        paging_get(d, v) = IF v = c THEN [page |-> c, flags |-> flags]
                           ELSE paging_get(directory[p], v)
  BY DEF Resets
<1>2. directory'[p] = d /\ \A q \in Program \ {p} : directory'[q] = directory[q]
  BY DEF PagesInv, DirectoriesOK
<1>3. writable'[p] = Grants(d) /\ \A q \in Program \ {p} : writable'[q] = writable[q]
  BY DEF PagesInv, IInv, TypeOK
<1>4. ProgramsOK'
  BY DEF ImageInv, ProgramsOK
<1>5. alive \subseteq Program
  BY DEF PagesInv, IInv, TypeOK
<1>6. \A q \in Program : \A v \in PageAddress \ {c} :
        paging_get(directory'[q], v) = paging_get(directory[q], v)
  BY <1>2, <1>a
<1>7. ASSUME NEW q \in alive
      PROVE  ReadsImage(directory'[q], ProgramFiles[program[q].name],
                        program[q].memory, program[q].stack)
  BY <1>5, <1>6, <1>7 DEF ImageInv, Placed, ReadsImage
<1>8. Placed'
  BY <1>7 DEF ImageInv, Placed
<1>9. HeapIsIdentity'
  <2> SUFFICES ASSUME NEW q \in Program, NEW b \in Block
               PROVE  paging_get(directory'[q], b).page = b
    BY DEF HeapIsIdentity
  <2>1. CASE q = p /\ b = c
    <3>1. paging_get(directory'[q], b) = [page |-> c, flags |-> flags]
      BY <1>1, <1>2, <1>a, <2>1
    <3> QED
      BY <2>1, <3>1
  <2>2. CASE b # c
    BY <1>1, <1>6, <2>2 DEF ImageInv, HeapIsIdentity
  <2>3. CASE q # p
    BY <1>2, <2>3 DEF ImageInv, HeapIsIdentity
  <2> QED
    BY <2>1, <2>2, <2>3
<1>10. DirectoryGrants'
  BY <1>2, <1>3 DEF ImageInv, DirectoryGrants
<1> QED
  BY <1>4, <1>8, <1>9, <1>10 DEF ImageInv

\* process_malloc
LEMMA MallocImages ==
  ASSUME PagesInv, ImageInv, NEW p \in Program, Malloc(p)
  PROVE  ImageInv'
<1> PICK c \in FirstFit(used, AllocationSize) :
      /\ process_malloc(p, c)
      /\ directory' = [directory EXCEPT ![p] = MapAllocation(@, c, Flag)]
  BY DEF Malloc
<1> DEFINE d == MapAllocation(directory[p], c, Flag)
<1>1. c \in Block /\ c \in PageAddress
  BY ProgramPagesAssumption DEF FirstFit, Fits
<1>2. /\ UNCHANGED <<alive, image, program>>
      /\ writable' = [writable EXCEPT ![p] = writable[p] \cup {c}]
  BY DEF process_malloc, Malloc, PagesInv, IInv, TypeOK
<1>3. directory[p] \in Directory /\ directory' = [directory EXCEPT ![p] = d]
  BY DEF PagesInv, DirectoriesOK
<1>4. d \in Directory /\ Resets(directory[p], c, Flag, d)
  BY <1>1, <1>3, MapAllocationRead DEF Resets
<1>5. paging_get(directory[p], c).page = c /\ Grants(directory[p]) = writable[p]
  BY <1>1 DEF ImageInv, HeapIsIdentity, DirectoryGrants
<1> HIDE DEF d
<1>6. Grants(d) = Grants(directory[p]) \cup {c}
  BY <1>1, <1>3, <1>4, <1>5, GrantsAfterSet
<1>7. writable' = [writable EXCEPT ![p] = Grants(d)]
  BY <1>2, <1>5, <1>6
<1> QED
  BY <1>1, <1>2, <1>3, <1>4, <1>7, OneDirectory

\* No page outside the heap leads a program to a block it got from process_malloc.
LEMMA OnlyItsOwnPage ==
  ASSUME PagesInv, ImageInv, NEW p \in Program, p \in alive, NEW c \in Block, IsAllocation(p, c),
         NEW v \in PageAddress \ {c}
  PROVE  paging_get(directory[p], v) # [page |-> c, flags |-> Flag]
<1> SUFFICES ASSUME paging_get(directory[p], v) = [page |-> c, flags |-> Flag] PROVE FALSE
  OBVIOUS
<1> DEFINE name == program[p].name
           memory == program[p].memory
           stack == program[p].stack
           d == process_map_memory(paging_new_4gb(ReadOnly), ProgramFiles[name], memory, stack)
<1>1. CASE v \in Block
  BY <1>1 DEF ImageInv, HeapIsIdentity
<1>2. CASE v \notin Block
  <2>1. /\ name \in DOMAIN ProgramFiles
        /\ memory \in Fits({}, ProgramFiles[name].size) /\ stack \in Fits({}, StackSize)
        /\ image[p] = Run(memory, ProgramFiles[name].size) \cup Run(stack, StackSize)
        /\ ReadsImage(directory[p], ProgramFiles[name], memory, stack)
    BY DEF ImageInv, Placed
  <2> HIDE DEF name, memory, stack
  <2>2. LoadedEntry(ProgramFiles[name], memory, stack, v, paging_get(directory[p], v))
    BY <1>2, <2>1 DEF ReadsImage
  <2>3. LoadedEntry(ProgramFiles[name], memory, stack, v, paging_get(d, v))
    BY <2>1, LoadedRead
  <2>4. paging_get(d, v) = [page |-> c, flags |-> Flag]
    BY <2>2, <2>3, OneEntry
  <2>5. d \in Directory
    <3>1. memory \in Block /\ stack \in Block
      BY <2>1 DEF Fits
    <3>2. memory \in Int /\ stack \in Int
      BY <3>1, ProgramPagesAssumption, PageFacts
    <3>3. paging_new_4gb(ReadOnly) \in Directory
      BY NewDirectory DEF ReadOnly, Flag
    <3> QED
      BY <2>1, <3>2, <3>3, MapMemoryType
  <2>6. c \in Grants(d)
    <3>1. c \in PageAddress
      BY ProgramPagesAssumption
    <3> HIDE DEF d
    <3> QED
      BY <2>4, <2>5, <3>1, GrantsRead
  <2>7. c \in Writes(ProgramFiles[name], memory, stack)
    BY <2>1, <2>6, LoadedGrants
  <2>8. c \in image[p]
    BY <2>1, <2>7 DEF Writes
  <2> QED
    BY <2>8, ProcessMemoryAssumption DEF PagesInv, IInv, TrackedIsOwn, IsAllocation
<1> QED
  BY <1>1, <1>2

\* process_free
LEMMA FreeImages ==
  ASSUME PagesInv, ImageInv, NEW p \in Program, Free(p)
  PROVE  ImageInv'
<1> PICK c \in Block \cup {NULL} :
      /\ process_free(p, c)
      /\ directory' = [directory EXCEPT ![p] = IF c # NULL /\ IsAllocation(p, c)
                                               THEN MapAllocation(@, c, {}) ELSE @]
  BY DEF Free
<1>1. UNCHANGED <<alive, image, program>> /\ p \in alive
  BY DEF process_free, Free
<1>2. CASE c # NULL /\ IsAllocation(p, c)
  <2> DEFINE d == MapAllocation(directory[p], c, {})
  <2>1. c \in Block /\ c \in PageAddress
    BY <1>2, ProgramPagesAssumption
  <2>2. writable' = [writable EXCEPT ![p] = writable[p] \ {c}]
    BY <1>2 DEF process_free, Unmapped, PagesInv, IInv, TypeOK
  <2>3. directory[p] \in Directory /\ directory' = [directory EXCEPT ![p] = d]
    BY <1>2 DEF PagesInv, DirectoriesOK
  <2>4. d \in Directory /\ Resets(directory[p], c, {}, d)
    <3>1. directory[p] \in Directory /\ {} \in SUBSET Flag
      BY <2>3
    <3> QED
      BY <2>1, <3>1, MapAllocationRead DEF Resets
  <2>5. paging_get(directory[p], c).page = c /\ Grants(directory[p]) = writable[p]
    BY <2>1 DEF ImageInv, HeapIsIdentity, DirectoryGrants
  <2>6. \A v \in PageAddress \ {c} : paging_get(directory[p], v) # [page |-> c, flags |-> Flag]
    BY <1>1, <1>2, <2>1, OnlyItsOwnPage
  <2> HIDE DEF d
  <2>7. {} # Flag
    BY DEF Flag
  <2>8. Grants(d) = Grants(directory[p]) \ {c}
    BY <2>1, <2>3, <2>4, <2>5, <2>6, <2>7, GrantsAfterSet
  <2>9. writable' = [writable EXCEPT ![p] = Grants(d)]
    BY <2>2, <2>5, <2>8
  <2> QED
    BY <1>1, <2>1, <2>3, <2>4, <2>9, OneDirectory
<1>3. CASE ~(c # NULL /\ IsAllocation(p, c))
  BY <1>1, <1>3, SameImages DEF process_free, PagesInv, DirectoriesOK
<1> QED
  BY <1>2, <1>3

\* copy_string_from_task puts back the entry it changed.
LEMMA CopyStringImages ==
  ASSUME PagesInv, ImageInv, NEW p \in Program, CopyString(p)
  PROVE  ImageInv'
<1> PICK tmp \in FirstFit(used, AllocationSize) :
      /\ copy_string_from_task(p, tmp)
      /\ directory' = [directory EXCEPT ![p] = CopiedThrough(@, tmp)]
  BY DEF CopyString
<1>1. tmp \in PageAddress /\ directory[p] \in Directory
  BY ProgramPagesAssumption DEF FirstFit, Fits, PagesInv, DirectoriesOK
<1>2. CopiedThrough(directory[p], tmp) = directory[p]
  BY <1>1, MapAndRestore DEF CopiedThrough
<1>3. directory' = directory
  BY <1>2 DEF PagesInv, DirectoriesOK
<1> QED
  BY <1>3, SameImages DEF copy_string_from_task, CopyString

\* The directory of a process that does not run grants nothing.
LEMMA NothingGranted ==
  /\ NoDirectory \in Directory
  /\ \A v \in PageAddress : paging_get(NoDirectory, v) = [page |-> v, flags |-> {}]
  /\ Grants(NoDirectory) = {}
<1>1. NoDirectory \in Directory
  BY NewDirectory DEF NoDirectory
<1>2. \A v \in PageAddress : paging_get(NoDirectory, v) = [page |-> v, flags |-> {}]
  BY NewRead DEF NoDirectory
<1>3. {} # Flag
  BY DEF Flag
<1>4. \A a : a \notin Grants(NoDirectory)
  BY <1>1, <1>2, <1>3, GrantsRead
<1> QED
  BY <1>1, <1>2, <1>4

\* Images and directories after one process changes all of its own.
LEMMA OneImage ==
  ASSUME PagesInv, ImageInv, NEW p \in Program, NEW d, NEW blocks, NEW here,
         directory' = [directory EXCEPT ![p] = d],
         writable' = [writable EXCEPT ![p] = Grants(d)],
         image' = [image EXCEPT ![p] = blocks],
         program' = [program EXCEPT ![p] = here],
         here \in [name : DOMAIN ProgramFiles \cup {NULL},
                   memory : Block \cup {0}, stack : Block \cup {0}],
         \A b \in Block : paging_get(d, b).page = b,
         alive' \ {p} \subseteq alive,
         p \in alive' =>
           /\ here.name \in DOMAIN ProgramFiles
           /\ here.memory \in Fits({}, ProgramFiles[here.name].size)
           /\ here.stack \in Fits({}, StackSize)
           /\ blocks = Run(here.memory, ProgramFiles[here.name].size) \cup Run(here.stack, StackSize)
           /\ ReadsImage(d, ProgramFiles[here.name], here.memory, here.stack)
  PROVE  ImageInv'
<1>1. directory'[p] = d /\ \A q \in Program \ {p} : directory'[q] = directory[q]
  BY DEF PagesInv, DirectoriesOK
<1>2. /\ writable'[p] = Grants(d) /\ image'[p] = blocks
      /\ \A q \in Program \ {p} : writable'[q] = writable[q] /\ image'[q] = image[q]
  BY DEF PagesInv, IInv, TypeOK
<1>3. program'[p] = here /\ \A q \in Program \ {p} : program'[q] = program[q]
  BY DEF ImageInv, ProgramsOK
<1>4. ProgramsOK'
  BY DEF ImageInv, ProgramsOK
<1>5. Placed'
  <2> SUFFICES ASSUME NEW q \in alive'
               PROVE  /\ program'[q].name \in DOMAIN ProgramFiles
                      /\ program'[q].memory \in Fits({}, ProgramFiles[program'[q].name].size)
                      /\ program'[q].stack \in Fits({}, StackSize)
                      /\ image'[q] = Run(program'[q].memory, ProgramFiles[program'[q].name].size)
                                     \cup Run(program'[q].stack, StackSize)
                      /\ ReadsImage(directory'[q], ProgramFiles[program'[q].name],
                                    program'[q].memory, program'[q].stack)
    BY DEF Placed
  <2>1. CASE q = p
    BY <1>1, <1>2, <1>3, <2>1
  <2>2. CASE q # p
    <3>1. q \in alive /\ q \in Program \ {p}
      BY <2>2 DEF PagesInv, IInv, TypeOK
    <3> QED
      BY <1>1, <1>2, <1>3, <3>1 DEF ImageInv, Placed
  <2> QED
    BY <2>1, <2>2
<1>6. HeapIsIdentity'
  BY <1>1 DEF ImageInv, HeapIsIdentity
<1>7. DirectoryGrants'
  BY <1>1, <1>2 DEF ImageInv, DirectoryGrants
<1> QED
  BY <1>4, <1>5, <1>6, <1>7 DEF ImageInv

\* process_load_for_slot puts a program where its directory reads it.
LEMMA LoadImages ==
  ASSUME PagesInv, ImageInv, NEW p \in Program, LoadProgram(p)
  PROVE  ImageInv'
<1> DEFINE Loads(name, memory, stack) ==
             LET file == ProgramFiles[name]
             IN /\ Load(p, Run(memory, file.size) \cup Run(stack, StackSize),
                        Writes(file, memory, stack))
                /\ program' = [program EXCEPT ![p] =
                     [name |-> name, memory |-> memory, stack |-> stack]]
                /\ directory' = [directory EXCEPT ![p] =
                     process_map_memory(paging_new_4gb(ReadOnly), file, memory, stack)]
<1> PICK name, memory, stack :
      /\ name \in DOMAIN ProgramFiles
      /\ memory \in FirstFit(used, ProgramFiles[name].size)
      /\ stack \in FirstFit(used \cup Run(memory, ProgramFiles[name].size), StackSize)
      /\ Loads(name, memory, stack)
  BY DEF LoadProgram
<1> DEFINE file == ProgramFiles[name]
           taken == used \cup Run(memory, file.size)
           here == [name |-> name, memory |-> memory, stack |-> stack]
           blocks == Run(memory, file.size) \cup Run(stack, StackSize)
           d == process_map_memory(paging_new_4gb(ReadOnly), file, memory, stack)
<1>1. memory \in Fits(used, file.size) /\ stack \in Fits(taken, StackSize)
  BY DEF FirstFit
<1>2. /\ memory \in Fits({}, file.size) /\ stack \in Fits({}, StackSize)
      /\ memory \in Block /\ stack \in Block
  BY <1>1, FitsAnyway DEF Fits
<1>3. /\ alive' = alive \cup {p} /\ image' = [image EXCEPT ![p] = blocks]
      /\ writable' = [writable EXCEPT ![p] = Writes(file, memory, stack)]
      /\ program' = [program EXCEPT ![p] = here] /\ directory' = [directory EXCEPT ![p] = d]
  BY DEF Load
<1>4. Grants(d) = Writes(file, memory, stack)
  BY <1>1, LoadedGrants
<1>5. \A v \in PageAddress : LoadedEntry(file, memory, stack, v, paging_get(d, v))
  BY <1>1, LoadedRead
<1> HIDE DEF d, blocks
<1>6. ReadsImage(d, file, memory, stack)
  BY <1>5 DEF ReadsImage
<1>7. \A b \in Block : paging_get(d, b).page = b
  <2> SUFFICES ASSUME NEW b \in Block PROVE paging_get(d, b).page = b
    OBVIOUS
  <2>1. LoadedEntry(file, memory, stack, b, paging_get(d, b))
    BY <1>5, ProgramPagesAssumption
  <2> QED
    BY <1>1, <2>1, LoadedHeap
<1>8. /\ here \in [name : DOMAIN ProgramFiles \cup {NULL},
                   memory : Block \cup {0}, stack : Block \cup {0}]
      /\ here.name = name /\ here.memory = memory /\ here.stack = stack
  BY <1>2
<1>9. blocks = Run(here.memory, file.size) \cup Run(here.stack, StackSize)
  BY <1>8 DEF blocks
<1>10. alive' \ {p} \subseteq alive
  BY <1>3
<1>11. writable' = [writable EXCEPT ![p] = Grants(d)]
  BY <1>3, <1>4
<1>12. /\ here.name \in DOMAIN ProgramFiles
       /\ here.memory \in Fits({}, ProgramFiles[here.name].size)
       /\ here.stack \in Fits({}, StackSize)
       /\ blocks = Run(here.memory, ProgramFiles[here.name].size) \cup Run(here.stack, StackSize)
       /\ ReadsImage(d, ProgramFiles[here.name], here.memory, here.stack)
  BY <1>2, <1>6, <1>8, <1>9
<1>13. here \in [name : DOMAIN ProgramFiles \cup {NULL},
                 memory : Block \cup {0}, stack : Block \cup {0}]
  BY <1>8
<1> HIDE DEF here
<1>14. /\ image' = [image EXCEPT ![p] = blocks] /\ program' = [program EXCEPT ![p] = here]
       /\ directory' = [directory EXCEPT ![p] = d]
  BY <1>3 DEF here, blocks
<1> QED
  BY <1>7, <1>10, <1>11, <1>12, <1>13, <1>14, OneImage

\* process_terminate leaves nothing of a program.
LEMMA EndImages ==
  ASSUME PagesInv, ImageInv, NEW p \in Program, End(p)
  PROVE  ImageInv'
<1>1. /\ alive' = alive \ {p} /\ image' = [image EXCEPT ![p] = {}]
      /\ writable' = [writable EXCEPT ![p] = {}]
      /\ directory' = [directory EXCEPT ![p] = NoDirectory]
      /\ program' = [program EXCEPT ![p] = NoProgram]
  BY DEF End, process_terminate
<1>2. Grants(NoDirectory) = {} /\ \A b \in Block : paging_get(NoDirectory, b).page = b
  <2>1. Block \subseteq PageAddress
    BY ProgramPagesAssumption
  <2> QED
    BY <2>1, NothingGranted
<1>3. NoProgram \in [name : DOMAIN ProgramFiles \cup {NULL},
                     memory : Block \cup {0}, stack : Block \cup {0}]
  BY DEF NoProgram
<1>4. alive' \ {p} \subseteq alive /\ p \notin alive'
      /\ writable' = [writable EXCEPT ![p] = Grants(NoDirectory)]
  BY <1>1, <1>2
<1> QED
  BY <1>1, <1>2, <1>3, <1>4, OneImage

\* Programs lie where they were loaded, and their directories read and grant what the
\* files ask, as long as they run: whatever process_malloc, process_free and
\* copy_string_from_task map and unmap.
THEOREM ImageInvariant == PagesSpec => []ImageInv
<1>1. PagesInit => ImageInv
  <2> SUFFICES ASSUME PagesInit PROVE ImageInv
    OBVIOUS
  <2>1. /\ alive = {} /\ writable = [q \in Program |-> {}]
        /\ directory = [q \in Program |-> NoDirectory]
        /\ program = [q \in Program |-> NoProgram]
    BY DEF PagesInit, Init
  <2>2. ProgramsOK /\ Placed
    BY <2>1 DEF ProgramsOK, Placed, NoProgram
  <2>3. Block \subseteq PageAddress
    BY ProgramPagesAssumption
  <2>4. HeapIsIdentity
    BY <2>1, <2>3, NothingGranted DEF HeapIsIdentity
  <2>5. DirectoryGrants
    BY <2>1, NothingGranted DEF DirectoryGrants
  <2> QED
    BY <2>2, <2>4, <2>5 DEF ImageInv
<1>2. PagesInv /\ ImageInv /\ [PagesNext]_allvars => ImageInv'
  <2> SUFFICES ASSUME PagesInv, ImageInv, [PagesNext]_allvars PROVE ImageInv'
    OBVIOUS
  <2>1. CASE UNCHANGED allvars
    BY <2>1, SameImages DEF allvars, vars
  <2>2. CASE PagesNext
    <3> PICK p \in Program :
          LoadProgram(p) \/ Malloc(p) \/ MallocFails(p) \/ Free(p) \/ CopyString(p) \/ End(p)
      BY <2>2 DEF PagesNext
    <3>1. CASE LoadProgram(p)
      BY <3>1, LoadImages
    <3>2. CASE Malloc(p)
      BY <3>2, MallocImages
    <3>3. CASE MallocFails(p)
      BY <3>3, SameImages DEF MallocFails, process_malloc_fails, vars
    <3>4. CASE Free(p)
      BY <3>4, FreeImages
    <3>5. CASE CopyString(p)
      BY <3>5, CopyStringImages
    <3>6. CASE End(p)
      BY <3>6, EndImages
    <3> QED
      BY <3>1, <3>2, <3>3, <3>4, <3>5, <3>6
  <2> QED
    BY <2>1, <2>2
<1> QED
  BY <1>1, <1>2, PagesInvariant, PTL DEF PagesSpec

\* task.c:212 "map entire 4gb read only address space to itself": a program writes its
\* writable segments, its stack and what process_malloc gave it, and nothing else, after
\* any calls of process_malloc, process_free and copy_string_from_task.
THEOREM GrantsExactly == PagesSpec => []DirectoryGrants
<1>1. ImageInv => DirectoryGrants
  BY DEF ImageInv
<1> QED
  BY <1>1, ImageInvariant, PTL

\* process_map_elf and process_map_binary: as long as a program runs, each byte of its
\* segments and of its stack is the byte of the file, or of the stack, that belongs there.
THEOREM SegmentsStayMapped == PagesSpec => []SegmentsAreMapped
<1>1. ImageInv => SegmentsAreMapped
  <2> SUFFICES ASSUME ImageInv, NEW p \in alive
               PROVE  LET file == ProgramFiles[program[p].name]
                          memory == program[p].memory
                      IN /\ IF file.elf
                            THEN \A i \in DOMAIN file.segments :
                                   LET s == file.segments[i]
                                   IN \A k \in 0..(s.p_memsz-1) :
                                        Reaches(p, s.p_vaddr + k, memory + s.p_offset + k)
                            ELSE \A k \in 0..(file.size-1) :
                                   Reaches(p, ProgramAddress + k, memory + k)
                         /\ \A k \in 1..StackSize :
                              Reaches(p, StackTop - k, program[p].stack + StackSize - k)
    BY DEF SegmentsAreMapped
  <2> DEFINE name == program[p].name
             file == ProgramFiles[name]
             memory == program[p].memory
             stack == program[p].stack
  <2>1. /\ name \in DOMAIN ProgramFiles
        /\ memory \in Fits({}, file.size) /\ stack \in Fits({}, StackSize)
        /\ ReadsImage(directory[p], file, memory, stack)
    BY DEF ImageInv, Placed
  <2>2. \A virt, phys : ReachesThrough(directory[p], virt, phys) => Reaches(p, virt, phys)
    BY DEF ReachesThrough, Reaches
  <2>3. ASSUME file.elf, NEW i \in DOMAIN file.segments,
               NEW k \in 0..(file.segments[i].p_memsz-1)
        PROVE  Reaches(p, file.segments[i].p_vaddr + k, memory + file.segments[i].p_offset + k)
    <3> HIDE DEF name, memory, stack
    <3>1. ReachesThrough(directory[p], file.segments[i].p_vaddr + k,
                         memory + file.segments[i].p_offset + k)
      BY <2>1, <2>3, ElfBytes
    <3> QED
      BY <2>2, <3>1
  <2>4. ASSUME ~file.elf, NEW k \in 0..(file.size-1)
        PROVE  Reaches(p, ProgramAddress + k, memory + k)
    <3> HIDE DEF name, memory, stack
    <3>1. ReachesThrough(directory[p], ProgramAddress + k, memory + k)
      BY <2>1, <2>4, BinaryBytes
    <3> QED
      BY <2>2, <3>1
  <2>5. ASSUME NEW k \in 1..StackSize
        PROVE  Reaches(p, StackTop - k, stack + StackSize - k)
    <3> HIDE DEF file, memory, stack
    <3>1. ReachesThrough(directory[p], StackTop - k, stack + StackSize - k)
      BY <2>1, StackBytes
    <3> QED
      BY <2>2, <3>1
  <2> QED
    BY <2>3, <2>4, <2>5
<1> QED
  BY <1>1, ImageInvariant, PTL

==============================================================================
