---------------------------- MODULE ConsoleProofs ----------------------------
(***************************************************************************)
(* Proofs about the keyboard buffers of processes: the null byte ends what *)
(* was typed, and a key reaches the program that had the CPU when it was   *)
(* typed, in order and once.  The user does not type ahead of the buffer.  *)
(***************************************************************************)
EXTENDS Console, ProcessesProofs, SequenceTheorems

\* The buffer has room for what the user types ahead, and its counters tell an empty
\* buffer from a full one (1024 bytes, 32 bits).
RoomToType == TypeAhead <= BufferSize /\ TypeAhead < CounterLimit

------------------------------------------------------------------------------
(* Remainders *)

\* Quotient and remainder.
LEMMA Divides ==
  ASSUME NEW a \in Int, NEW d \in Nat \ {0}
  PROVE  a \div d \in Int /\ a % d \in 0..(d-1) /\ a = d * (a \div d) + (a % d)
OBVIOUS

\* The remainder is the only number below the divisor at a whole number of divisors.
LEMMA OneRemainder ==
  ASSUME NEW d \in Nat \ {0}, NEW q \in Int, NEW r \in 0..(d-1)
  PROVE  (d * q + r) % d = r
<1> DEFINE a == d * q + r
<1>1. a \in Int /\ d * q \in Int
  OBVIOUS
<1>2. /\ a \div d \in Int /\ a % d \in 0..(d-1)
      /\ a = d * (a \div d) + (a % d)
  BY <1>1, Divides
<1> DEFINE x == a \div d
           y == a % d
<1>3. x \in Int /\ y \in 0..(d-1) /\ d * q + r = d * x + y
  BY <1>2
<1> HIDE DEF a, x, y
<1>4. x = q
  <2>1. CASE x >= q + 1
    <3>1. d * x >= d * (q + 1)
      BY <1>3, <2>1
    <3>2. d * (q + 1) = d * q + d
      OBVIOUS
    <3> QED
      BY <1>1, <1>3, <3>1, <3>2
  <2>2. CASE q >= x + 1
    <3>1. d * q >= d * (x + 1)
      BY <1>3, <2>2
    <3>2. d * (x + 1) = d * x + d
      BY <1>3
    <3> QED
      BY <1>1, <1>3, <3>1, <3>2
  <2> QED
    BY <1>3, <2>1, <2>2
<1>5. y = r
  BY <1>1, <1>3, <1>4
<1> QED
  BY <1>5 DEF y, a

\* Whole divisors do not count.
LEMMA SkipsWhole ==
  ASSUME NEW d \in Nat \ {0}, NEW a \in Int, NEW q \in Int
  PROVE  (d * q + a) % d = a % d
<1> DEFINE x == a \div d
           r == a % d
<1>1. x \in Int /\ r \in 0..(d-1) /\ a = d * x + r
  BY Divides
<1> HIDE DEF x, r
<1>2. d * q + a = d * (q + x) + r
  <2>1. d * (q + x) = d * q + d * x
    BY <1>1
  <2> QED
    BY <1>1, <2>1
<1>3. (d * (q + x) + r) % d = r
  BY <1>1, OneRemainder
<1> QED
  BY <1>2, <1>3 DEF r

\* A remainder can be taken early.
LEMMA EarlyRemainder ==
  ASSUME NEW d \in Nat \ {0}, NEW a \in Int, NEW b \in Int
  PROVE  /\ ((a % d) + b) % d = (a + b) % d
         /\ (b - (a % d)) % d = (b - a) % d
<1> DEFINE q == a \div d
           r == a % d
<1>1. q \in Int /\ r \in 0..(d-1) /\ a = d * q + r
  BY Divides
<1> HIDE DEF q, r
<1>a. r + b \in Int /\ b - r \in Int /\ -q \in Int
  BY <1>1
<1>2. ((d * q) + (r + b)) % d = (r + b) % d
  BY <1>1, <1>a, SkipsWhole
<1>3. ((d * (-q)) + (b - r)) % d = (b - r) % d
  BY <1>a, SkipsWhole
<1>4. (d * q) + (r + b) = a + b /\ (d * (-q)) + (b - r) = b - a
  <2>1. d * (-q) = -(d * q)
    BY <1>1
  <2> QED
    BY <1>1, <2>1
<1> QED
  BY <1>2, <1>3, <1>4 DEF r

\* The counters are a whole number of buffers, so that wrapping them keeps the index.
LEMMA WrapKeepsIndex ==
  ASSUME NEW a \in Int
  PROVE  (a % CounterLimit) % BufferSize = a % BufferSize
<1> DEFINE n == CounterLimit \div BufferSize
           q == a \div CounterLimit
           r == a % CounterLimit
<1>1. /\ BufferSize \in Nat \ {0} /\ CounterLimit \in Nat \ {0}
      /\ CounterLimit % BufferSize = 0
  BY KeyboardAssumption
<1>2. n \in Int /\ CounterLimit = BufferSize * n
  <2>1. n \in Int /\ CounterLimit = BufferSize * n + (CounterLimit % BufferSize)
    BY <1>1, Divides
  <2> HIDE DEF n
  <2> QED
    BY <1>1, <2>1
<1>3. q \in Int /\ r \in Int /\ a = CounterLimit * q + r
  <2>1. q \in Int /\ r \in 0..(CounterLimit-1) /\ a = CounterLimit * q + r
    BY <1>1, Divides
  <2> HIDE DEF q, r
  <2> QED
    BY <1>1, <2>1
<1> HIDE DEF n, q, r
<1>4. (BufferSize * (n * q) + r) % BufferSize = r % BufferSize
  <2>1. n * q \in Int
    BY <1>2, <1>3
  <2> QED
    BY <1>1, <1>3, <2>1, SkipsWhole
<1>5. BufferSize * (n * q) = CounterLimit * q
  <2>1. BufferSize * (n * q) = (BufferSize * n) * q
    BY <1>1, <1>2, <1>3
  <2> QED
    BY <1>2, <2>1
<1> QED
  BY <1>3, <1>4, <1>5 DEF r

------------------------------------------------------------------------------
(* The ring *)

\* A cell has one position counted from the head, and a position one cell.
LEMMA CellsInOrder ==
  ASSUME NEW k \in Buffer
  PROVE  /\ \A i \in Indices : /\ Position(k, i) \in 0..BufferSize-1
                               /\ (k.head + Position(k, i)) % BufferSize = i
         /\ \A j \in 0..BufferSize-1 : /\ (k.head + j) % BufferSize \in Indices
                                      /\ Position(k, (k.head + j) % BufferSize) = j
<1> DEFINE h == k.head
           i0 == h % BufferSize
           q == h \div BufferSize
<1>1. BufferSize \in Nat \ {0} /\ h \in Int
  BY KeyboardAssumption DEF Buffer
<1>2. q \in Int /\ i0 \in 0..(BufferSize-1) /\ h = BufferSize * q + i0
  BY <1>1, Divides
<1>3. \A i : Position(k, i) = (i - i0) % BufferSize
  BY DEF Position, head_index
<1> HIDE DEF h, i0, q
<1>4. ASSUME NEW i \in Indices
      PROVE  /\ Position(k, i) \in 0..BufferSize-1
             /\ (h + Position(k, i)) % BufferSize = i
  <2>1. i \in Int /\ i - i0 \in Int /\ i \in 0..(BufferSize-1)
    BY <1>1, <1>2 DEF Indices
  <2>2. (i - i0) % BufferSize \in 0..(BufferSize-1)
    BY <1>1, <2>1, Divides
  <2>3. (((i - i0) % BufferSize) + h) % BufferSize = ((i - i0) + h) % BufferSize
    BY <1>1, <2>1, EarlyRemainder
  <2>4. (i - i0) + h = BufferSize * q + i
    BY <1>1, <1>2, <2>1
  <2>5. (BufferSize * q + i) % BufferSize = i
    BY <1>1, <1>2, <2>1, OneRemainder
  <2>6. ((i - i0) % BufferSize) + h = h + ((i - i0) % BufferSize)
    BY <1>1, <2>2
  <2> QED
    BY <1>3, <2>2, <2>3, <2>4, <2>5, <2>6
<1>5. ASSUME NEW j \in 0..BufferSize-1
      PROVE  /\ (h + j) % BufferSize \in Indices
             /\ Position(k, (h + j) % BufferSize) = j
  <2>1. j \in Int /\ h + j \in Int /\ -i0 \in Int
    BY <1>1, <1>2
  <2>2. (h + j) % BufferSize \in 0..(BufferSize-1)
    BY <1>1, <2>1, Divides
  <2>3. (((h + j) % BufferSize) + (-i0)) % BufferSize = ((h + j) + (-i0)) % BufferSize
    BY <1>1, <2>1, EarlyRemainder
  <2>4. (h + j) + (-i0) = BufferSize * q + j
    BY <1>1, <1>2, <2>1
  <2>5. (BufferSize * q + j) % BufferSize = j
    BY <1>1, <1>2, OneRemainder
  <2>6. ((h + j) % BufferSize) + (-i0) = ((h + j) % BufferSize) - i0
    BY <1>1, <1>2, <2>2
  <2> QED
    BY <1>3, <2>2, <2>3, <2>4, <2>5, <2>6 DEF Indices
<1> QED
  BY <1>4, <1>5 DEF h

\* The tail is as many cells behind the head as characters wait.
LEMMA TailFollows ==
  ASSUME NEW k \in Buffer
  PROVE  /\ Waiting(k) \in 0..CounterLimit-1
         /\ keyboard_get_tail_index(k) = (k.head + Waiting(k)) % BufferSize
<1> DEFINE w == (k.tail - k.head) % CounterLimit
<1>1. /\ BufferSize \in Nat \ {0} /\ CounterLimit \in Nat \ {0}
      /\ k.head \in Int /\ k.tail \in 0..CounterLimit-1 /\ k.tail \in Int
      /\ k.tail - k.head \in Int
  BY KeyboardAssumption DEF Buffer
<1>2. w \in 0..(CounterLimit-1)
  BY <1>1, Divides
<1>3. (w + k.head) % CounterLimit = ((k.tail - k.head) + k.head) % CounterLimit
  BY <1>1, EarlyRemainder
<1> HIDE DEF w
<1>4. (k.tail - k.head) + k.head = CounterLimit * 0 + k.tail
  BY <1>1
<1>5. (CounterLimit * 0 + k.tail) % CounterLimit = k.tail
  BY <1>1, OneRemainder
<1>6. ((w + k.head) % CounterLimit) % BufferSize = (w + k.head) % BufferSize
  <2>1. w + k.head \in Int
    BY <1>1, <1>2
  <2> QED
    BY <2>1, WrapKeepsIndex
<1>7. w + k.head = k.head + w
  BY <1>1, <1>2
<1>8. Waiting(k) = w
  BY DEF Waiting, w
<1> QED
  BY <1>2, <1>3, <1>4, <1>5, <1>6, <1>7, <1>8 DEF keyboard_get_tail_index

\* The cell j places behind the head.
CellAt(k, j) == k.buffer[(k.head + j) % BufferSize]

\* The cells with characters are those that wait.
Ordered(k) == \A j \in 0..BufferSize-1 : CellAt(k, j) # NUL <=> j < Waiting(k)

\* So says NothingBehindNull of every buffer.
LEMMA OrderedByPosition ==
  ASSUME NEW k \in Buffer
  PROVE  Ordered(k) <=> \A i \in Indices : k.buffer[i] # NUL <=> Position(k, i) < Waiting(k)
<1>1. ASSUME Ordered(k), NEW i \in Indices
      PROVE  k.buffer[i] # NUL <=> Position(k, i) < Waiting(k)
  BY <1>1, CellsInOrder DEF Ordered, CellAt
<1>2. ASSUME \A i \in Indices : k.buffer[i] # NUL <=> Position(k, i) < Waiting(k),
             NEW j \in 0..BufferSize-1
      PROVE  CellAt(k, j) # NUL <=> j < Waiting(k)
  BY <1>2, CellsInOrder DEF CellAt
<1> QED
  BY <1>1, <1>2 DEF Ordered

\* keyboard_push with room puts the character behind those that wait.
LEMMA PushAppends ==
  ASSUME NEW k \in Buffer, NEW c \in Char, Waiting(k) < BufferSize,
         Waiting(k) + 1 < CounterLimit
  PROVE  /\ push(k, c) \in Buffer /\ Waiting(push(k, c)) = Waiting(k) + 1
         /\ \A j \in 0..BufferSize-1 :
              CellAt(push(k, c), j) = IF j = Waiting(k) THEN c ELSE CellAt(k, j)
<1> DEFINE m == push(k, c)
           w == Waiting(k)
<1>1. /\ BufferSize \in Nat \ {0} /\ CounterLimit \in Nat \ {0}
      /\ k.head \in Int /\ k.tail \in Int /\ k.tail - k.head \in Int
  BY KeyboardAssumption DEF Buffer
<1>2. /\ w \in 0..BufferSize-1 /\ w \in Int
      /\ keyboard_get_tail_index(k) = (k.head + w) % BufferSize
  BY <1>1, TailFollows
<1>3. keyboard_get_tail_index(k) \in Indices
  BY <1>2, CellsInOrder
<1>4. /\ m.head = k.head /\ m.tail = (k.tail + 1) % CounterLimit
      /\ m.buffer = [k.buffer EXCEPT ![keyboard_get_tail_index(k)] = c]
      /\ (k.tail + 1) % CounterLimit \in 0..(CounterLimit-1)
  <2>1. k.tail + 1 \in Int
    BY <1>1
  <2>2. (k.tail + 1) % CounterLimit \in 0..(CounterLimit-1)
    BY <1>1, <2>1, Divides
  <2> QED
    BY <2>2 DEF push, Buffer
<1>5. m \in Buffer
  BY <1>3, <1>4 DEF push, Buffer
<1>6. Waiting(m) = w + 1
  <2>1. Waiting(m) = (((k.tail + 1) % CounterLimit) + (-k.head)) % CounterLimit
    BY <1>1, <1>4 DEF Waiting
  <2>2. /\ k.tail + 1 \in Int /\ -k.head \in Int
    BY <1>1
  <2>3. Waiting(m) = ((k.tail + 1) + (-k.head)) % CounterLimit
    BY <1>1, <2>1, <2>2, EarlyRemainder
  <2>4. (((k.tail - k.head) % CounterLimit) + 1) % CounterLimit =
          ((k.tail - k.head) + 1) % CounterLimit
    BY <1>1, EarlyRemainder
  <2>5. (k.tail - k.head) + 1 = (k.tail + 1) + (-k.head)
    BY <1>1
  <2>6. Waiting(m) = (w + 1) % CounterLimit
    BY <2>3, <2>4, <2>5 DEF Waiting
  <2> HIDE DEF w, m
  <2>7. (CounterLimit * 0 + (w + 1)) % CounterLimit = w + 1
    <3>1. w + 1 \in 0..(CounterLimit-1)
      BY <1>1, <1>2 DEF w
    <3> QED
      BY <1>1, <3>1, OneRemainder
  <2>8. CounterLimit * 0 + (w + 1) = w + 1
    BY <1>1, <1>2
  <2> QED
    BY <2>6, <2>7, <2>8
<1>7. ASSUME NEW j \in 0..BufferSize-1
      PROVE  CellAt(m, j) = IF j = w THEN c ELSE CellAt(k, j)
  <2>1. /\ (k.head + j) % BufferSize \in Indices
        /\ Position(k, (k.head + j) % BufferSize) = j
        /\ Position(k, (k.head + w) % BufferSize) = w
    BY <1>2, CellsInOrder
  <2>2. (k.head + j) % BufferSize = keyboard_get_tail_index(k) <=> j = w
    BY <1>2, <2>1
  <2> QED
    BY <1>4, <2>1, <2>2 DEF CellAt, Buffer
<1> QED
  BY <1>5, <1>6, <1>7

\* keyboard_pop takes the first of those that wait.
LEMMA PopTakesFirst ==
  ASSUME NEW k \in Buffer, Waiting(k) > 0
  PROVE  /\ pop(k) \in Buffer /\ Waiting(pop(k)) = Waiting(k) - 1
         /\ \A j \in 0..BufferSize-1 :
              CellAt(pop(k), j) = IF j = BufferSize - 1 THEN NUL ELSE CellAt(k, j + 1)
<1> DEFINE m == pop(k)
           w == Waiting(k)
           next == k.head + 1
<1>1. /\ BufferSize \in Nat \ {0} /\ CounterLimit \in Nat \ {0}
      /\ k.head \in Int /\ k.tail \in Int /\ k.tail - k.head \in Int /\ next \in Int
  BY KeyboardAssumption DEF Buffer
<1>2. w \in 0..CounterLimit-1 /\ w \in Int
  BY <1>1, TailFollows
<1>3. head_index(k) = (k.head + 0) % BufferSize /\ head_index(k) \in Indices
  <2>1. 0 \in 0..BufferSize-1 /\ k.head + 0 = k.head
    BY <1>1
  <2> QED
    BY <2>1, CellsInOrder DEF head_index
<1>4. /\ m.head = next % CounterLimit /\ m.tail = k.tail
      /\ m.buffer = [k.buffer EXCEPT ![head_index(k)] = NUL]
      /\ next % CounterLimit \in 0..(CounterLimit-1)
  BY <1>1, Divides DEF pop, Buffer
<1>5. m \in Buffer
  BY <1>3, <1>4 DEF pop, Buffer
<1> HIDE DEF m
<1>6. Waiting(m) = w - 1
  <2>1. Waiting(m) = (k.tail - next) % CounterLimit
    <3>1. (k.tail - (next % CounterLimit)) % CounterLimit = (k.tail - next) % CounterLimit
      <4> HIDE DEF next
      <4> QED
        BY <1>1, EarlyRemainder
    <3> QED
      BY <1>4, <3>1 DEF Waiting
  <2>2. (((k.tail - k.head) % CounterLimit) + (-1)) % CounterLimit =
          ((k.tail - k.head) + (-1)) % CounterLimit
    BY <1>1, EarlyRemainder
  <2>3. (k.tail - k.head) + (-1) = k.tail - next
    BY <1>1
  <2>4. Waiting(m) = (w + (-1)) % CounterLimit
    BY <2>1, <2>2, <2>3 DEF Waiting
  <2>5. w - 1 \in 0..(CounterLimit-1)
    BY <1>1, <1>2
  <2> HIDE DEF w
  <2>6. (CounterLimit * 0 + (w - 1)) % CounterLimit = w - 1
    BY <1>1, <2>5, OneRemainder
  <2>7. CounterLimit * 0 + (w - 1) = w + (-1)
    BY <1>1, <1>2
  <2> QED
    BY <2>4, <2>6, <2>7
<1>7. ASSUME NEW j \in 0..BufferSize-1
      PROVE  (m.head + j) % BufferSize = (k.head + (j + 1)) % BufferSize
  <2>1. /\ next % CounterLimit \in Int /\ j \in Int
    BY <1>1, <1>4
  <2>2. (((next % CounterLimit) % BufferSize) + j) % BufferSize =
          ((next % CounterLimit) + j) % BufferSize
    BY <1>1, <2>1, EarlyRemainder
  <2>3. ((next % BufferSize) + j) % BufferSize = (next + j) % BufferSize
    BY <1>1, <2>1, EarlyRemainder
  <2>4. (next % CounterLimit) % BufferSize = next % BufferSize
    BY <1>1, WrapKeepsIndex
  <2>5. next + j = k.head + (j + 1)
    BY <1>1, <2>1
  <2> QED
    BY <1>4, <2>2, <2>3, <2>4, <2>5
<1>8. ASSUME NEW j \in 0..BufferSize-1
      PROVE  CellAt(m, j) = IF j = BufferSize - 1 THEN NUL ELSE CellAt(k, j + 1)
  <2>1. CASE j = BufferSize - 1
    <3>1. k.head + (j + 1) = BufferSize * 1 + k.head
      BY <1>1, <2>1
    <3>2. (BufferSize * 1 + k.head) % BufferSize = k.head % BufferSize
      <4>1. 1 \in Int
        OBVIOUS
      <4> QED
        BY <1>1, <4>1, SkipsWhole
    <3>3. (m.head + j) % BufferSize = head_index(k)
      BY <1>7, <3>1, <3>2 DEF head_index
    <3> QED
      BY <1>3, <1>4, <2>1, <3>3 DEF CellAt, Buffer
  <2>2. CASE j # BufferSize - 1
    <3>1. j + 1 \in 0..BufferSize-1 /\ 0 \in 0..BufferSize-1 /\ j + 1 # 0
      BY <1>1, <2>2
    <3>2. /\ (k.head + (j + 1)) % BufferSize \in Indices
          /\ Position(k, (k.head + (j + 1)) % BufferSize) = j + 1
          /\ Position(k, (k.head + 0) % BufferSize) = 0
      BY <3>1, CellsInOrder
    <3>3. (k.head + (j + 1)) % BufferSize # head_index(k)
      BY <1>3, <3>1, <3>2
    <3> QED
      BY <1>4, <1>7, <2>2, <3>2, <3>3 DEF CellAt, Buffer
  <2> QED
    BY <2>1, <2>2
<1> QED
  BY <1>5, <1>6, <1>8 DEF m

\* process_init: in the buffer of a new process nothing waits.
LEMMA NewIsEmpty ==
  /\ EmptyBuffer \in Buffer /\ Waiting(EmptyBuffer) = 0
  /\ \A j \in 0..BufferSize-1 : CellAt(EmptyBuffer, j) = NUL
  /\ Ordered(EmptyBuffer)
<1>1. BufferSize \in Nat \ {0} /\ CounterLimit \in Nat \ {0}
  BY KeyboardAssumption
<1>2. EmptyBuffer \in Buffer
  BY <1>1 DEF EmptyBuffer, Buffer
<1>3. Waiting(EmptyBuffer) = 0
  <2>1. (CounterLimit * 0 + 0) % CounterLimit = 0
    <3>1. 0 \in Int /\ 0 \in 0..(CounterLimit-1)
      BY <1>1
    <3> QED
      BY <1>1, <3>1, OneRemainder
  <2>2. CounterLimit * 0 + 0 = 0 - 0
    BY <1>1
  <2> QED
    BY <2>1, <2>2 DEF Waiting, EmptyBuffer
<1>4. ASSUME NEW j \in 0..BufferSize-1 PROVE CellAt(EmptyBuffer, j) = NUL
  <2>1. (EmptyBuffer.head + j) % BufferSize \in Indices
    BY <1>2, CellsInOrder
  <2> QED
    BY <2>1 DEF CellAt, EmptyBuffer
<1>5. \A j \in 0..BufferSize-1 : ~(j < 0)
  BY <1>1
<1> QED
  BY <1>2, <1>3, <1>4, <1>5 DEF Ordered

------------------------------------------------------------------------------
(* Every buffer, whatever the processes do *)

BuffersInv ==
  /\ keyboard \in [ProcAddr -> Buffer] /\ capslock \in BOOLEAN
  /\ \A p \in ProcAddr : Waiting(keyboard[p]) <= TypeAhead /\ Ordered(keyboard[p])

\* A buffer with a character more, or one less, is still in order.
LEMMA PushKeepsOrder ==
  ASSUME RoomToType, NEW k \in Buffer, NEW c \in Char, Waiting(k) < TypeAhead, Ordered(k)
  PROVE  /\ push(k, c) \in Buffer /\ Waiting(push(k, c)) <= TypeAhead /\ Ordered(push(k, c))
         /\ Waiting(push(k, c)) = Waiting(k) + 1
         /\ \A j \in 0..BufferSize-1 :
              CellAt(push(k, c), j) = IF j = Waiting(k) THEN c ELSE CellAt(k, j)
<1>1. /\ BufferSize \in Nat \ {0} /\ CounterLimit \in Nat \ {0} /\ TypeAhead \in Nat
      /\ Waiting(k) \in 0..CounterLimit-1
  BY KeyboardAssumption, ConsoleAssumption, TailFollows
<1>2. Waiting(k) < BufferSize /\ Waiting(k) + 1 < CounterLimit
  BY <1>1 DEF RoomToType
<1>3. /\ push(k, c) \in Buffer /\ Waiting(push(k, c)) = Waiting(k) + 1
      /\ \A j \in 0..BufferSize-1 :
           CellAt(push(k, c), j) = IF j = Waiting(k) THEN c ELSE CellAt(k, j)
  BY <1>2, PushAppends
<1>4. c # NUL
  BY DEF Char, NUL
<1>5. ASSUME NEW j \in 0..BufferSize-1
      PROVE  CellAt(push(k, c), j) # NUL <=> j < Waiting(k) + 1
  <2>1. CellAt(push(k, c), j) # NUL <=> j = Waiting(k) \/ j < Waiting(k)
    BY <1>3, <1>4 DEF Ordered
  <2> QED
    BY <1>1, <2>1
<1> QED
  BY <1>1, <1>3, <1>5 DEF Ordered

\* The same for a character less.
LEMMA PopKeepsOrder ==
  ASSUME RoomToType, NEW k \in Buffer, CanPop(k), Waiting(k) <= TypeAhead, Ordered(k)
  PROVE  /\ pop(k) \in Buffer /\ Waiting(pop(k)) <= TypeAhead /\ Ordered(pop(k))
         /\ Waiting(k) > 0 /\ Waiting(pop(k)) = Waiting(k) - 1
         /\ \A j \in 0..BufferSize-1 :
              CellAt(pop(k), j) = IF j = BufferSize - 1 THEN NUL ELSE CellAt(k, j + 1)
<1>1. /\ BufferSize \in Nat \ {0} /\ CounterLimit \in Nat \ {0} /\ TypeAhead \in Nat
      /\ Waiting(k) \in 0..CounterLimit-1
  BY KeyboardAssumption, ConsoleAssumption, TailFollows
<1>2. Waiting(k) > 0
  <2>1. 0 \in 0..BufferSize-1 /\ k.head + 0 = k.head
    BY <1>1 DEF Buffer
  <2>2. CellAt(k, 0) # NUL
    BY <2>1 DEF CanPop, CellAt, head_index
  <2> QED
    BY <2>1, <2>2 DEF Ordered
<1>3. /\ pop(k) \in Buffer /\ Waiting(pop(k)) = Waiting(k) - 1
      /\ \A j \in 0..BufferSize-1 :
           CellAt(pop(k), j) = IF j = BufferSize - 1 THEN NUL ELSE CellAt(k, j + 1)
  BY <1>2, PopTakesFirst
<1>4. ASSUME NEW j \in 0..BufferSize-1
      PROVE  CellAt(pop(k), j) # NUL <=> j < Waiting(k) - 1
  <2>1. CASE j = BufferSize - 1
    BY <1>1, <1>3, <2>1 DEF RoomToType
  <2>2. CASE j # BufferSize - 1
    <3>1. j + 1 \in 0..BufferSize-1
      BY <1>1, <2>2
    <3>2. CellAt(k, j + 1) # NUL <=> j + 1 < Waiting(k)
      BY <3>1 DEF Ordered
    <3> QED
      BY <1>1, <1>3, <2>2, <3>2
  <2> QED
    BY <2>1, <2>2
<1> QED
  BY <1>1, <1>2, <1>3, <1>4 DEF Ordered

\* A key is ignored, or pushed to the buffer of the current process, which has room.
LEMMA KeyEffect ==
  ASSUME NEW scancode \in Scancodes, classic_keyboard_handle_interrupt(scancode),
         capslock \in BOOLEAN
  PROVE  /\ UNCHANGED vars /\ kernel = "running" /\ capslock' \in BOOLEAN
         /\ \/ UNCHANGED keyboard
            \/ \E c \in Char :
                 /\ Waiting(keyboard[current_process]) < TypeAhead
                 /\ keyboard' = [keyboard EXCEPT
                                   ![current_process] = push(keyboard[current_process], c)]
<1>1. CASE scancode = "release"
  BY <1>1 DEF classic_keyboard_handle_interrupt
<1>2. CASE scancode # "release"
  <2>1. /\ UNCHANGED vars /\ kernel = "running"
        /\ Waiting(keyboard[current_process]) < TypeAhead
        /\ capslock' = (capslock # (scancode = "capslock"))
    BY <1>2 DEF classic_keyboard_handle_interrupt, MayType
  <2>2. PICK c \in classic_keyboard_scancode_to_char(scancode, capslock') : keyboard_push(c)
    BY <1>2 DEF classic_keyboard_handle_interrupt
  <2>3. c \in Char \cup {NUL}
    BY DEF classic_keyboard_scancode_to_char, keyboard_scan_set_one, Char
  <2>4. capslock' \in BOOLEAN
    BY <2>1
  <2>5. \/ UNCHANGED keyboard
        \/ /\ c # NUL
           /\ keyboard' = [keyboard EXCEPT
                             ![current_process] = push(keyboard[current_process], c)]
    BY <2>2 DEF keyboard_push
  <2> QED
    BY <2>1, <2>3, <2>4, <2>5
<1> QED
  BY <1>1, <1>2

\* The invariant does not depend on what processes start and end.
LEMMA BuffersStep ==
  ASSUME RoomToType, BuffersInv, [ConsoleNext]_consoleVars
  PROVE  BuffersInv'
<1>1. ASSUME NEW scancode \in Scancodes, classic_keyboard_handle_interrupt(scancode)
      PROVE  BuffersInv'
  <2>1. capslock' \in BOOLEAN
    BY <1>1, KeyEffect DEF BuffersInv
  <2>2. CASE UNCHANGED keyboard
    BY <2>1, <2>2 DEF BuffersInv
  <2>3. CASE \E c \in Char :
               /\ Waiting(keyboard[current_process]) < TypeAhead
               /\ keyboard' = [keyboard EXCEPT
                                 ![current_process] = push(keyboard[current_process], c)]
    <3> PICK c \in Char :
          /\ Waiting(keyboard[current_process]) < TypeAhead
          /\ keyboard' = [keyboard EXCEPT
                            ![current_process] = push(keyboard[current_process], c)]
      BY <2>3
    <3>1. current_process \in ProcAddr =>
            /\ push(keyboard[current_process], c) \in Buffer
            /\ Waiting(push(keyboard[current_process], c)) <= TypeAhead
            /\ Ordered(push(keyboard[current_process], c))
      BY PushKeepsOrder DEF BuffersInv
    <3> QED
      BY <2>1, <3>1 DEF BuffersInv
  <2> QED
    BY <1>1, <2>2, <2>3, KeyEffect DEF BuffersInv
<1>2. CASE keyboard_pop
  <2>1. CASE ~CanPop(keyboard[running]) \/ running \notin ProcAddr
    BY <1>2, <2>1 DEF keyboard_pop, BuffersInv
  <2>2. CASE CanPop(keyboard[running]) /\ running \in ProcAddr
    <3>1. /\ pop(keyboard[running]) \in Buffer /\ Waiting(pop(keyboard[running])) <= TypeAhead
          /\ Ordered(pop(keyboard[running]))
      BY <2>2, PopKeepsOrder DEF BuffersInv
    <3>2. keyboard' = [keyboard EXCEPT ![running] = pop(keyboard[running])] /\ capslock' = capslock
      BY <1>2, <2>2 DEF keyboard_pop
    <3> QED
      BY <3>1, <3>2 DEF BuffersInv
  <2> QED
    BY <2>1, <2>2
<1>3. CASE ProcessStep
  <2>1. /\ keyboard' = [p \in ProcAddr |-> IF p \in allocated' \ allocated THEN EmptyBuffer
                                           ELSE keyboard[p]]
        /\ capslock' = capslock
    BY <1>3 DEF ProcessStep, ClearNew
  <2>2. 0 <= TypeAhead
    BY ConsoleAssumption
  <2> QED
    BY <2>1, <2>2, NewIsEmpty DEF BuffersInv
<1>4. CASE UNCHANGED consoleVars
  BY <1>4 DEF consoleVars, BuffersInv
<1> QED
  BY <1>1, <1>2, <1>3, <1>4 DEF ConsoleNext

\* The invariant of the buffers holds from the start.
LEMMA BuffersBegin ==
  ASSUME ConsoleInit
  PROVE  BuffersInv
<1>1. 0 <= TypeAhead
  BY ConsoleAssumption
<1> QED
  BY <1>1, NewIsEmpty DEF ConsoleInit, BuffersInv

\* The inductive invariant of the keyboard buffers.
THEOREM BuffersInvariant ==
  ASSUME RoomToType
  PROVE  ConsoleSpec => []BuffersInv
<1>1. BuffersInv /\ [ConsoleNext]_consoleVars => BuffersInv'
  BY BuffersStep
<1> QED
  BY <1>1, BuffersBegin, PTL DEF ConsoleSpec

\* keyboard.c:95 "if nothing to pop": the null byte at which getkey stops is the end of
\* what was typed, in the buffer of every process, whatever starts, ends and fails, and
\* however often the counters wrap.
THEOREM NullEndsInput ==
  ASSUME RoomToType
  PROVE  ConsoleSpec => []NothingBehindNull
<1>1. BuffersInv => NothingBehindNull
  BY OrderedByPosition DEF BuffersInv, NothingBehindNull
<1> QED
  BY <1>1, BuffersInvariant, PTL

------------------------------------------------------------------------------
(* The unread characters *)

\* The characters that wait are a sequence.
LEMMA UnreadIsSequence ==
  ASSUME NEW k \in Buffer, Waiting(k) <= BufferSize
  PROVE  /\ Unread(k) \in Seq(Char \cup {NUL}) /\ Len(Unread(k)) = Waiting(k)
         /\ \A j \in 1..Waiting(k) : Unread(k)[j] = CellAt(k, j - 1)
<1> DEFINE n == Waiting(k)
           cell(j) == k.buffer[(k.head + j - 1) % BufferSize]
<1>1. n \in Nat /\ BufferSize \in Nat \ {0}
  BY KeyboardAssumption, TailFollows
<1>2. \A j \in 1..n : cell(j) = CellAt(k, j - 1) /\ cell(j) \in Char \cup {NUL}
  <2> SUFFICES ASSUME NEW j \in 1..n
               PROVE  cell(j) = CellAt(k, j - 1) /\ cell(j) \in Char \cup {NUL}
    OBVIOUS
  <2>1. j - 1 \in 0..BufferSize-1 /\ k.head + j - 1 = k.head + (j - 1)
    BY <1>1 DEF Buffer
  <2>2. (k.head + (j - 1)) % BufferSize \in Indices
    BY <2>1, CellsInOrder
  <2> QED
    BY <2>1, <2>2 DEF CellAt, Buffer
<1>3. Unread(k) = [j \in 1..n |-> cell(j)]
  BY DEF Unread
<1> HIDE DEF n, cell
<1>4. [j \in 1..n |-> cell(j)] \in Seq(Char \cup {NUL})
  BY <1>1, <1>2
<1> QED
  BY <1>1, <1>2, <1>3, <1>4 DEF n

\* keyboard_push appends to them.
LEMMA PushReadsAppended ==
  ASSUME RoomToType, NEW k \in Buffer, NEW c \in Char, Waiting(k) < TypeAhead, Ordered(k)
  PROVE  Unread(push(k, c)) = Append(Unread(k), c)
<1> DEFINE S == Char \cup {NUL}
           n == Waiting(k)
           old == Unread(k)
           new == Unread(push(k, c))
<1>1. /\ BufferSize \in Nat \ {0} /\ TypeAhead \in Nat /\ n \in Nat
      /\ n < BufferSize /\ n + 1 <= BufferSize
  <2>1. BufferSize \in Nat \ {0} /\ TypeAhead \in Nat /\ n \in Nat
    BY KeyboardAssumption, ConsoleAssumption, TailFollows
  <2> HIDE DEF n
  <2> QED
    BY <2>1 DEF RoomToType, n
<1>2. /\ push(k, c) \in Buffer /\ Waiting(push(k, c)) = n + 1
      /\ \A j \in 0..BufferSize-1 :
           CellAt(push(k, c), j) = IF j = n THEN c ELSE CellAt(k, j)
  BY PushKeepsOrder
<1>3. /\ old \in Seq(S) /\ Len(old) = n /\ \A j \in 1..n : old[j] = CellAt(k, j - 1)
  BY <1>1, UnreadIsSequence
<1>4. /\ new \in Seq(S) /\ Len(new) = n + 1
      /\ \A j \in 1..n+1 : new[j] = CellAt(push(k, c), j - 1)
  BY <1>1, <1>2, UnreadIsSequence
<1>5. c \in S
  OBVIOUS
<1> HIDE DEF n, old, new, S
<1>6. /\ Append(old, c) \in Seq(S) /\ Len(Append(old, c)) = n + 1
      /\ \A j \in 1..n : Append(old, c)[j] = old[j]
      /\ Append(old, c)[n + 1] = c
  BY <1>3, <1>5, AppendProperties
<1>7. ASSUME NEW j \in 1..n+1 PROVE new[j] = Append(old, c)[j]
  <2>1. j - 1 \in 0..BufferSize-1
    BY <1>1
  <2>2. CASE j = n + 1
    <3>1. j - 1 = n
      BY <1>1, <2>2
    <3> QED
      BY <1>2, <1>4, <1>6, <2>1, <2>2, <3>1
  <2>3. CASE j # n + 1
    <3>1. j \in 1..n /\ j - 1 # n
      BY <1>1, <2>3
    <3> QED
      BY <1>2, <1>3, <1>4, <1>6, <2>1, <3>1
  <2> QED
    BY <2>2, <2>3
<1>8. new = Append(old, c)
  BY <1>4, <1>6, <1>7, SeqEqual
<1> QED
  BY <1>8 DEF new, old

\* keyboard_pop takes the first of them.
LEMMA PopReadsTail ==
  ASSUME RoomToType, NEW k \in Buffer, CanPop(k), Waiting(k) <= TypeAhead, Ordered(k)
  PROVE  Unread(k) # <<>> /\ Unread(pop(k)) = Tail(Unread(k))
<1> DEFINE S == Char \cup {NUL}
           n == Waiting(k)
           old == Unread(k)
           new == Unread(pop(k))
<1>1. /\ BufferSize \in Nat \ {0} /\ n \in Nat /\ n <= BufferSize /\ 0 < n
      /\ n - 1 <= BufferSize
  <2>1. BufferSize \in Nat \ {0} /\ TypeAhead \in Nat /\ n \in Nat
    BY KeyboardAssumption, ConsoleAssumption, TailFollows
  <2>2. 0 < n
    BY PopKeepsOrder
  <2> HIDE DEF n
  <2> QED
    BY <2>1, <2>2 DEF RoomToType, n
<1>2. /\ pop(k) \in Buffer /\ Waiting(pop(k)) = n - 1
      /\ \A j \in 0..BufferSize-1 :
           CellAt(pop(k), j) = IF j = BufferSize - 1 THEN NUL ELSE CellAt(k, j + 1)
  BY PopKeepsOrder
<1>3. /\ old \in Seq(S) /\ Len(old) = n /\ \A j \in 1..n : old[j] = CellAt(k, j - 1)
  BY <1>1, UnreadIsSequence
<1>4. /\ new \in Seq(S) /\ Len(new) = n - 1
      /\ \A j \in 1..n-1 : new[j] = CellAt(pop(k), j - 1)
  BY <1>1, <1>2, UnreadIsSequence
<1> HIDE DEF n, old, new, S
<1>5. old # <<>>
  BY <1>1, <1>3, EmptySeq
<1>6. /\ Tail(old) \in Seq(S) /\ Len(Tail(old)) = n - 1
      /\ \A j \in 1..n-1 : Tail(old)[j] = old[j + 1]
  BY <1>3, <1>5, HeadTailProperties
<1>7. ASSUME NEW j \in 1..n-1 PROVE new[j] = Tail(old)[j]
  <2>1. /\ j - 1 \in 0..BufferSize-1 /\ j - 1 # BufferSize - 1
        /\ (j - 1) + 1 = j /\ j + 1 \in 1..n /\ (j + 1) - 1 = j
    BY <1>1
  <2> QED
    BY <1>2, <1>3, <1>4, <1>6, <2>1
<1>8. new = Tail(old)
  BY <1>4, <1>6, <1>7, SeqEqual
<1> QED
  BY <1>5, <1>8 DEF new, old

\* A new process starts without any.
LEMMA NewReadsNothing == Unread(EmptyBuffer) = <<>>
<1>1. BufferSize \in Nat \ {0}
  BY KeyboardAssumption
<1>2. Unread(EmptyBuffer) \in Seq(Char \cup {NUL}) /\ Len(Unread(EmptyBuffer)) = 0
  BY <1>1, NewIsEmpty, UnreadIsSequence
<1> QED
  BY <1>2, EmptySeq

------------------------------------------------------------------------------
(* The refinement of KeyQueues *)

\* The program whose task is current, and what each program has not read.
Reader == IF list.current = NULL THEN NULL ELSE running
Queue == [p \in ProcAddr |-> Unread(keyboard[p])]

\* What a step of KeyQueues needs to know about the processes.
KeysInv == TableInv /\ StackInv /\ CurrentAgrees /\ BuffersInv

\* While the kernel runs the reader is the current process, and in the table.
LEMMA ReaderRuns ==
  KeysInv /\ kernel = "running" =>
    /\ Reader = running /\ Reader = current_process
    /\ Reader \in InTable /\ Reader \in ProcAddr
<1> SUFFICES ASSUME KeysInv, kernel = "running"
             PROVE  /\ Reader = running /\ Reader = current_process
                    /\ Reader \in InTable /\ Reader \in ProcAddr
  OBVIOUS
<1>1. RunsLiveTask
  BY StackRunsLive DEF KeysInv
<1>2. list.current \in LiveTasks /\ running \in ProcAddr /\ running \in InTable
  BY <1>1, RunningIsListed DEF KeysInv
<1>3. list.current # NULL
  BY <1>2, ProcessesAssumption DEF LiveTasks
<1> QED
  BY <1>2, <1>3 DEF Reader, KeysInv, CurrentAgrees

\* A key goes to the queue of the reader.
LEMMA TypeImplements ==
  ASSUME RoomToType, KeysInv,
         NEW scancode \in Scancodes, classic_keyboard_handle_interrupt(scancode)
  PROVE  \/ UNCHANGED <<InTable, Reader, Queue>>
         \/ \E c \in Char : /\ Reader \in InTable
                            /\ Queue' = [Queue EXCEPT ![Reader] = Append(Queue[Reader], c)]
                            /\ UNCHANGED <<InTable, Reader>>
<1>1. UNCHANGED vars /\ kernel = "running"
  BY KeyEffect DEF KeysInv, BuffersInv
<1>2. UNCHANGED <<InTable, Reader>>
  BY <1>1 DEF vars, InTable, Reader, running
<1>3. CASE UNCHANGED keyboard
  BY <1>2, <1>3 DEF Queue
<1>4. CASE \E c \in Char :
             /\ Waiting(keyboard[current_process]) < TypeAhead
             /\ keyboard' = [keyboard EXCEPT
                               ![current_process] = push(keyboard[current_process], c)]
  <2> PICK c \in Char :
        /\ Waiting(keyboard[current_process]) < TypeAhead
        /\ keyboard' = [keyboard EXCEPT ![current_process] = push(keyboard[current_process], c)]
    BY <1>4
  <2>1. /\ Reader = current_process /\ Reader \in InTable /\ Reader \in ProcAddr
    BY <1>1, ReaderRuns
  <2>2. keyboard[Reader] \in Buffer /\ Ordered(keyboard[Reader])
    BY <2>1 DEF KeysInv, BuffersInv
  <2>3. Unread(push(keyboard[Reader], c)) = Append(Unread(keyboard[Reader]), c)
    BY <2>1, <2>2, PushReadsAppended
  <2>4. keyboard' = [keyboard EXCEPT ![Reader] = push(keyboard[Reader], c)]
    BY <2>1
  <2>5. \A q \in ProcAddr : keyboard'[q] = IF q = Reader THEN push(keyboard[Reader], c)
                                           ELSE keyboard[q]
    BY <2>4 DEF KeysInv, BuffersInv
  <2>6. \A q \in ProcAddr : Unread(keyboard'[q]) =
          IF q = Reader THEN Append(Unread(keyboard[Reader]), c) ELSE Unread(keyboard[q])
    <3> SUFFICES ASSUME NEW q \in ProcAddr
                 PROVE  Unread(keyboard'[q]) = IF q = Reader
                                               THEN Append(Unread(keyboard[Reader]), c)
                                               ELSE Unread(keyboard[q])
      OBVIOUS
    <3>1. CASE q = Reader
      <4>1. keyboard'[q] = push(keyboard[Reader], c)
        BY <2>5, <3>1
      <4> QED
        BY <2>3, <3>1, <4>1
    <3>2. CASE q # Reader
      <4>1. keyboard'[q] = keyboard[q]
        BY <2>5, <3>2
      <4> QED
        BY <3>2, <4>1
    <3> QED
      BY <3>1, <3>2
  <2>7. Queue' = [Queue EXCEPT ![Reader] = Append(Queue[Reader], c)]
    <3> HIDE DEF Reader
    <3>1. Queue' = [q \in ProcAddr |-> Unread(keyboard'[q])]
      BY DEF Queue, Unread, Waiting
    <3> QED
      BY <2>1, <2>6, <3>1 DEF Queue
  <2> QED
    BY <1>2, <2>1, <2>7
<1> QED
  BY <1>3, <1>4, KeyEffect DEF KeysInv, BuffersInv

\* getkey takes the first key of the reader's queue, or finds none.
LEMMA ReadImplements ==
  ASSUME RoomToType, KeysInv, keyboard_pop
  PROVE  \/ UNCHANGED <<InTable, Reader, Queue>>
         \/ /\ Reader \in InTable /\ Queue[Reader] # <<>>
            /\ Queue' = [Queue EXCEPT ![Reader] = Tail(Queue[Reader])]
            /\ UNCHANGED <<InTable, Reader>>
<1>1. UNCHANGED vars /\ kernel = "running"
  BY DEF keyboard_pop
<1>2. UNCHANGED <<InTable, Reader>>
  BY <1>1 DEF vars, InTable, Reader, running
<1>3. Reader = running /\ Reader \in InTable /\ Reader \in ProcAddr
  BY <1>1, ReaderRuns
<1>4. CASE ~CanPop(keyboard[running])
  BY <1>2, <1>4 DEF keyboard_pop, Queue
<1>5. CASE CanPop(keyboard[running])
  <2>1. /\ keyboard[Reader] \in Buffer /\ Ordered(keyboard[Reader])
        /\ Waiting(keyboard[Reader]) <= TypeAhead /\ CanPop(keyboard[Reader])
    BY <1>3, <1>5 DEF KeysInv, BuffersInv
  <2>2. /\ Unread(keyboard[Reader]) # <<>>
        /\ Unread(pop(keyboard[Reader])) = Tail(Unread(keyboard[Reader]))
    BY <2>1, PopReadsTail
  <2>3. keyboard' = [keyboard EXCEPT ![Reader] = pop(keyboard[Reader])]
    BY <1>3, <1>5 DEF keyboard_pop
  <2>4. \A q \in ProcAddr : keyboard'[q] = IF q = Reader THEN pop(keyboard[Reader])
                                           ELSE keyboard[q]
    BY <2>3 DEF KeysInv, BuffersInv
  <2>5. ASSUME NEW q \in ProcAddr
        PROVE  Unread(keyboard'[q]) = IF q = Reader THEN Tail(Unread(keyboard[Reader]))
                                      ELSE Unread(keyboard[q])
    <3>1. CASE q = Reader
      <4>1. keyboard'[q] = pop(keyboard[Reader])
        BY <2>4, <3>1
      <4> QED
        BY <2>2, <3>1, <4>1
    <3>2. CASE q # Reader
      <4>1. keyboard'[q] = keyboard[q]
        BY <2>4, <3>2
      <4> QED
        BY <3>2, <4>1
    <3> QED
      BY <3>1, <3>2
  <2>6. Queue' = [Queue EXCEPT ![Reader] = Tail(Queue[Reader])] /\ Queue[Reader] # <<>>
    <3>1. Queue' = [q \in ProcAddr |-> Unread(keyboard'[q])]
      BY DEF Queue, Unread, Waiting
    <3> HIDE DEF Reader
    <3> QED
      BY <1>3, <2>2, <2>5, <3>1 DEF Queue
  <2> QED
    BY <1>2, <1>3, <2>6
<1> QED
  BY <1>4, <1>5

\* A process structure that is allocated starts with an empty queue.
LEMMA NewQueues ==
  ASSUME ClearNew
  PROVE  Queue' = [p \in ProcAddr |-> IF p \in allocated' \ allocated THEN <<>> ELSE Queue[p]]
<1>1. Queue' = [q \in ProcAddr |-> Unread(keyboard'[q])]
  BY DEF Queue, Unread, Waiting
<1>2. ASSUME NEW q \in ProcAddr
      PROVE  Unread(keyboard'[q]) = IF q \in allocated' \ allocated THEN <<>>
                                    ELSE Unread(keyboard[q])
  <2>1. CASE q \in allocated' \ allocated
    <3>1. keyboard'[q] = EmptyBuffer
      BY <2>1 DEF ClearNew
    <3> QED
      BY <2>1, <3>1, NewReadsNothing
  <2>2. CASE q \notin allocated' \ allocated
    <3>1. keyboard'[q] = keyboard[q]
      BY <2>2 DEF ClearNew
    <3> QED
      BY <2>2, <3>1
  <2> QED
    BY <2>1, <2>2
<1> QED
  BY <1>1, <1>2 DEF Queue

\* Programs in the table have their structures.
LEMMA TableIsAllocated ==
  ASSUME TableInv, kernel \in {"boot", "running"}
  PROVE  InTable \subseteq allocated
BY ProcessesAssumption DEF TableInv, SlotsMatchTasks, InTable, LiveTasks

\* A program that is started gets the CPU and an empty queue.
LEMMA LoadImplements ==
  ASSUME KeysInv, KeysInv', kernel \in {"boot", "running"}, kernel' = "running", ClearNew,
         NEW p \in ProcAddr, NEW t \in TaskAddr, process_load(p, t), current_process' = p
  PROVE  /\ p \notin InTable /\ Queue' = [Queue EXCEPT ![p] = <<>>]
         /\ InTable' = InTable \cup {p} /\ Reader' = p
<1>1. Reader' = p
  <2>1. (KeysInv /\ kernel = "running" =>
          /\ Reader = running /\ Reader = current_process
          /\ Reader \in InTable /\ Reader \in ProcAddr)'
    BY ReaderRuns, PTL
  <2> QED
    BY <2>1
<1>2. /\ p \notin allocated /\ t \notin allocated /\ allocated' = allocated \cup {p, t}
      /\ \E s \in Slots : processes[s] = NULL /\ processes' = [processes EXCEPT ![s] = p]
  BY LoadEffect DEF KeysInv, TableInv
<1>3. p \notin InTable
  BY <1>2, TableIsAllocated DEF KeysInv
<1>4. InTable' = InTable \cup {p}
  BY <1>2, ProcessesAssumption DEF InTable, KeysInv, TableInv, TypeOK
<1>5. ProcAddr \cap (allocated' \ allocated) = {p}
  BY <1>2, ProcessesAssumption
<1>6. Queue' = [Queue EXCEPT ![p] = <<>>]
  BY <1>5, NewQueues DEF Queue
<1> QED
  BY <1>1, <1>3, <1>4, <1>6

\* A program that fails to load leaves the queues of those in the table and the reader.
LEMMA FailureImplements ==
  ASSUME KeysInv, KeysInv', kernel = "running", kernel' = "running", ClearNew,
         UNCHANGED <<processes, current_process>>,
         NEW p \in ProcAddr \ allocated, allocated' \in {allocated, allocated \cup {p}}
  PROVE  /\ p \notin InTable /\ UNCHANGED <<InTable, Reader>>
         /\ Queue' = [Queue EXCEPT ![p] = <<>>] \/ Queue' = Queue
<1>1. Reader' = Reader
  <2>1. (KeysInv /\ kernel = "running" =>
          /\ Reader = running /\ Reader = current_process
          /\ Reader \in InTable /\ Reader \in ProcAddr)'
    BY ReaderRuns, PTL
  <2>2. Reader' = current_process' /\ Reader = current_process
    BY <2>1, ReaderRuns
  <2> QED
    BY <2>2
<1>2. InTable' = InTable
  BY DEF InTable
<1>3. p \notin InTable
  BY TableIsAllocated DEF KeysInv
<1>4. Queue' = [q \in ProcAddr |-> IF q \in allocated' \ allocated THEN <<>> ELSE Queue[q]]
  BY NewQueues
<1>5. CASE allocated' = allocated
  BY <1>1, <1>2, <1>3, <1>4, <1>5 DEF Queue
<1>6. CASE allocated' = allocated \cup {p}
  <2>1. allocated' \ allocated = {p}
    BY <1>6
  <2> QED
    BY <1>1, <1>2, <1>3, <1>4, <2>1 DEF Queue
<1> QED
  BY <1>5, <1>6

\* The program that ends leaves the table; one that is left reads next.
LEMMA ExitImplements ==
  ASSUME KeysInv, KeysInv', NEW p \in ProcAddr, Terminate(p), ClearNew
  PROVE  /\ Reader \in InTable /\ InTable' = InTable \ {Reader} /\ Queue' = Queue
         /\ IF InTable' = {} THEN Reader' = Reader ELSE Reader' \in InTable'
<1>1. kernel = "running" /\ running = p /\ (TerminateLast(p) \/ TerminateAndSwitch(p))
  BY DEF Terminate
<1>2. Reader = p /\ Reader \in InTable
  BY <1>1, ReaderRuns
<1>3. /\ process[p].id \in Slots /\ processes[process[p].id] = p
      /\ \A s \in Slots : processes[s] = p => s = process[p].id
  <2>1. RunsLiveTask
    BY StackRunsLive DEF KeysInv
  <2>2. process[p].id \in Slots /\ processes[process[p].id] = p
    BY <1>1, <2>1, RunningIsListed DEF KeysInv
  <2> QED
    BY <1>1, <2>2, ProcessesAssumption DEF KeysInv, TableInv, SlotsMatchTasks
<1>4. processes' = Unlinked(p) /\ allocated' \subseteq allocated
  BY <1>1 DEF TerminateLast, TerminateAndSwitch
<1>5. InTable' = InTable \ {p}
  BY <1>3, <1>4, ProcessesAssumption DEF InTable, Unlinked, KeysInv, TableInv, TypeOK
<1>6. Queue' = Queue
  <2>1. allocated' \ allocated = {}
    BY <1>4
  <2> QED
    BY <2>1, NewQueues DEF Queue
<1>7. CASE TerminateLast(p)
  <2>1. InTable' = {}
    BY <1>7, LastIsEmpty DEF KeysInv, TableInv
  <2>2. Reader' = Reader
    BY <1>7 DEF TerminateLast, Reader, running
  <2> QED
    BY <1>2, <1>5, <1>6, <2>1, <2>2
<1>8. CASE ~TerminateLast(p)
  <2>1. kernel' = "running"
    BY <1>8, StackExit DEF KeysInv
  <2>2. (KeysInv /\ kernel = "running" =>
          /\ Reader = running /\ Reader = current_process
          /\ Reader \in InTable /\ Reader \in ProcAddr)'
    BY ReaderRuns, PTL
  <2> QED
    BY <1>2, <1>5, <1>6, <2>1, <2>2
<1> QED
  BY <1>7, <1>8

\* Every step of the console is one of the queues or changes nothing they show.
LEMMA QueuesStep ==
  ASSUME RoomToType, "heap" \notin Faults, KeysInv, KeysInv', [ConsoleNext]_consoleVars
  PROVE  [Queues!Next]_(Queues!vars)
<1> DEFINE Same == UNCHANGED <<InTable, Reader, Queue>>
           Starts(p) == /\ p \notin InTable /\ Queue' = [Queue EXCEPT ![p] = <<>>]
                        /\ \/ InTable' = InTable \cup {p} /\ Reader' = p
                           \/ UNCHANGED <<InTable, Reader>>
<1>a. Same => UNCHANGED Queues!vars
  BY DEF Queues!vars, Reader, Queue
<1>b. ASSUME NEW p \in ProcAddr, Starts(p) PROVE Queues!Next
  <2>1. Queues!Start(p)
    BY <1>b DEF Queues!Start, Reader, Queue
  <2> QED
    BY <2>1 DEF Queues!Next
<1>1. ASSUME NEW scancode \in Scancodes, classic_keyboard_handle_interrupt(scancode)
      PROVE  [Queues!Next]_(Queues!vars)
  <2>1. CASE Same
    BY <1>a, <2>1
  <2>2. CASE \E c \in Char : /\ Reader \in InTable
                             /\ Queue' = [Queue EXCEPT ![Reader] = Append(Queue[Reader], c)]
                             /\ UNCHANGED <<InTable, Reader>>
    <3> PICK c \in Char : /\ Reader \in InTable
                          /\ Queue' = [Queue EXCEPT ![Reader] = Append(Queue[Reader], c)]
                          /\ UNCHANGED <<InTable, Reader>>
      BY <2>2
    <3>1. Queues!Type(c)
      BY DEF Queues!Type, Reader, Queue
    <3> QED
      BY <3>1 DEF Queues!Next
  <2> QED
    BY <1>1, <2>1, <2>2, TypeImplements
<1>2. CASE keyboard_pop
  <2>1. CASE Same
    BY <1>a, <2>1
  <2>2. CASE /\ Reader \in InTable /\ Queue[Reader] # <<>>
             /\ Queue' = [Queue EXCEPT ![Reader] = Tail(Queue[Reader])]
             /\ UNCHANGED <<InTable, Reader>>
    <3>1. Queues!Read
      BY <2>2 DEF Queues!Read, Reader, Queue
    <3> QED
      BY <3>1 DEF Queues!Next
  <2> QED
    BY <1>2, <2>1, <2>2, ReadImplements
<1>3. CASE ProcessStep
  <2>a. Next /\ ClearNew
    BY <1>3 DEF ProcessStep
  <2>1. CASE Boot \/ Start
    <3> PICK p \in ProcAddr, t \in TaskAddr :
          /\ kernel \in {"boot", "running"} /\ kernel' = "running"
          /\ process_load(p, t) /\ current_process' = p
      BY <2>1 DEF Boot, Start
    <3>1. Starts(p)
      BY <2>a, LoadImplements
    <3> QED
      BY <1>b, <3>1
  <2>2. CASE StartLoadFails \/ StartMapFails
    <3>1. PICK p \in ProcAddr \ allocated :
            /\ kernel = "running" /\ kernel' = "running"
            /\ UNCHANGED <<processes, current_process>>
            /\ allocated' \in {allocated, allocated \cup {p}}
      BY <2>2 DEF StartLoadFails, StartMapFails
    <3>2. /\ p \notin InTable /\ UNCHANGED <<InTable, Reader>>
          /\ Queue' = [Queue EXCEPT ![p] = <<>>] \/ Queue' = Queue
      BY <2>a, <3>1, FailureImplements
    <3> QED
      BY <1>a, <1>b, <3>2
  <2>3. CASE Exit
    <3> PICK p \in ProcAddr : Terminate(p)
      BY <2>3 DEF Exit
    <3>1. /\ Reader \in InTable /\ InTable' = InTable \ {Reader} /\ Queue' = Queue
          /\ IF InTable' = {} THEN Reader' = Reader ELSE Reader' \in InTable'
      BY <2>a, ExitImplements
    <3>2. Queues!End
      BY <3>1 DEF Queues!End, Reader, Queue
    <3> QED
      BY <3>2 DEF Queues!Next
  <2>4. CASE BootFails \/ UNCHANGED vars
    <3>1. UNCHANGED <<processes, list, allocated>>
      BY <2>4 DEF BootFails, vars
    <3>2. Queue' = Queue
      BY <2>a, <3>1, NewQueues DEF Queue
    <3> QED
      BY <1>a, <3>1, <3>2 DEF InTable, Reader, running
  <2> QED
    BY <2>a, <2>1, <2>2, <2>3, <2>4
       DEF Next, StartWithoutArguments, StartTaskFails, StartRefused, Stopped
<1>4. CASE UNCHANGED consoleVars
  BY <1>a, <1>4 DEF consoleVars, vars, InTable, Reader, running, Queue, Unread, Waiting
<1> QED
  BY <1>1, <1>2, <1>3, <1>4 DEF ConsoleNext

\* At the start there is no program and no key.
LEMMA QueuesBegin ==
  ASSUME ConsoleInit
  PROVE  Queues!Init
<1>1. InTable = {} /\ Reader = NULL
  BY ProcessesAssumption DEF ConsoleInit, Init, InTable, Reader
<1>2. Queue = [p \in ProcAddr |-> <<>>]
  BY NewReadsNothing DEF ConsoleInit, Queue
<1> QED
  BY <1>1, <1>2 DEF Queues!Init, Reader, Queue

\* The keyboard changes nothing of the processes: what is proved of them holds here.
THEOREM ConsoleImplementsProcesses == ConsoleSpec => Spec
<1>1. ConsoleInit => Init
  BY DEF ConsoleInit
<1>2. [ConsoleNext]_consoleVars => [Next]_vars
  BY DEF ConsoleNext, consoleVars, ProcessStep, keyboard_pop, classic_keyboard_handle_interrupt
<1> QED
  BY <1>1, <1>2, PTL DEF ConsoleSpec, Spec

\* The processes' structures and their keyboard buffers keep their types.
THEOREM ConsoleTypes ==
  ASSUME RoomToType, MaxProcesses =< 3, "heap" \notin Faults
  PROVE  ConsoleSpec => []ConsoleTypeOK
<1>1. TypeOK /\ BuffersInv => ConsoleTypeOK
  BY DEF BuffersInv, ConsoleTypeOK
<1> QED
  BY <1>1, ConsoleImplementsProcesses, ThreeSlotsKeepTheList, BuffersInvariant, PTL

\* A key typed while a program runs reaches that program, in order and once, as long as
\* the process table and the task list agree on who runs: keyboard_push writes to the
\* buffer of process_current(), keyboard_pop reads that of the running task.
THEOREM AgreementKeepsQueues ==
  ASSUME RoomToType, MaxProcesses =< 3, "heap" \notin Faults
  PROVE  ConsoleSpec /\ []CurrentAgrees => ImplementsKeyQueues
<1>1. KeysInv /\ KeysInv' /\ [ConsoleNext]_consoleVars => [Queues!Next]_(Queues!vars)
  BY QueuesStep
<1>2. Spec => [](TableInv /\ StackInv)
  BY StackInvariant, PTL
<1>3. TableInv /\ StackInv /\ CurrentAgrees /\ BuffersInv => KeysInv
  BY DEF KeysInv
<1>4. ConsoleSpec /\ []CurrentAgrees => []KeysInv
  BY <1>2, <1>3, ConsoleImplementsProcesses, BuffersInvariant, PTL
<1> QED
  BY <1>1, <1>4, QueuesBegin, PTL DEF ConsoleSpec, ImplementsKeyQueues, Queues!Spec

\* With two slots they always agree, so that every key reaches the program that had the
\* CPU when it was typed, whatever starts, ends and reuses the memory of another.
THEOREM TwoSlotsKeepQueues ==
  ASSUME RoomToType, MaxProcesses =< 2, "heap" \notin Faults
  PROVE  ConsoleSpec => ImplementsKeyQueues
<1>1. MaxProcesses =< 3
  BY ProcessesAssumption
<1>2. ConsoleSpec => []CurrentAgrees
  BY ConsoleImplementsProcesses, TwoSlotsAgree, PTL
<1> QED
  BY <1>1, <1>2, AgreementKeepsQueues, PTL

==============================================================================
